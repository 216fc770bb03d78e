---------------------------- MODULE MigrationProofs ----------------------------
(* What a migration, its cutovers and its rollbacks keep, for any servers, *)
(* documents, accounts and requests; in the second half, what a migration  *)
(* has copied when it is completed, what its report means and what the     *)
(* server is like that a cutover binds the process to.                     *)
EXTENDS Migration, AdminProofs, WellFoundedInduction

(* The least of some numbers is one of them, and below the others.         *)
LEMMA LeastIsThere ==
  ASSUME NEW S \in SUBSET Nat, S # {} PROVE Min(S) \in S /\ \A n \in S : Min(S) =< n
<1> DEFINE Order == StrictSubsetOrdering(Nat)
           Below == {0 .. s : s \in S}
<1>1. IsWellFoundedOn(Order, FiniteSubsetsOf(Nat))
  BY FS_StrictSubsetOrderingWellFounded
<1>2. Below \subseteq FiniteSubsetsOf(Nat) /\ Below # {}
  <2>1. ASSUME NEW s \in S PROVE 0 .. s \in FiniteSubsetsOf(Nat)
    <3>1. IsFiniteSet(0 .. s)
      BY FS_Interval
    <3>2. 0 .. s \in SUBSET Nat
      OBVIOUS
    <3> QED
      BY <3>1, <3>2 DEF FiniteSubsetsOf
  <2> QED
    BY <2>1
<1>3. \E m \in Below : \A n \in Below : ~(<<n, m>> \in Order)
  <2> HIDE DEF Order, Below
  <2> QED
    BY <1>1, <1>2, WFMin
<1>4. PICK x \in S : \A y \in S : ~(<<0 .. y, 0 .. x>> \in Order)
  BY <1>3
<1>5. ASSUME NEW y \in S, y < x PROVE FALSE
  <2>1. x \in 0 .. x /\ x \notin 0 .. y /\ 0 .. y \subseteq 0 .. x
    BY <1>5
  <2>2. 0 .. y \in SUBSET Nat /\ 0 .. x \in SUBSET Nat
    OBVIOUS
  <2>3. <<0 .. y, 0 .. x>> \in Order
    BY <2>1, <2>2 DEF StrictSubsetOrdering
  <2> QED
    BY <1>4, <2>3
<1>6. \A y \in S : x =< y
  BY <1>5
<1> QED
  BY <1>6 DEF Min

-----------------------------------------------------------------------------
(* The types that the records have, field by field.                        *)
Names      == {"admins", "docs"}
AccountRow == Users \X Accounts
JobTypes   == [pc : Steps, status : Statuses, source : Servers \cup {None},
               target : Targets \cup {None}, rest : Seq(Names), empty : SUBSET Names,
               rows : SUBSET (Docs \cup AccountRow), offset : Nat, srcCount : Nat,
               cancel : BOOLEAN, match : BOOLEAN, report : {"none", "match", "mismatch"}]
KeptTypes  == [docs : SUBSET Docs, points : SUBSET Docs, admins : SUBSET Users]
Stores     == Servers \cup {"local", "closed"}
BoundTypes == [env : Servers, rollback : Servers \cup {None}, settings : [Parts -> Servers],
               qdrant : Stores, index : Servers, redis : Servers \cup {None},
               tried : BOOLEAN, dialing : SUBSET Servers]
SwitchTypes == [pc : {"idle", "dispose", "redis"}, to : Servers \cup {None}]

CorpusTyped == docs \in [Servers -> SUBSET Docs] /\ points \in [Servers -> SUBSET Docs]
OtherTyped  == /\ kept \in KeptTypes /\ clean \in BOOLEAN /\ worker \in Servers
JobTyped    == /\ job \in JobTypes
               /\ (job.pc = "idle") <=> (job.status # "running")
               /\ job.pc # "idle" => job.target \in Targets
               /\ job.pc = "fill" => /\ job.rest # <<>>
                                     /\ Head(job.rest) = "docs" => job.rows \subseteq Docs
                                     /\ Head(job.rest) = "admins" => job.rows \subseteq AccountRow
BindTyped   == /\ bound \in BoundTypes /\ switch \in [Switchers -> SwitchTypes]
               /\ \A k \in Switchers : switch[k].pc = "dispose" => switch[k].to \in Servers
               /\ broken \in BOOLEAN
MigrationInv == /\ AccountInv /\ (guarded => Sqlite)
                /\ CorpusTyped /\ OtherTyped /\ JobTyped /\ BindTyped

LEMMA JobRecords ==
  ASSUME NEW j \in JobTypes, NEW pc \in Steps, NEW status \in Statuses, NEW rest \in Seq(Names),
         NEW rows \in SUBSET (Docs \cup AccountRow), NEW empty \in SUBSET Names,
         NEW n \in Nat, NEW b \in BOOLEAN, NEW report \in {"none", "match", "mismatch"},
         NEW v \in Servers, NEW t \in Targets
  PROVE  /\ NoJob \in JobTypes
         /\ [NoJob EXCEPT !.pc = pc, !.status = status, !.source = v, !.target = t] \in JobTypes
         /\ [j EXCEPT !.cancel = TRUE] \in JobTypes
         /\ [j EXCEPT !.pc = pc] \in JobTypes
         /\ [j EXCEPT !.pc = pc, !.status = status] \in JobTypes
         /\ [j EXCEPT !.pc = pc, !.rest = rest, !.empty = empty] \in JobTypes
         /\ [j EXCEPT !.rest = rest] \in JobTypes
         /\ [j EXCEPT !.pc = pc, !.rows = rows] \in JobTypes
         /\ [j EXCEPT !.pc = pc, !.rest = rest, !.rows = rows] \in JobTypes
         /\ [j EXCEPT !.pc = pc, !.srcCount = n] \in JobTypes
         /\ [j EXCEPT !.pc = pc, !.rest = rest] \in JobTypes
         /\ [j EXCEPT !.offset = n] \in JobTypes
         /\ [j EXCEPT !.rest = rest, !.match = b] \in JobTypes
         /\ [j EXCEPT !.pc = pc, !.status = status, !.report = report] \in JobTypes
<1>1. "idle" \in Steps /\ "idle" \in Statuses /\ <<>> \in Seq(Names) /\ 0 \in Nat
  BY DEF Steps, Statuses
<1>2. NoJob \in JobTypes
  BY <1>1, Zenon DEF NoJob, JobTypes
<1>3. [NoJob EXCEPT !.pc = pc, !.status = status, !.source = v, !.target = t] \in JobTypes
  BY <1>2, Zenon DEF JobTypes
<1>4. [j EXCEPT !.cancel = TRUE] \in JobTypes
  BY Zenon DEF JobTypes
<1>5. [j EXCEPT !.pc = pc] \in JobTypes /\ [j EXCEPT !.pc = pc, !.status = status] \in JobTypes
  BY Zenon DEF JobTypes
<1>6. [j EXCEPT !.pc = pc, !.rest = rest, !.empty = empty] \in JobTypes
  BY Zenon DEF JobTypes
<1>7. [j EXCEPT !.rest = rest] \in JobTypes /\ [j EXCEPT !.pc = pc, !.rows = rows] \in JobTypes
  BY Zenon DEF JobTypes
<1>8. [j EXCEPT !.pc = pc, !.rest = rest, !.rows = rows] \in JobTypes
  BY Zenon DEF JobTypes
<1>9. [j EXCEPT !.pc = pc, !.srcCount = n] \in JobTypes /\ [j EXCEPT !.pc = pc, !.rest = rest] \in JobTypes
  BY Zenon DEF JobTypes
<1>10. [j EXCEPT !.offset = n] \in JobTypes /\ [j EXCEPT !.rest = rest, !.match = b] \in JobTypes
  BY Zenon DEF JobTypes
<1>11. [j EXCEPT !.pc = pc, !.status = status, !.report = report] \in JobTypes
  BY Zenon DEF JobTypes
<1> QED
  BY <1>2, <1>3, <1>4, <1>5, <1>6, <1>7, <1>8, <1>9, <1>10, <1>11

(* The rows that are read from a table, and those that are put into one.   *)
LEMMA RowsTyped ==
  ASSUME AccountTypeOK, CorpusTyped, NEW v \in Servers
  PROVE  Rows("docs", v) \subseteq Docs /\ Rows("admins", v) \subseteq AccountRow
<1>1. admins \in [Servers -> [Users -> Accounts]]
  BY DEF AccountTypeOK
<1> QED
  BY <1>1 DEF Rows, CorpusTyped, AccountRow

LEMMA AccountsTypedOf ==
  ASSUME NEW rows \in SUBSET AccountRow PROVE AccountsOf(rows) \in [Users -> Accounts]
<1>1. ASSUME NEW u \in Users, \E r \in rows : r[1] = u
      PROVE  (CHOOSE r \in rows : r[1] = u)[2] \in Accounts
  BY <1>1 DEF AccountRow
<1> QED
  BY <1>1, RowTypes DEF AccountsOf

(* Counting is done with numbers.                                          *)
LEMMA CountsAreNumbers ==
  ASSUME CorpusTyped, NEW v \in Servers
  PROVE  Cardinality(points[v]) \in Nat
<1>1. points[v] \in SUBSET Docs /\ IsFiniteSet(Docs)
  BY MigrationConstants DEF CorpusTyped
<1> QED
  BY <1>1, FS_Subset, FS_CardinalityType

(* Only its own fields tell whether a job is typed.                        *)
LEMMA JobKept ==
  ASSUME JobTyped, UNCHANGED job PROVE JobTyped'
BY DEF JobTyped

LEMMA BindKept ==
  ASSUME BindTyped, UNCHANGED <<bound, switch, broken>> PROVE BindTyped'
BY DEF BindTyped

LEMMA OtherKept ==
  ASSUME OtherTyped, UNCHANGED <<kept, clean, worker>> PROVE OtherTyped'
BY DEF OtherTyped

LEMMA CorpusKept ==
  ASSUME CorpusTyped, UNCHANGED <<docs, points>> PROVE CorpusTyped'
BY DEF CorpusTyped

LEMMA AccountsKept ==
  ASSUME MigrationInv, UNCHANGED accountVars PROVE AccountInv' /\ (guarded' => Sqlite)
BY InvNext DEF MigrationInv, accountVars

LEMMA MigrationStart == Init => MigrationInv
<1> SUFFICES ASSUME Init PROVE MigrationInv
  OBVIOUS
<1>1. PICK rows \in [Users -> Accounts] : Ready(rows) /\ Started(rows)
  BY DEF Init
<1>2. AccountInit(rows) /\ calls = 0 /\ (guarded => Sqlite)
  BY <1>1 DEF Init, Started, AccountInit
<1>3. AccountInv
  BY <1>1, <1>2, InvInit
<1>4. CorpusTyped
  BY DEF Init, CorpusTyped
<1>5. OtherTyped
  BY <1>1, AccountConstants DEF Started, OtherTyped, KeptTypes
<1>6. JobTyped
  <2>1. "idle" \in Steps /\ "idle" \in Statuses /\ <<>> \in Seq(Names) /\ 0 \in Nat
    BY DEF Steps, Statuses
  <2>2. NoJob \in JobTypes
    BY <2>1, Zenon DEF NoJob, JobTypes
  <2>3. job = NoJob /\ NoJob.pc = "idle" /\ NoJob.status = "idle"
    BY <1>1, Zenon DEF Started, NoJob
  <2> QED
    BY <2>2, <2>3 DEF JobTyped
<1>7. BindTyped
  <2>1. bound \in BoundTypes
    <3>1. AllOf(Source) \in [Parts -> Servers]
      BY AccountConstants DEF AllOf
    <3> QED
      BY <1>1, <3>1, AccountConstants, Zenon DEF Started, BoundTypes, Stores
  <2>2. switch = [k \in Switchers |-> Idle] /\ broken = FALSE
    BY <1>1 DEF Started
  <2> QED
    BY <2>1, <2>2 DEF BindTyped, SwitchTypes, Idle
<1> QED
  BY <1>2, <1>3, <1>4, <1>5, <1>6, <1>7 DEF MigrationInv

-----------------------------------------------------------------------------
(* The job writes to its target, which is never the server that the        *)
(* process started with, and takes SQLite's lock when nobody has it.       *)
LEMMA TargetRows ==
  ASSUME MigrationInv, job.target \in Targets, NEW t \in Names, NEW rows,
         t = "docs" => rows \subseteq Docs, t = "admins" => rows \subseteq AccountRow,
         PutRows(t, rows), UNCHANGED points
  PROVE  /\ CorpusTyped' /\ admins' \in [Servers -> [Users -> Accounts]]
         /\ admins'[Source] = admins[Source]
<1>1. /\ job.target \in Servers /\ job.target # Source /\ Source \in Servers
      /\ admins \in [Servers -> [Users -> Accounts]] /\ CorpusTyped
  BY MigrationConstants, AccountConstants DEF MigrationInv, AccountInv, AccountTypeOK
<1>2. CASE t = "docs"
  BY <1>1, <1>2 DEF PutRows, CorpusTyped
<1>3. CASE t = "admins"
  <2>1. AccountsOf(rows) \in [Users -> Accounts]
    BY <1>3, AccountsTypedOf
  <2> QED
    BY <1>1, <1>3, <2>1 DEF PutRows, CorpusTyped
<1> QED
  BY <1>2, <1>3 DEF Names

LEMMA JobKeepsAccounts ==
  ASSUME MigrationInv, UNCHANGED <<live, immediate, guarded, tokens, request, calls>>,
         admins' \in [Servers -> [Users -> Accounts]], admins'[Source] = admins[Source],
         lock' \in Sessions \cup {None, Copier},
         \A s \in Sessions : lock = s => lock' = s
  PROVE  AccountInv' /\ (guarded' => Sqlite)
<1>1. AccountTypeOK'
  BY DEF MigrationInv, AccountInv, AccountTypeOK
<1>2. WishFits' /\ Bound' /\ Locks'
  BY DEF MigrationInv, AccountInv, WishFits, Bound, Locks
<1>3. Holds' /\ SeenIsRow' /\ SuperadminRemains'
  BY DEF MigrationInv, AccountInv, Holds, Late, SeenIsRow, SuperadminRemains
<1>4. Counted'
  BY DEF MigrationInv, AccountInv, Counted, Late
<1> QED
  BY <1>1, <1>2, <1>3, <1>4 DEF MigrationInv, AccountInv

(* Its locks: taken when free, given back by Copier only.                  *)
LEMMA CopierLock ==
  ASSUME MigrationInv,
         \/ UNCHANGED lock
         \/ Free /\ lock' = IF immediate THEN Copier ELSE lock
         \/ (immediate => lock \in {None, Copier}) /\ lock' = IF immediate THEN Copier ELSE lock
         \/ Release(Copier)
  PROVE  /\ lock' \in Sessions \cup {None, Copier}
         /\ \A s \in Sessions : lock = s => lock' = s
<1>1. None \notin Sessions /\ Copier \notin Sessions
  BY AccountConstants
<1>2. lock \in Sessions \cup {None, Copier}
  BY DEF MigrationInv, AccountInv, AccountTypeOK
<1> QED
  BY <1>1, <1>2 DEF Free, Release

(* What every step of the job leaves as it is.                             *)
LEMMA JobStepKeeps ==
  ASSUME MigrationInv, NEW pc, JobStep(pc), CorpusTyped', JobTyped',
         admins' \in [Servers -> [Users -> Accounts]], admins'[Source] = admins[Source],
         \/ UNCHANGED lock
         \/ Free /\ lock' = IF immediate THEN Copier ELSE lock
         \/ (immediate => lock \in {None, Copier}) /\ lock' = IF immediate THEN Copier ELSE lock
         \/ Release(Copier)
  PROVE  MigrationInv'
<1>1. OtherTyped' /\ BindTyped'
  BY OtherKept, BindKept DEF JobStep, JobUnchanged, bindVars, MigrationInv
<1>2. AccountInv' /\ (guarded' => Sqlite)
  BY CopierLock, JobKeepsAccounts DEF JobStep
<1> QED
  BY <1>1, <1>2 DEF MigrationInv

LEMMA SameAdmins ==
  ASSUME MigrationInv, UNCHANGED admins
  PROVE  admins' \in [Servers -> [Users -> Accounts]] /\ admins'[Source] = admins[Source]
BY DEF MigrationInv, AccountInv, AccountTypeOK

(* A step of the job that writes nothing: only the job itself changes.     *)
LEMMA QuietStep ==
  ASSUME MigrationInv, NEW pc, JobStep(pc), UNCHANGED <<admins, docs, points>>, JobTyped',
         \/ UNCHANGED lock
         \/ Free /\ lock' = IF immediate THEN Copier ELSE lock
         \/ (immediate => lock \in {None, Copier}) /\ lock' = IF immediate THEN Copier ELSE lock
         \/ Release(Copier)
  PROVE  MigrationInv'
BY SameAdmins, CorpusKept, JobStepKeeps DEF MigrationInv

LEMMA EarlySteps ==
  ASSUME MigrationInv, Bootstrap \/ CountRows \/ CancelTables PROVE MigrationInv'
<1>0. job \in JobTypes /\ (job.pc # "idle" => job.target \in Targets)
  BY DEF MigrationInv, JobTyped
<1>1. CASE Bootstrap
  <2>1. PICK pc \in {"idle", "count"}, status \in {"running", "cancelled"} :
          /\ job' = [job EXCEPT !.pc = pc, !.status = status]
          /\ (pc = "idle") <=> (status # "running")
    <3>1. CASE job.cancel
      BY <1>1, <3>1 DEF Bootstrap, Stop
    <3>2. CASE ~job.cancel
      <4>1. job.status = "running" /\ job' = [job EXCEPT !.pc = "count"]
        BY <1>1, <3>2 DEF Bootstrap, To, JobStep, MigrationInv, JobTyped
      <4>2. job' = [job EXCEPT !.pc = "count", !.status = "running"]
        BY <1>0, <4>1 DEF JobTypes
      <4> QED
        BY <4>2
    <3> QED
      BY <3>1, <3>2
  <2>2. pc \in Steps /\ status \in Statuses
    BY DEF Steps, Statuses
  <2>3. job' \in JobTypes
    BY <1>0, <2>1, <2>2, Zenon DEF JobTypes
  <2>4. job'.pc = pc /\ job'.status = status /\ job'.target = job.target
    BY <1>0, <2>1 DEF JobTypes
  <2>5. JobTyped'
    BY <1>0, <1>1, <2>1, <2>3, <2>4 DEF JobTyped, Bootstrap, JobStep
  <2> QED
    BY <1>1, <2>5, QuietStep DEF Bootstrap
<1>2. CASE CountRows
  <2> DEFINE empty == {t \in Names : Rows(t, live) = {}}
             new == [job EXCEPT !.pc = "tables", !.rest = Tables, !.empty = empty]
  <2>1. "tables" \in Steps /\ Tables \in Seq(Names) /\ empty \in SUBSET Names
    BY DEF Steps, Tables, Names
  <2>2. job' = new
    BY <1>2 DEF CountRows, Names
  <2>3. new \in JobTypes
    <3> HIDE DEF empty
    <3> QED
      BY <1>0, <2>1, Zenon DEF JobTypes
  <2>4. new.pc = "tables" /\ new.status = job.status /\ new.target = job.target
    BY <1>0 DEF JobTypes
  <2> HIDE DEF new
  <2>5. JobTyped'
    BY <1>0, <1>2, <2>2, <2>3, <2>4 DEF JobTyped, CountRows, JobStep, MigrationInv
  <2> QED
    BY <1>2, <2>5, QuietStep DEF CountRows
<1>3. CASE CancelTables
  <2> DEFINE new == [job EXCEPT !.pc = "idle", !.status = "cancelled"]
  <2>1. "idle" \in Steps /\ "cancelled" \in Statuses
    BY DEF Steps, Statuses
  <2>2. new \in JobTypes
    BY <1>0, <2>1, Zenon DEF JobTypes
  <2>3. job' = new /\ new.pc = "idle" /\ new.status = "cancelled"
    BY <1>0, <1>3 DEF CancelTables, Stop, JobTypes
  <2> HIDE DEF new
  <2>4. JobTyped'
    BY <2>2, <2>3 DEF JobTyped
  <2> QED
    BY <1>3, <2>4, QuietStep DEF CancelTables
<1> QED
  BY <1>1, <1>2, <1>3

LEMMA TableSteps ==
  ASSUME MigrationInv, BeginTable \/ \E rows \in SUBSET job.rows : FillTable(rows)
  PROVE  MigrationInv'
<1>0. /\ job \in JobTypes /\ job.pc # "idle" /\ job.target \in Targets /\ job.status = "running"
      /\ live \in Servers /\ AccountTypeOK /\ CorpusTyped
  BY DEF MigrationInv, AccountInv, AccountTypeOK, JobTyped, BeginTable, FillTable, JobStep
<1>1. ASSUME job.rest # <<>>
      PROVE  Head(job.rest) \in Names /\ Tail(job.rest) \in Seq(Names)
  BY <1>0, <1>1 DEF JobTypes
<1>2. CASE BeginTable
  <2>1. CASE Head(job.rest) \in job.empty
    <3> DEFINE new == [job EXCEPT !.rest = Tail(job.rest)]
    <3>1. job.rest # <<>> /\ job.pc = "tables"
      BY <1>2 DEF BeginTable, JobStep
    <3>2. job' = new
      BY <1>2, <2>1 DEF BeginTable
    <3>3. new \in JobTypes
      BY <1>0, <1>1, <3>1, Zenon DEF JobTypes
    <3>4. new.pc = "tables" /\ new.status = "running" /\ new.target = job.target
      BY <1>0, <3>1 DEF JobTypes
    <3> HIDE DEF new
    <3>5. JobTyped'
      BY <1>0, <3>2, <3>3, <3>4 DEF JobTyped
    <3> QED
      BY <1>2, <2>1, <3>5, QuietStep DEF BeginTable
  <2>2. CASE Head(job.rest) \notin job.empty
    <3> DEFINE t == Head(job.rest)
               rows == IF live = job.target THEN {} ELSE Rows(t, live)
               new == [job EXCEPT !.pc = "fill", !.rows = rows]
    <3>1. job.rest # <<>> /\ t \in Names
      BY <1>1, <1>2 DEF BeginTable
    <3>2. job' = new /\ PutRows(t, {}) /\ UNCHANGED points /\ JobStep("tables")
      BY <1>2, <2>2 DEF BeginTable
    <3>3. t = "docs" => rows \subseteq Docs
      BY <1>0, RowsTyped
    <3>4. t = "admins" => rows \subseteq AccountRow
      BY <1>0, RowsTyped
    <3>5. rows \in SUBSET (Docs \cup AccountRow) /\ "fill" \in Steps
      BY <3>1, <3>3, <3>4 DEF Names, Steps
    <3> HIDE DEF rows
    <3>6. new \in JobTypes
      BY <1>0, <3>5, Zenon DEF JobTypes
    <3>7. /\ new.pc = "fill" /\ new.status = "running" /\ new.target = job.target
          /\ new.rest = job.rest /\ new.rows = rows
      BY <1>0 DEF JobTypes
    <3> HIDE DEF new
    <3>8. JobTyped'
      BY <1>0, <3>1, <3>2, <3>3, <3>4, <3>6, <3>7 DEF JobTyped
    <3>9. /\ CorpusTyped' /\ admins' \in [Servers -> [Users -> Accounts]]
          /\ admins'[Source] = admins[Source]
      BY <1>0, <3>1, <3>2, TargetRows
    <3>10. Free /\ lock' = IF immediate THEN Copier ELSE lock
      BY <1>2, <2>2 DEF BeginTable
    <3> QED
      BY <3>2, <3>8, <3>9, <3>10, JobStepKeeps
  <2> QED
    BY <2>1, <2>2
<1>3. ASSUME NEW rows \in SUBSET job.rows, FillTable(rows) PROVE MigrationInv'
  <2> DEFINE new == [job EXCEPT !.pc = "tables", !.rest = Tail(job.rest), !.rows = {}]
  <2>1. /\ job.rest # <<>>
        /\ Head(job.rest) = "docs" => rows \subseteq Docs
        /\ Head(job.rest) = "admins" => rows \subseteq AccountRow
    BY <1>3 DEF FillTable, JobStep, MigrationInv, JobTyped
  <2>2. /\ job' = new /\ PutRows(Head(job.rest), rows) /\ UNCHANGED points /\ JobStep("fill")
        /\ Release(Copier)
    BY <1>3 DEF FillTable
  <2>3. "tables" \in Steps /\ {} \in SUBSET (Docs \cup AccountRow)
    BY DEF Steps
  <2>4. new \in JobTypes
    BY <1>0, <1>1, <2>1, <2>3, Zenon DEF JobTypes
  <2>5. new.pc = "tables" /\ new.status = "running" /\ new.target = job.target
    BY <1>0 DEF JobTypes
  <2> HIDE DEF new
  <2>6. JobTyped'
    BY <1>0, <2>2, <2>4, <2>5 DEF JobTyped
  <2>7. /\ CorpusTyped' /\ admins' \in [Servers -> [Users -> Accounts]]
        /\ admins'[Source] = admins[Source]
    BY <1>0, <1>1, <2>1, <2>2, TargetRows
  <2> QED
    BY <2>2, <2>6, <2>7, JobStepKeeps
<1> QED
  BY <1>2, <1>3

LEMMA PointSteps ==
  ASSUME MigrationInv, (\E fails \in BOOLEAN : CountPoints(fails)) \/ Scroll \/ ScrollClosed
  PROVE  MigrationInv'
<1>0. /\ job \in JobTypes /\ job.pc # "idle" /\ job.target \in Targets /\ job.status = "running"
      /\ CorpusTyped /\ bound \in BoundTypes
  BY DEF MigrationInv, JobTyped, BindTyped, CountPoints, Scroll, ScrollClosed, JobStep
<1>1. ASSUME NEW fails \in BOOLEAN, CountPoints(fails) PROVE MigrationInv'
  <2> DEFINE n == IF fails THEN 0 ELSE Cardinality(points[bound.qdrant])
             new == [job EXCEPT !.pc = "scroll", !.srcCount = n]
  <2>1. ~fails => bound.qdrant \in Servers
    BY <1>1 DEF CountPoints
  <2>2. n \in Nat /\ "scroll" \in Steps
    BY <1>0, <2>1, CountsAreNumbers DEF Steps
  <2>3. job' = new
    BY <1>1 DEF CountPoints
  <2> HIDE DEF n
  <2>4. new \in JobTypes
    BY <1>0, <2>2, Zenon DEF JobTypes
  <2>5. new.pc = "scroll" /\ new.status = "running" /\ new.target = job.target
    BY <1>0 DEF JobTypes
  <2> HIDE DEF new
  <2>6. JobTyped'
    BY <1>0, <2>3, <2>4, <2>5 DEF JobTyped
  <2> QED
    BY <1>1, <2>6, QuietStep DEF CountPoints
<1>2. CASE Scroll
  <2> DEFINE ahead == IF bound.qdrant \in Servers
                      THEN {p \in points[bound.qdrant] : p >= job.offset} ELSE {}
             first == Min(ahead)
             finished == [job EXCEPT !.pc = "audit", !.rest = Tables]
  <2>1. ahead \in SUBSET Docs
    BY <1>0 DEF CorpusTyped
  <2>2. ahead \in SUBSET Nat
    BY <2>1, MigrationConstants
  <2>3. "audit" \in Steps /\ Tables \in Seq(Names)
    BY DEF Steps, Tables, Names
  <2>4. finished \in JobTypes
    BY <1>0, <2>3, Zenon DEF JobTypes
  <2>5. finished.pc = "audit" /\ finished.status = "running" /\ finished.target = job.target
    BY <1>0 DEF JobTypes
  <2>6. job' = finished => JobTyped'
    <3> HIDE DEF finished
    <3> QED
      BY <1>0, <2>4, <2>5 DEF JobTyped
  <2>7. CASE ahead = {}
    <3>1. job' = finished /\ UNCHANGED points
      BY <1>2, <2>7 DEF Scroll
    <3> QED
      BY <1>2, <2>6, <3>1, QuietStep DEF Scroll
  <2>8. CASE ahead # {}
    <3>1. first \in Docs
      <4> HIDE DEF ahead
      <4> QED
        BY <2>1, <2>2, <2>8, LeastIsThere
    <3>2. points' = [points EXCEPT ![job.target] = @ \cup {first}] /\ UNCHANGED docs
      BY <1>2, <2>8 DEF Scroll
    <3>3. CorpusTyped'
      <4> HIDE DEF first
      <4> QED
        BY <1>0, <3>1, <3>2 DEF CorpusTyped
    <3>4. JobTyped'
      <4>1. CASE ahead = {first}
        BY <1>2, <2>6, <2>8, <4>1 DEF Scroll
      <4>2. CASE ahead # {first}
        <5> DEFINE n == Min(ahead \ {first})
                   new == [job EXCEPT !.offset = n]
        <5>1. n \in Nat
          <6>1. ahead \ {first} # {} /\ ahead \ {first} \in SUBSET Nat
            <7> HIDE DEF ahead, first
            <7> QED
              BY <2>2, <2>8, <4>2
          <6>2. n \in ahead \ {first}
            <7> HIDE DEF ahead, first
            <7> QED
              BY <6>1, LeastIsThere
          <6> QED
            BY <6>1, <6>2
        <5>2. job' = new
          BY <1>2, <2>8, <4>2 DEF Scroll
        <5> HIDE DEF n
        <5>3. new \in JobTypes
          BY <1>0, <5>1, Zenon DEF JobTypes
        <5>4. new.pc = job.pc /\ new.status = "running" /\ new.target = job.target
          BY <1>0 DEF JobTypes
        <5> HIDE DEF new
        <5> QED
          BY <1>0, <1>2, <5>2, <5>3, <5>4 DEF JobTyped, Scroll, JobStep
      <4> QED
        BY <4>1, <4>2
    <3> QED
      BY <1>2, <3>3, <3>4, SameAdmins, JobStepKeeps DEF Scroll
  <2> QED
    BY <2>7, <2>8
<1>3. CASE ScrollClosed
  <2> DEFINE new == [job EXCEPT !.pc = "idle", !.status = "failed"]
  <2>1. "idle" \in Steps /\ "failed" \in Statuses
    BY DEF Steps, Statuses
  <2>2. new \in JobTypes
    BY <1>0, <2>1, Zenon DEF JobTypes
  <2>3. new.pc = "idle" /\ new.status = "failed"
    BY <1>0 DEF JobTypes
  <2>4. job' = new
    BY <1>3 DEF ScrollClosed, Stop
  <2> HIDE DEF new
  <2>5. JobTyped'
    BY <2>2, <2>3, <2>4 DEF JobTyped
  <2> QED
    BY <1>3, <2>5, QuietStep DEF ScrollClosed
<1> QED
  BY <1>1, <1>2, <1>3

LEMMA AuditSteps ==
  ASSUME MigrationInv, Audit \/ Finish PROVE MigrationInv'
<1>0. /\ job \in JobTypes /\ job.pc # "idle" /\ job.target \in Targets /\ job.status = "running"
  BY DEF MigrationInv, JobTyped, Audit, Finish, JobStep
<1>1. CASE Audit
  <2> DEFINE same == Cardinality(Rows(Head(job.rest), live))
                       = Cardinality(Rows(Head(job.rest), job.target))
             new == [job EXCEPT !.rest = Tail(job.rest), !.match = job.match /\ same]
  <2>1. job.rest # <<>> /\ job.pc = "audit"
    BY <1>1 DEF Audit, JobStep
  <2>2. job' = new
    BY <1>1 DEF Audit
  <2>3. (job.match /\ same) \in BOOLEAN
    BY Zenon
  <2> HIDE DEF same
  <2>4. Tail(job.rest) \in Seq(Names)
    BY <1>0, <2>1 DEF JobTypes
  <2>5. new \in JobTypes
    BY <1>0, <2>3, <2>4, Zenon DEF JobTypes
  <2>6. new.pc = "audit" /\ new.status = "running" /\ new.target = job.target
    BY <1>0, <2>1 DEF JobTypes
  <2> HIDE DEF new
  <2>7. JobTyped'
    BY <1>0, <2>2, <2>5, <2>6 DEF JobTyped
  <2> QED
    BY <1>1, <2>7, QuietStep DEF Audit
<1>2. CASE Finish
  <2>1. PICK report \in {"match", "mismatch"} :
          job' = [job EXCEPT !.pc = "idle", !.status = "completed", !.report = report]
    BY <1>2 DEF Finish
  <2>2. "idle" \in Steps /\ "completed" \in Statuses /\ report \in {"none", "match", "mismatch"}
    BY DEF Steps, Statuses
  <2>3. job' \in JobTypes
    BY <1>0, <2>1, <2>2, Zenon DEF JobTypes
  <2>4. job'.pc = "idle" /\ job'.status = "completed"
    BY <1>0, <2>1 DEF JobTypes
  <2>5. JobTyped'
    BY <2>3, <2>4 DEF JobTyped
  <2> QED
    BY <1>2, <2>5, QuietStep DEF Finish
<1> QED
  BY <1>1, <1>2

LEMMA FailKeeps ==
  ASSUME MigrationInv, NEW rows \in SUBSET job.rows, Fail(rows) PROVE MigrationInv'
<1>0. /\ job \in JobTypes /\ job.pc # "idle" /\ job.target \in Targets /\ CorpusTyped
  BY DEF MigrationInv, JobTyped, Fail
<1> DEFINE new == [job EXCEPT !.pc = "idle", !.status = "failed"]
<1>1. new \in JobTypes
  <2>1. "idle" \in Steps /\ "failed" \in Statuses
    BY DEF Steps, Statuses
  <2> QED
    BY <1>0, <2>1, Zenon DEF JobTypes
<1>2. job' = new /\ new.pc = "idle" /\ new.status = "failed"
  BY <1>0 DEF Fail, Stop, JobTypes
<1> HIDE DEF new
<1>3. JobTyped'
  BY <1>1, <1>2 DEF JobTyped
<1>4. /\ CorpusTyped' /\ admins' \in [Servers -> [Users -> Accounts]]
      /\ admins'[Source] = admins[Source]
  <2>1. CASE job.pc = "fill"
    <3>1. /\ Head(job.rest) \in Names
          /\ Head(job.rest) = "docs" => rows \subseteq Docs
          /\ Head(job.rest) = "admins" => rows \subseteq AccountRow
      BY <1>0, <2>1 DEF MigrationInv, JobTyped, JobTypes
    <3> QED
      BY <1>0, <2>1, <3>1, TargetRows DEF Fail
  <2>2. CASE job.pc # "fill"
    BY <1>0, <2>2, SameAdmins, CorpusKept DEF Fail
  <2> QED
    BY <2>1, <2>2
<1>5. AccountInv' /\ (guarded' => Sqlite)
  BY <1>4, CopierLock, JobKeepsAccounts DEF Fail
<1>6. OtherTyped' /\ BindTyped'
  BY OtherKept, BindKept DEF Fail, bindVars, MigrationInv
<1> QED
  BY <1>3, <1>4, <1>5, <1>6 DEF MigrationInv

LEMMA CopyKeeps ==
  ASSUME MigrationInv, Copy PROVE MigrationInv'
BY EarlySteps, TableSteps, PointSteps, AuditSteps DEF Copy

-----------------------------------------------------------------------------
(* Requests, writes to the corpus, and the start of a job.                 *)
LEMMA ServingKeeps ==
  ASSUME MigrationInv, Account \/ Write PROVE MigrationInv'
<1>0. MigrationInv /\ kept \in KeptTypes /\ CorpusTyped
  BY DEF MigrationInv, OtherTyped
<1>1. CASE Account
  <2>1. AccountInv'
    BY <1>1, InvNext DEF Account, MigrationInv
  <2>2. guarded' = guarded
    BY <1>1 DEF Account, AccountNext, LoginRequest, Authenticate, Request, Lookup, Count,
                Save, Delete, Create, Reject, Login
  <2>3. CorpusTyped' /\ JobTyped' /\ BindTyped'
    BY <1>1, CorpusKept, JobKept, BindKept DEF Account, Watch, bindVars, MigrationInv
  <2>4. OtherTyped'
    <3> DEFINE left == {u \in kept.admins : \A v \in Servers : admins'[v][u] = admins[v][u]}
    <3>1. kept' = [kept EXCEPT !.admins = left] /\ worker' = worker
      BY <1>1 DEF Account, Watch
    <3>2. left \in SUBSET Users
      BY <1>0 DEF KeptTypes
    <3> HIDE DEF left
    <3>3. kept' \in KeptTypes
      BY <1>0, <3>1, <3>2 DEF KeptTypes
    <3>4. clean' \in BOOLEAN
      BY <1>1, Zenon DEF Account, Watch
    <3> QED
      BY <3>1, <3>3, <3>4 DEF OtherTyped, MigrationInv
  <2> QED
    BY <2>1, <2>2, <2>3, <2>4 DEF MigrationInv
<1>2. CASE Write
  <2>1. PICK w \in Writers, d \in Docs : AddRow(w, d) \/ AddPoint(w, d) \/ RemovePoint(w, d) \/ RemoveRow(w, d)
    BY <1>2 DEF Write
  <2>2. Corpus
    BY <2>1 DEF AddRow, AddPoint, RemovePoint, RemoveRow
  <2>3. AccountInv' /\ (guarded' => Sqlite)
    BY <2>2, AccountsKept DEF Corpus
  <2>4. JobTyped' /\ BindTyped'
    BY <2>2, JobKept, BindKept DEF Corpus, bindVars, MigrationInv
  <2>5. CorpusTyped'
    BY <1>0, <2>1 DEF CorpusTyped, AddRow, AddPoint, RemovePoint, RemoveRow
  <2>6. kept' \in KeptTypes
    BY <1>0, <2>1 DEF KeptTypes, AddRow, AddPoint, RemovePoint, RemoveRow
  <2>7. OtherTyped'
    BY <2>2, <2>6 DEF Corpus, OtherTyped, MigrationInv
  <2> QED
    BY <2>3, <2>4, <2>5, <2>7 DEF MigrationInv
<1> QED
  BY <1>1, <1>2

LEMMA StartKeeps ==
  ASSUME MigrationInv, Cancel \/ \E t \in Targets : Start(t) PROVE MigrationInv'
<1>0. job \in JobTypes /\ CorpusTyped /\ live \in Servers
  BY DEF MigrationInv, JobTyped, AccountInv, AccountTypeOK
<1>1. UNCHANGED accountVars /\ UNCHANGED <<docs, points>> /\ JobUnchanged
  BY DEF Cancel, Start
<1>2. AccountInv' /\ (guarded' => Sqlite) /\ CorpusTyped' /\ BindTyped'
  BY <1>1, AccountsKept, CorpusKept, BindKept DEF JobUnchanged, bindVars, MigrationInv
<1>3. CASE Cancel
  <2> DEFINE new == [job EXCEPT !.cancel = TRUE]
  <2>1. job' = new /\ new \in JobTypes
    BY <1>0, <1>3, Zenon DEF Cancel, JobTypes
  <2>2. /\ new.pc = job.pc /\ new.status = job.status /\ new.target = job.target
        /\ new.rest = job.rest /\ new.rows = job.rows
    BY <1>0 DEF JobTypes
  <2> HIDE DEF new
  <2>3. JobTyped'
    BY <2>1, <2>2 DEF JobTyped, MigrationInv
  <2>4. OtherTyped'
    BY <1>3, OtherKept DEF Cancel, JobUnchanged, MigrationInv
  <2> QED
    BY <1>2, <2>3, <2>4 DEF MigrationInv
<1>4. ASSUME NEW t \in Targets, Start(t) PROVE MigrationInv'
  <2> DEFINE new == [NoJob EXCEPT !.pc = "bootstrap", !.status = "running",
                                  !.source = live, !.target = t]
  <2>1. /\ "bootstrap" \in Steps /\ "idle" \in Steps /\ "running" \in Statuses
        /\ "idle" \in Statuses /\ <<>> \in Seq(Names) /\ 0 \in Nat
    BY DEF Steps, Statuses
  <2>2. NoJob \in JobTypes
    BY <2>1, Zenon DEF NoJob, JobTypes
  <2>3. new \in JobTypes
    BY <1>0, <2>1, <2>2, Zenon DEF JobTypes
  <2>4. job' = new
    BY <1>4 DEF Start
  <2>5. new.pc = "bootstrap" /\ new.status = "running" /\ new.target = t
    BY DEF NoJob
  <2> HIDE DEF new
  <2>6. JobTyped'
    BY <2>3, <2>4, <2>5 DEF JobTyped
  <2> DEFINE there == IF bound.qdrant \in Servers THEN points[bound.qdrant] ELSE {}
             accounts == {u \in Users : Exists(admins[live], u)}
  <2>7. kept' = [docs |-> docs[live], points |-> there, admins |-> accounts] /\ clean' = TRUE
    BY <1>4 DEF Start
  <2>8. docs[live] \in SUBSET Docs /\ there \in SUBSET Docs /\ accounts \in SUBSET Users
    BY <1>0 DEF CorpusTyped
  <2> HIDE DEF there, accounts
  <2>9. kept' \in KeptTypes
    BY <2>7, <2>8 DEF KeptTypes
  <2>10. OtherTyped'
    BY <1>1, <2>7, <2>9 DEF OtherTyped, JobUnchanged, MigrationInv
  <2> QED
    BY <1>2, <2>6, <2>10 DEF MigrationInv
<1> QED
  BY <1>3, <1>4

-----------------------------------------------------------------------------
(* Cutovers and rollbacks.                                                 *)
LEMMA RewriteKeeps ==
  ASSUME MigrationInv, NEW k \in Switchers, Cutover(k) \/ Rollback(k) PROVE MigrationInv'
<1>0. bound \in BoundTypes /\ switch \in [Switchers -> SwitchTypes] /\ job \in JobTypes
  BY DEF MigrationInv, BindTyped, JobTyped
<1>1. PICK env \in Servers, settings \in [Parts -> Servers], rollback \in Servers \cup {None} :
        Rewrite(k, env, settings, rollback)
  <2>1. CASE Cutover(k)
    <3>1. job.target \in Servers /\ Saved \in Servers \cup {None}
      BY <1>0, <2>1, MigrationConstants DEF Cutover, JobTypes, BoundTypes, Saved
    <3>2. AllOf(job.target) \in [Parts -> Servers]
      BY <3>1 DEF AllOf
    <3> QED
      BY <2>1, <3>1, <3>2 DEF Cutover
  <2>2. CASE Rollback(k)
    <3>1. bound.rollback \in Servers /\ bound.settings \in [Parts -> Servers]
      BY <1>0, <2>2 DEF Rollback, BoundTypes
    <3>2. Restored(bound.rollback) \in [Parts -> Servers]
      BY <3>1 DEF Restored
    <3> QED
      BY <2>2, <3>1, <3>2 DEF Rollback
  <2> QED
    BY <2>1, <2>2
<1>2. bound' \in BoundTypes
  BY <1>0, <1>1, Zenon DEF Rewrite, BoundTypes
<1>3. /\ switch' = [switch EXCEPT ![k] = [pc |-> "dispose", to |-> settings["database"]]]
      /\ settings["database"] \in Servers
  BY <1>1 DEF Rewrite, Parts
<1>4. BindTyped'
  BY <1>0, <1>1, <1>2, <1>3 DEF BindTyped, SwitchTypes, Rewrite, MigrationInv
<1>5. AccountInv' /\ (guarded' => Sqlite) /\ CorpusTyped' /\ JobTyped' /\ OtherTyped'
  BY <1>1, AccountsKept, CorpusKept, JobKept, OtherKept
  DEF Rewrite, SwitchUnchanged, copyVars, MigrationInv
<1> QED
  BY <1>4, <1>5 DEF MigrationInv

(* The engine that is bound takes no lock, and is guarded no longer if it  *)
(* is one of the source.                                                   *)
LEMMA BindingKeeps ==
  ASSUME MigrationInv, NEW k \in Switchers, switch[k].to \in Servers,
         live' = switch[k].to, immediate' = FALSE,
         guarded' = (guarded /\ switch[k].to # Source),
         UNCHANGED <<admins, lock, tokens, request, calls>>
  PROVE  AccountInv' /\ (guarded' => Sqlite)
<1>1. guarded' \in BOOLEAN /\ immediate' \in BOOLEAN
  BY Zenon
<1>2. AccountTypeOK'
  BY <1>1 DEF MigrationInv, AccountInv, AccountTypeOK
<1>3. guarded' => guarded /\ live' # Source
  OBVIOUS
<1>4. WishFits' /\ Bound' /\ Locks'
  BY <1>3 DEF MigrationInv, AccountInv, WishFits, Bound, Locks
<1>5. Holds' /\ SeenIsRow' /\ SuperadminRemains'
  BY <1>3 DEF MigrationInv, AccountInv, Holds, Late, SeenIsRow, SuperadminRemains
<1>6. Counted'
  BY <1>3 DEF MigrationInv, AccountInv, Counted, Late
<1> QED
  BY <1>2, <1>3, <1>4, <1>5, <1>6 DEF AccountInv, MigrationInv

LEMMA RebindKeeps ==
  ASSUME MigrationInv, NEW k \in Switchers, NEW reachable \in BOOLEAN, Rebind(k, reachable)
  PROVE  MigrationInv'
<1>0. bound \in BoundTypes /\ switch \in [Switchers -> SwitchTypes] /\ switch[k].to \in Servers
  BY DEF MigrationInv, BindTyped, Rebind
<1> DEFINE store == IF reachable THEN bound.settings["vectors"] ELSE "local"
           index == bound.settings["database"]
<1>1. store \in Stores /\ index \in Servers
  BY <1>0 DEF BoundTypes, Parts, Stores
<1>2. bound' \in BoundTypes
  <2>1. [bound EXCEPT !.qdrant = store, !.index = index, !.tried = FALSE] \in BoundTypes
    <3> HIDE DEF store, index
    <3> QED
      BY <1>0, <1>1, Zenon DEF BoundTypes
  <2>2. [bound EXCEPT !.qdrant = store] \in BoundTypes
    <3> HIDE DEF store
    <3> QED
      BY <1>0, <1>1, Zenon DEF BoundTypes
  <2> QED
    BY <2>1, <2>2 DEF Rebind
<1>3. switch' = [switch EXCEPT ![k] = Idle] \/ switch' = [switch EXCEPT ![k].pc = "redis"]
  BY DEF Rebind
<1>4. switch' \in [Switchers -> SwitchTypes]
  BY <1>0, <1>3 DEF SwitchTypes, Idle
<1>5. \A o \in Switchers : switch'[o].pc = "dispose" => switch'[o].to \in Servers
  BY <1>0, <1>3 DEF MigrationInv, BindTyped, SwitchTypes, Idle
<1>6. BindTyped'
  BY <1>2, <1>4, <1>5 DEF Rebind, BindTyped, MigrationInv
<1>7. AccountInv' /\ (guarded' => Sqlite)
  BY <1>0, BindingKeeps DEF Rebind
<1>8. CorpusTyped' /\ JobTyped' /\ OtherTyped'
  BY CorpusKept, JobKept, OtherKept DEF Rebind, SwitchUnchanged, copyVars, MigrationInv
<1> QED
  BY <1>6, <1>7, <1>8 DEF MigrationInv

(* A hot reload that raises has bound the engine, or nothing.              *)
LEMMA RaiseKeeps ==
  ASSUME MigrationInv, NEW k \in Switchers, NEW late \in BOOLEAN, Raise(k, late)
  PROVE  MigrationInv'
<1>0. bound \in BoundTypes /\ switch \in [Switchers -> SwitchTypes] /\ switch[k].to \in Servers
  BY DEF MigrationInv, BindTyped, Raise
<1>1. bound' = bound \/ bound' = [bound EXCEPT !.qdrant = "closed"]
  BY DEF Raise
<1>2. bound' \in BoundTypes
  <2>1. "closed" \in Stores
    BY DEF Stores
  <2>2. [bound EXCEPT !.qdrant = "closed"] \in BoundTypes
    BY <1>0, <2>1, Zenon DEF BoundTypes
  <2> QED
    BY <1>0, <1>1, <2>2
<1>3. switch' = [switch EXCEPT ![k] = Idle] /\ broken' = TRUE
  BY DEF Raise
<1>4. switch' \in [Switchers -> SwitchTypes]
  BY <1>0, <1>3 DEF SwitchTypes, Idle
<1>5. \A o \in Switchers : switch'[o].pc = "dispose" => switch'[o].to \in Servers
  BY <1>0, <1>3 DEF MigrationInv, BindTyped, SwitchTypes, Idle
<1>6. BindTyped'
  BY <1>2, <1>3, <1>4, <1>5 DEF BindTyped
<1>7. AccountInv' /\ (guarded' => Sqlite)
  <2>1. CASE late
    BY <1>0, <2>1, BindingKeeps DEF Raise
  <2>2. CASE ~late
    BY <2>2, AccountsKept DEF Raise, accountVars
  <2> QED
    BY <2>1, <2>2
<1>8. CorpusTyped' /\ JobTyped' /\ OtherTyped'
  BY CorpusKept, JobKept, OtherKept DEF Raise, SwitchUnchanged, copyVars, MigrationInv
<1> QED
  BY <1>6, <1>7, <1>8 DEF MigrationInv

LEMMA ConnectionKeeps ==
  ASSUME MigrationInv,
         \/ \E k \in Switchers : Reload(k)
         \/ Dial \/ \E v \in Servers, up \in BOOLEAN : Answer(v, up)
  PROVE  MigrationInv'
<1>0. bound \in BoundTypes /\ switch \in [Switchers -> SwitchTypes]
  BY DEF MigrationInv, BindTyped
<1>1. UNCHANGED accountVars /\ SwitchUnchanged
  BY DEF Reload, Dial, Answer
<1>2. AccountInv' /\ (guarded' => Sqlite) /\ CorpusTyped' /\ JobTyped' /\ OtherTyped'
  BY <1>1, AccountsKept, CorpusKept, JobKept, OtherKept
  DEF SwitchUnchanged, copyVars, MigrationInv
<1>3. bound.settings["database"] \in Servers /\ bound.settings["redis"] \in Servers
  BY <1>0 DEF BoundTypes, Parts
<1>4. ASSUME NEW k \in Switchers, Reload(k)
      PROVE  switch' \in [Switchers -> SwitchTypes]
             /\ \A o \in Switchers : switch'[o].pc = "dispose" => switch'[o].to \in Servers
  BY <1>0, <1>4 DEF Reload, Idle, SwitchTypes, MigrationInv, BindTyped
<1>5. ASSUME NEW k \in Switchers, Reload(k) PROVE BindTyped'
  <2> DEFINE index == bound.settings["database"]
  <2>1. bound' = [bound EXCEPT !.redis = None, !.tried = FALSE, !.index = index]
    BY <1>5 DEF Reload
  <2>2. index \in Servers
    BY <1>3
  <2> HIDE DEF index
  <2>3. bound' \in BoundTypes
    BY <1>0, <2>1, <2>2, Zenon DEF BoundTypes
  <2> QED
    BY <1>4, <1>5, <2>3 DEF BindTyped, Reload, MigrationInv
<1>7. ASSUME Dial PROVE BindTyped'
  <2> DEFINE dialing == bound.dialing \cup {bound.settings["redis"]}
  <2>1. bound' = [bound EXCEPT !.tried = TRUE, !.dialing = dialing]
    BY <1>7 DEF Dial
  <2>2. dialing \in SUBSET Servers
    BY <1>0, <1>3 DEF BoundTypes
  <2> HIDE DEF dialing
  <2>3. bound' \in BoundTypes
    BY <1>0, <2>1, <2>2, Zenon DEF BoundTypes
  <2> QED
    BY <1>7, <2>3 DEF BindTyped, Dial, MigrationInv
<1>8. ASSUME NEW v \in Servers, NEW up \in BOOLEAN, Answer(v, up) PROVE BindTyped'
  <2> DEFINE redis == IF up THEN v ELSE None
             dialing == bound.dialing \ {v}
  <2>1. bound' = [bound EXCEPT !.redis = redis, !.dialing = dialing]
    BY <1>8 DEF Answer
  <2>2. redis \in Servers \cup {None} /\ dialing \in SUBSET Servers
    BY <1>0 DEF BoundTypes
  <2> HIDE DEF redis, dialing
  <2>3. bound' \in BoundTypes
    BY <1>0, <2>1, <2>2, Zenon DEF BoundTypes
  <2> QED
    BY <1>8, <2>3 DEF BindTyped, Answer, MigrationInv
<1> QED
  BY <1>2, <1>5, <1>7, <1>8 DEF MigrationInv

-----------------------------------------------------------------------------
(* A restart begins on a server with accounts, or with the seeded one.     *)
LEMMA SeedKeeps ==
  ASSUME NEW rows \in [Users -> Accounts]
  PROVE  /\ Seed(rows) \in [Users -> Accounts]
         /\ Superadmins(rows) # {} => Superadmins(Seed(rows)) # {}
<1>1. Seed(rows) \in [Users -> Accounts]
  BY RowTypes DEF Seed
<1>2. CASE rows = NoRows
  BY <1>1, <1>2 DEF Superadmins, NoRows, Absent
<1>3. CASE rows # NoRows
  BY <1>1, <1>3 DEF Seed
<1> QED
  BY <1>2, <1>3

LEMMA RestartKeeps ==
  ASSUME MigrationInv, Restart \/ RestartWorker PROVE MigrationInv'
<1>0. bound \in BoundTypes /\ admins \in [Servers -> [Users -> Accounts]]
  BY DEF MigrationInv, BindTyped, AccountInv, AccountTypeOK
<1>1. bound.env \in Servers
  BY <1>0 DEF BoundTypes
<1>2. CASE RestartWorker
  <2>1. OtherTyped'
    BY <1>1, <1>2 DEF RestartWorker, OtherTyped, MigrationInv, copyVars
  <2>2. AccountInv' /\ (guarded' => Sqlite) /\ CorpusTyped' /\ JobTyped' /\ BindTyped'
    BY <1>2, AccountsKept, CorpusKept, JobKept, BindKept
    DEF RestartWorker, copyVars, bindVars, MigrationInv
  <2> QED
    BY <2>1, <2>2 DEF MigrationInv
<1>3. CASE Restart
  <2> DEFINE rows == admins[bound.env]
  <2>1. rows \in [Users -> Accounts]
    BY <1>0, <1>1
  <2>2. /\ admins' = [admins EXCEPT ![bound.env] = Seed(rows)]
        /\ live' = bound.env /\ lock' = None /\ request' = [s \in Sessions |-> NoRequest]
        /\ UNCHANGED <<guarded, tokens, calls>>
    BY <1>3 DEF Restart
  <2>3. immediate' = (Sqlite /\ bound.env = Source)
    BY <1>3 DEF Restart
  <2>4. AccountTypeOK'
    <3>1. immediate' \in BOOLEAN
      BY <2>3, Zenon
    <3>2. admins' \in [Servers -> [Users -> Accounts]]
      BY <1>0, <2>1, <2>2, SeedKeeps
    <3>3. request' \in [Sessions -> Requests]
      BY <2>2, NoRequestType
    <3> QED
      BY <1>1, <2>2, <3>1, <3>2, <3>3 DEF AccountTypeOK, MigrationInv, AccountInv
  <2>5. \A s \in Sessions : request'[s] = NoRequest
    BY <2>2
  <2>6. NoRequest.pc = "idle" /\ NoRequest.wish \in WishOf(NoRequest.call)
    BY DEF NoRequest, WishOf
  <2>7. WishFits' /\ Locks' /\ Holds' /\ SeenIsRow' /\ Counted'
    BY <2>5, <2>6 DEF WishFits, Locks, Holds, SeenIsRow, Counted, Late
  <2>8. Bound'
    BY <2>2, <2>3 DEF Bound, MigrationInv
  <2>9. SuperadminRemains'
    <3>1. Superadmins(admins[Source]) # {} => Superadmins(admins'[Source]) # {}
      BY <1>0, <2>1, <2>2, SeedKeeps, AccountConstants
    <3> QED
      BY <2>2, <3>1 DEF SuperadminRemains, MigrationInv, AccountInv
  <2>10. AccountInv' /\ (guarded' => Sqlite)
    BY <2>2, <2>4, <2>7, <2>8, <2>9 DEF AccountInv, MigrationInv
  <2>11. CorpusTyped' /\ OtherTyped'
    BY <1>3, CorpusKept, OtherKept DEF Restart, MigrationInv
  <2>12. JobTyped'
    <3>1. "idle" \in Steps /\ "idle" \in Statuses /\ <<>> \in Seq(Names) /\ 0 \in Nat
      BY DEF Steps, Statuses
    <3>2. NoJob \in JobTypes
      BY <3>1, Zenon DEF NoJob, JobTypes
    <3>3. job' = NoJob /\ NoJob.pc = "idle" /\ NoJob.status = "idle"
      BY <1>3, Zenon DEF Restart, NoJob
    <3> QED
      BY <3>2, <3>3 DEF JobTyped
  <2>13. BindTyped'
    <3>0. AllOf(bound.env) \in [Parts -> Servers] /\ bound.env \in Stores
      BY <1>1 DEF AllOf, Stores
    <3>1. bound' = [bound EXCEPT !.settings = AllOf(bound.env), !.qdrant = bound.env,
                      !.index = bound.env, !.redis = None, !.tried = FALSE, !.dialing = {}]
      BY <1>3 DEF Restart
    <3>2. bound' \in BoundTypes
      BY <1>0, <1>1, <3>0, <3>1, Zenon DEF BoundTypes
    <3>3. switch' = [k \in Switchers |-> Idle] /\ broken' = FALSE
      BY <1>3 DEF Restart
    <3> QED
      BY <3>2, <3>3 DEF BindTyped, SwitchTypes, Idle
  <2> QED
    BY <2>10, <2>11, <2>12, <2>13 DEF MigrationInv
<1> QED
  BY <1>2, <1>3

LEMMA MigrationStep == MigrationInv /\ [Next]_vars => MigrationInv'
<1> SUFFICES ASSUME MigrationInv, [Next]_vars PROVE MigrationInv'
  OBVIOUS
<1>1. CASE UNCHANGED vars
  <2>1. AccountInv' /\ (guarded' => Sqlite)
    BY <1>1, AccountsKept DEF vars
  <2>2. CorpusTyped' /\ OtherTyped' /\ JobTyped' /\ BindTyped'
    BY <1>1, CorpusKept, OtherKept, JobKept, BindKept
    DEF vars, copyVars, bindVars, MigrationInv
  <2> QED
    BY <2>1, <2>2 DEF MigrationInv
<1>2. CASE Next
  BY <1>2, ServingKeeps, StartKeeps, CopyKeeps, FailKeeps, RewriteKeeps, RebindKeeps,
     RaiseKeeps, ConnectionKeeps, RestartKeeps DEF Next
<1> QED
  BY <1>1, <1>2

(* Every variable of the migration keeps its type, a job that runs has a   *)
(* step, and one that has none does not run (MigrationManager).            *)
THEOREM TypeCorrect == Spec => []TypeOK
<1>1. MigrationInv => TypeOK
  <2> SUFFICES ASSUME MigrationInv PROVE TypeOK
    OBVIOUS
  <2>1. AccountTypeOK
    BY DEF MigrationInv, AccountInv
  <2>2. CorpusTyped /\ OtherTyped /\ JobTyped /\ BindTyped
    BY DEF MigrationInv
  <2>3. /\ job.pc \in Steps /\ job.status \in Statuses
        /\ job.source \in Servers \cup {None} /\ job.target \in Targets \cup {None}
    BY <2>2 DEF JobTyped, JobTypes
  <2>4. (job.pc = "idle") = (job.status # "running")
    BY <2>2, Zenon DEF JobTyped
  <2>5. kept.docs \subseteq Docs /\ kept.points \subseteq Docs /\ kept.admins \subseteq Users
    BY <2>2 DEF OtherTyped, KeptTypes
  <2>6. /\ bound.env \in Servers /\ bound.rollback \in Servers \cup {None}
        /\ bound.settings \in [Parts -> Servers]
        /\ bound.qdrant \in Servers \cup {"local", "closed"} /\ bound.dialing \subseteq Servers
    BY <2>2 DEF BindTyped, BoundTypes, Stores
  <2>7. \A k \in Switchers : switch[k].pc \in {"idle", "dispose", "redis"}
    BY <2>2 DEF BindTyped, SwitchTypes
  <2>8. worker \in Servers /\ clean \in BOOLEAN /\ broken \in BOOLEAN
    BY <2>2 DEF OtherTyped, BindTyped
  <2> QED
    BY <2>1, <2>2, <2>3, <2>4, <2>5, <2>6, <2>7, <2>8 DEF TypeOK, CorpusTyped
<1> QED
  BY <1>1, MigrationStart, MigrationStep, PTL DEF Spec

(* As long as every process has locked the SQLite database it started on,  *)
(* that database has an active superadmin: whatever job copies it, whoever *)
(* switches servers, and whenever the process is killed                    *)
(* (toggle_admin_user_status, update_admin_user, delete_admin_user,        *)
(* execute_cutover).                                                       *)
THEOREM SuperadminSurvives == Spec => []SuperadminRemains
<1>1. MigrationInv => SuperadminRemains
  BY DEF MigrationInv, AccountInv
<1> QED
  BY <1>1, MigrationStart, MigrationStep, PTL DEF Spec

-----------------------------------------------------------------------------
(* One server.  With an operator who lets one switch end before the next,  *)
(* a Qdrant that is reached, and no connection to Redis that is being made *)
(* during a switch.                                                        *)
Calm == Patient /\ {"dial", "qdrant"} \cap Faults = {}

OneSwitch  == \A k, l \in Switchers : switch[k].pc # "idle" /\ switch[l].pc # "idle" => k = l
Configured == /\ bound.settings["database"] = bound.env
              /\ \A p \in NamedBy(bound.env) : bound.settings[p] = bound.env
              /\ bound.dialing \subseteq {bound.settings["redis"]}
Following  == ~broken => \A k \in Switchers :
                /\ switch[k].pc = "dispose" => switch[k].to = bound.env
                /\ switch[k].pc = "redis" => live = bound.env /\ bound.qdrant = bound.settings["vectors"]
Followed   == ~broken /\ Settled =>
                /\ live = bound.env /\ bound.qdrant = bound.settings["vectors"]
                /\ bound.index = bound.env /\ bound.redis \in {None, bound.settings["redis"]}
ServerInv  == MigrationInv /\ OneSwitch /\ Configured /\ Following /\ Followed

LEMMA ServerStart == Init => ServerInv
<1> SUFFICES ASSUME Init PROVE ServerInv
  OBVIOUS
<1>1. PICK rows \in [Users -> Accounts] : Started(rows)
  BY DEF Init
<1>2. live = Source /\ switch = [k \in Switchers |-> Idle]
  BY <1>1 DEF Started, AccountInit
<1>3. /\ bound.env = Source /\ bound.settings = AllOf(Source) /\ bound.qdrant = Source
      /\ bound.index = Source /\ bound.redis = None /\ bound.dialing = {}
  BY <1>1 DEF Started
<1>4. \A p \in Parts : AllOf(Source)[p] = Source
  BY DEF AllOf
<1>5. /\ bound.settings["database"] = Source /\ bound.settings["vectors"] = Source
      /\ \A p \in NamedBy(Source) : bound.settings[p] = Source
  BY <1>3, <1>4, MigrationConstants DEF Parts, NamedBy
<1> QED
  BY <1>2, <1>3, <1>5, MigrationStart
  DEF ServerInv, OneSwitch, Configured, Following, Followed, Idle

(* A switch begins, and changes what the settings name.                    *)
LEMMA RewriteServer ==
  ASSUME Calm, ServerInv, NEW k \in Switchers, Cutover(k) \/ Rollback(k)
  PROVE  OneSwitch' /\ Configured' /\ Following' /\ Followed'
<1>0. bound \in BoundTypes /\ switch \in [Switchers -> SwitchTypes]
  BY DEF ServerInv, MigrationInv, BindTyped
<1>1. PICK to, settings, rollback :
        /\ Rewrite(k, to, settings, rollback)
        /\ settings = AllOf(to) \/ settings = Restored(to)
  BY DEF Cutover, Rollback
<1>2. settings["database"] = to /\ \A p \in NamedBy(to) : settings[p] = to
  <2>1. "database" \in NamedBy(to) /\ NamedBy(to) \subseteq Parts
    BY MigrationConstants DEF NamedBy, Parts
  <2>2. \A p \in NamedBy(to) : AllOf(to)[p] = to /\ Restored(to)[p] = to
    BY <2>1 DEF AllOf, Restored
  <2> QED
    BY <1>1, <2>1, <2>2
<1>3. Settled /\ bound.dialing = {}
  BY <1>1 DEF Rewrite, Calm
<1>4. /\ bound'.env = to /\ bound'.settings = settings /\ bound'.dialing = {}
      /\ switch'[k] = [pc |-> "dispose", to |-> to]
      /\ \A o \in Switchers \ {k} : switch'[o] = switch[o]
  BY <1>0, <1>1, <1>2, <1>3 DEF Rewrite, BoundTypes
<1> QED
  BY <1>2, <1>3, <1>4 DEF OneSwitch, Configured, Following, Followed, Settled

(* It goes on, and ends, with the parts of the process bound to that.      *)
LEMMA RebindServer ==
  ASSUME Calm, ServerInv, NEW k \in Switchers, NEW reachable \in BOOLEAN, Rebind(k, reachable)
  PROVE  OneSwitch' /\ Configured' /\ Following' /\ Followed'
<1>0. bound \in BoundTypes /\ switch \in [Switchers -> SwitchTypes]
  BY DEF ServerInv, MigrationInv, BindTyped
<1>1. reachable /\ switch[k].pc = "dispose" /\ live' = switch[k].to /\ UNCHANGED broken
  BY DEF Rebind, Calm
<1>2. CASE bound.redis = None
  <2>1. /\ bound' = [bound EXCEPT !.qdrant = bound.settings["vectors"],
                                  !.index = bound.settings["database"], !.tried = FALSE]
        /\ switch' = [switch EXCEPT ![k] = Idle]
    BY <1>1, <1>2 DEF Rebind
  <2>2. /\ bound'.settings = bound.settings /\ bound'.env = bound.env
        /\ bound'.dialing = bound.dialing /\ bound'.qdrant = bound.settings["vectors"]
        /\ bound'.index = bound.settings["database"] /\ bound'.redis = None
    BY <1>0, <1>2, <2>1 DEF BoundTypes
  <2>3. switch'[k] = Idle /\ \A o \in Switchers \ {k} : switch'[o] = switch[o]
    BY <1>0, <2>1
  <2> QED
    BY <1>1, <2>2, <2>3
    DEF ServerInv, OneSwitch, Configured, Following, Followed, Settled, Idle
<1>3. CASE bound.redis # None
  <2>1. /\ bound' = [bound EXCEPT !.qdrant = bound.settings["vectors"]]
        /\ switch' = [switch EXCEPT ![k].pc = "redis"]
    BY <1>1, <1>3 DEF Rebind
  <2>2. /\ bound'.settings = bound.settings /\ bound'.env = bound.env
        /\ bound'.dialing = bound.dialing /\ bound'.qdrant = bound.settings["vectors"]
    BY <1>0, <2>1 DEF BoundTypes
  <2>3. switch'[k].pc = "redis" /\ \A o \in Switchers \ {k} : switch'[o] = switch[o]
    BY <1>0, <2>1 DEF SwitchTypes
  <2> QED
    BY <1>1, <2>2, <2>3
    DEF ServerInv, OneSwitch, Configured, Following, Followed, Settled
<1> QED
  BY <1>2, <1>3

LEMMA RaiseServer ==
  ASSUME ServerInv, NEW k \in Switchers, NEW late \in BOOLEAN, Raise(k, late)
  PROVE  OneSwitch' /\ Configured' /\ Following' /\ Followed'
<1>0. bound \in BoundTypes /\ switch \in [Switchers -> SwitchTypes]
  BY DEF ServerInv, MigrationInv, BindTyped
<1>1. switch' = [switch EXCEPT ![k] = Idle] /\ broken' = TRUE
  BY DEF Raise
<1>2. /\ bound'.settings = bound.settings /\ bound'.env = bound.env
      /\ bound'.dialing = bound.dialing
  BY <1>0 DEF Raise, BoundTypes
<1>3. switch'[k] = Idle /\ \A o \in Switchers \ {k} : switch'[o] = switch[o]
  BY <1>0, <1>1
<1> QED
  BY <1>1, <1>2, <1>3 DEF ServerInv, OneSwitch, Configured, Following, Followed, Idle

LEMMA ConnectionServer ==
  ASSUME Calm, ServerInv,
         \/ \E k \in Switchers : Reload(k)
         \/ Dial \/ \E v \in Servers, up \in BOOLEAN : Answer(v, up)
  PROVE  OneSwitch' /\ Configured' /\ Following' /\ Followed'
<1>0. bound \in BoundTypes /\ switch \in [Switchers -> SwitchTypes]
  BY DEF ServerInv, MigrationInv, BindTyped
<1>1. UNCHANGED live
  BY DEF Reload, Dial, Answer, accountVars
<1>2. ASSUME NEW k \in Switchers, Reload(k)
      PROVE  OneSwitch' /\ Configured' /\ Following' /\ Followed'
  <2>1. /\ bound' = [bound EXCEPT !.redis = None, !.tried = FALSE, !.index = bound.settings["database"]]
        /\ switch' = [switch EXCEPT ![k] = Idle] /\ switch[k].pc = "redis" /\ UNCHANGED broken
    BY <1>2 DEF Reload
  <2>2. /\ bound'.settings = bound.settings /\ bound'.env = bound.env
        /\ bound'.dialing = bound.dialing /\ bound'.qdrant = bound.qdrant
        /\ bound'.index = bound.settings["database"] /\ bound'.redis = None
    BY <1>0, <2>1 DEF BoundTypes
  <2>3. switch'[k] = Idle /\ \A o \in Switchers \ {k} : switch'[o] = switch[o]
    BY <1>0, <2>1
  <2> QED
    BY <1>1, <2>1, <2>2, <2>3
    DEF ServerInv, OneSwitch, Configured, Following, Followed, Settled, Idle
<1>4. ASSUME Dial \/ \E v \in Servers, up \in BOOLEAN : Answer(v, up)
      PROVE  OneSwitch' /\ Configured' /\ Following' /\ Followed'
  <2>1. UNCHANGED <<switch, broken>>
    BY <1>4 DEF Dial, Answer
  <2>2. /\ bound'.settings = bound.settings /\ bound'.env = bound.env
        /\ bound'.qdrant = bound.qdrant /\ bound'.index = bound.index
        /\ bound'.dialing \subseteq {bound.settings["redis"]}
        /\ bound'.redis \in {bound.redis, None, bound.settings["redis"]}
    <3>1. CASE Dial
      BY <1>0, <3>1 DEF Dial, BoundTypes, ServerInv, Configured
    <3>2. ASSUME NEW v \in Servers, NEW up \in BOOLEAN, Answer(v, up)
          PROVE  /\ bound'.settings = bound.settings /\ bound'.env = bound.env
                 /\ bound'.qdrant = bound.qdrant /\ bound'.index = bound.index
                 /\ bound'.dialing \subseteq {bound.settings["redis"]}
                 /\ bound'.redis \in {bound.redis, None, bound.settings["redis"]}
      BY <1>0, <3>2 DEF Answer, BoundTypes, ServerInv, Configured
    <3> QED
      BY <1>4, <3>1, <3>2
  <2> QED
    BY <1>1, <2>1, <2>2
    DEF ServerInv, OneSwitch, Configured, Following, Followed, Settled
<1> QED
  BY <1>2, <1>4

LEMMA ServerKept ==
  ASSUME ServerInv, UNCHANGED <<live, bound, switch, broken>>
  PROVE  OneSwitch' /\ Configured' /\ Following' /\ Followed'
BY DEF ServerInv, OneSwitch, Configured, Following, Followed, Settled

LEMMA ServerStep ==
  ASSUME Calm PROVE ServerInv /\ [Next]_vars => ServerInv'
<1> SUFFICES ASSUME ServerInv, [Next]_vars
             PROVE  OneSwitch' /\ Configured' /\ Following' /\ Followed'
  BY MigrationStep DEF ServerInv
<1>1. CASE UNCHANGED vars
  BY <1>1, ServerKept DEF vars, accountVars, bindVars
<1>2. CASE Account
  BY <1>2, ServerKept
  DEF Account, Watch, bindVars, AccountNext, LoginRequest, Authenticate, Request, Lookup, Count,
      Save, Delete, Create, Reject, Login
<1>3. CASE Write
  BY <1>3, ServerKept
  DEF Write, AddRow, AddPoint, RemovePoint, RemoveRow, Corpus, bindVars, accountVars
<1>4. CASE Cancel \/ \E t \in Targets : Start(t)
  BY <1>4, ServerKept DEF Cancel, Start, JobUnchanged, bindVars, accountVars
<1>5. CASE Copy
  <2>1. \E pc \in Steps : JobStep(pc)
    BY <1>5 DEF Copy, Bootstrap, CountRows, BeginTable, CancelTables, FillTable, CountPoints,
                Scroll, ScrollClosed, Audit, Finish, Steps
  <2> QED
    BY <2>1, ServerKept DEF JobStep, JobUnchanged, bindVars
<1>6. CASE \E rows \in SUBSET job.rows : Fail(rows)
  BY <1>6, ServerKept DEF Fail, bindVars
<1>7. CASE Restart
  <2>1. bound \in BoundTypes
    BY DEF ServerInv, MigrationInv, BindTyped
  <2>2. live' = bound.env /\ switch' = [k \in Switchers |-> Idle]
    BY <1>7 DEF Restart
  <2>3. /\ bound'.env = bound.env /\ bound'.settings = AllOf(bound.env) /\ bound'.qdrant = bound.env
        /\ bound'.index = bound.env /\ bound'.redis = None /\ bound'.dialing = {}
    BY <1>7, <2>1 DEF Restart, BoundTypes
  <2>4. \A p \in Parts : AllOf(bound.env)[p] = bound.env
    BY DEF AllOf
  <2>5. /\ bound'.settings["database"] = bound'.env /\ bound'.settings["vectors"] = bound'.env
        /\ \A p \in NamedBy(bound'.env) : bound'.settings[p] = bound'.env
    BY <2>3, <2>4, MigrationConstants DEF Parts, NamedBy
  <2> QED
    BY <2>2, <2>3, <2>5 DEF OneSwitch, Configured, Following, Followed, Idle
<1>8. CASE RestartWorker
  BY <1>8, ServerKept DEF RestartWorker, bindVars, accountVars
<1> QED
  BY <1>1, <1>2, <1>3, <1>4, <1>5, <1>6, <1>7, <1>8, RewriteServer, RebindServer,
     RaiseServer, ConnectionServer DEF Next

(* Whatever fails, is killed or is cancelled: when no switch is under way  *)
(* and none has raised since the process was started, its database,        *)
(* vector store, Redis and keyword index are those of one server, the one  *)
(* of .env, as far as .env names them (execute_cutover, execute_rollback). *)
THEOREM OneServerBound == ASSUME Calm PROVE Spec => []OneServer
<1>1. ServerInv => OneServer
  BY DEF ServerInv, Configured, Followed, OneServer
<1>2. ServerInv /\ [Next]_vars => ServerInv'
  BY ServerStep
<1> QED
  BY <1>1, <1>2, ServerStart, PTL DEF Spec

-----------------------------------------------------------------------------
(* What is copied.  From here on the operator waits: a switch ends before  *)
(* the next one or the next migration begins.                              *)
Running  == job.status = "running"
Done     == job.status = "completed"
Early    == job.pc \in {"bootstrap", "count", "tables", "fill"}
AtTables == job.pc \in {"tables", "fill"}
Later    == job.pc \in {"scroll", "audit"}
Rests    == {Tables, <<"docs">>, <<>>}

AdminsCopied == \A u \in kept.admins : admins[job.target][u] = admins[job.source][u]
DocsCopied   == kept.docs \subseteq docs[job.target]
PointsCopied == kept.points \subseteq points[job.target]

JobNamed  == Running \/ Done => job.target \in Targets /\ job.source \in Servers

(* While a job runs the process stays where it is, and what is kept is     *)
(* still there.                                                            *)
Stays  == Running => Settled /\ live = job.source
Stored == Running =>
  /\ kept.docs \subseteq docs[job.source]
  /\ \A u \in kept.admins : Exists(admins[job.source], u)
  /\ kept.points \subseteq IF bound.qdrant \in Servers THEN points[bound.qdrant] ELSE {}

(* Where the job is: the tables before it are copied, the one that is on   *)
(* its way was read as a whole, and so were the points below the offset.   *)
Place ==
  /\ Early => job.offset = 0
  /\ AtTables \/ job.pc = "audit" => job.rest \in Rests
  /\ AtTables => /\ "docs" \in job.empty => kept.docs = {}
                 /\ "admins" \in job.empty => kept.admins = {}
TablesCopied ==
  /\ AtTables /\ ~job.cancel => /\ job.rest # Tables => AdminsCopied
                                /\ job.rest = <<>> => DocsCopied
  /\ Later \/ Done => AdminsCopied /\ DocsCopied
OneRowEach(rows) == \A r, q \in rows : r[1] = q[1] => r = q
RowsRead ==
  job.pc = "fill" /\ ~job.cancel =>
    /\ job.rest = Tables => /\ OneRowEach(job.rows)
                            /\ \A u \in kept.admins : <<u, admins[job.source][u]>> \in job.rows
    /\ job.rest = <<"docs">> => kept.docs \subseteq job.rows
PointsRead ==
  /\ job.pc = "scroll" => \A p \in kept.points : p \in points[job.target] \/ p >= job.offset
  /\ job.pc = "audit" \/ Done => PointsCopied

Copied  == JobNamed /\ Stays /\ Stored /\ Place /\ TablesCopied /\ RowsRead /\ PointsRead

(* A job to the server in use copies nothing, and is left aside.           *)
Apart    == job.source # job.target
CopyInv  == MigrationInv /\ Copied /\ Apart
WholeInv == MigrationInv /\ JobNamed /\ Stays /\ (Apart => Copied)

-----------------------------------------------------------------------------
(* The tables are copied one after the other.                              *)
LEMMA TableOrder ==
  /\ Head(Tables) = "admins" /\ Tail(Tables) = <<"docs">> /\ Tables # <<>>
  /\ Head(<<"docs">>) = "docs" /\ Tail(<<"docs">>) = <<>> /\ <<"docs">> # <<>>
  /\ Tables # <<"docs">>
  /\ \A t \in Rests : t # <<>> => t = Tables \/ t = <<"docs">>
BY DEF Tables, Rests

(* From rows with one row each, an account is made from its row.           *)
LEMMA AccountOfRow ==
  ASSUME NEW rows, OneRowEach(rows), NEW u \in Users, NEW a, <<u, a>> \in rows
  PROVE  AccountsOf(rows)[u] = a
<1>1. <<u, a>>[1] = u /\ \E r \in rows : r[1] = u
  OBVIOUS
<1>2. PICK row \in rows : row = CHOOSE r \in rows : r[1] = u
  BY <1>1
<1>3. row[1] = u
  BY <1>1, <1>2
<1>4. row = <<u, a>>
  BY <1>1, <1>3 DEF OneRowEach
<1>5. AccountsOf(rows)[u] = row[2]
  BY <1>1, <1>2, Zenon DEF AccountsOf
<1> QED
  BY <1>4, <1>5

LEMMA RowsOfAccounts ==
  ASSUME AccountTypeOK, NEW v \in Servers
  PROVE  /\ OneRowEach(Rows("admins", v))
         /\ \A u \in Users : Exists(admins[v], u) <=> <<u, admins[v][u]>> \in Rows("admins", v)
         /\ Rows("admins", v) = {} <=> ~ \E u \in Users : Exists(admins[v], u)
<1>1. Rows("admins", v) = {<<u, admins[v][u]>> : u \in {x \in Users : Exists(admins[v], x)}}
  BY Zenon DEF Rows
<1> DEFINE rows == Rows("admins", v)
<1>2. \A r : r \in rows <=> \E u \in Users : Exists(admins[v], u) /\ r = <<u, admins[v][u]>>
  BY <1>1
<1> HIDE DEF rows
<1>3. OneRowEach(rows)
  BY <1>2 DEF OneRowEach
<1>4. \A u \in Users : Exists(admins[v], u) <=> <<u, admins[v][u]>> \in rows
  BY <1>2
<1>5. rows = {} <=> ~ \E u \in Users : Exists(admins[v], u)
  BY <1>2
<1> QED
  BY <1>3, <1>4, <1>5 DEF rows

(* What the types say of a job.                                            *)
LEMMA WholeFacts ==
  ASSUME WholeInv
  PROVE  /\ job \in JobTypes /\ kept \in KeptTypes /\ bound \in BoundTypes
         /\ docs \in [Servers -> SUBSET Docs] /\ points \in [Servers -> SUBSET Docs]
         /\ admins \in [Servers -> [Users -> Accounts]] /\ live \in Servers
         /\ Docs \in SUBSET Nat
         /\ Running <=> job.pc # "idle"
         /\ Running \/ Done => job.target \in Servers /\ job.source \in Servers
<1>1. MigrationInv /\ JobNamed
  BY DEF WholeInv
<1>2. /\ job \in JobTypes /\ kept \in KeptTypes /\ bound \in BoundTypes
      /\ docs \in [Servers -> SUBSET Docs] /\ points \in [Servers -> SUBSET Docs]
      /\ admins \in [Servers -> [Users -> Accounts]] /\ live \in Servers
  BY <1>1 DEF MigrationInv, JobTyped, OtherTyped, BindTyped, CorpusTyped, AccountInv, AccountTypeOK
<1>3. Running <=> job.pc # "idle"
  BY <1>1 DEF MigrationInv, JobTyped, Running
<1> QED
  BY <1>1, <1>2, <1>3, MigrationConstants DEF JobNamed

LEMMA JobFacts ==
  ASSUME CopyInv
  PROVE  /\ job \in JobTypes /\ kept \in KeptTypes /\ bound \in BoundTypes
         /\ docs \in [Servers -> SUBSET Docs] /\ points \in [Servers -> SUBSET Docs]
         /\ admins \in [Servers -> [Users -> Accounts]] /\ live \in Servers
         /\ Docs \in SUBSET Nat
         /\ Running <=> job.pc # "idle"
         /\ Running \/ Done => job.target \in Servers /\ job.source \in Servers
<1>1. WholeInv
  BY DEF CopyInv, Copied, WholeInv
<1> QED
  BY <1>1, WholeFacts

-----------------------------------------------------------------------------
(* What goes on beside the job.                                            *)

(* What is written meanwhile is no longer kept, the process stays where it *)
(* is while a job runs, and nothing else of the job changes than that it   *)
(* is to end.                                                              *)
LEMMA Beside ==
  ASSUME CopyInv, kept'.docs \subseteq kept.docs, kept'.points \subseteq kept.points,
         kept'.admins \subseteq kept.admins,
         \A v \in Servers : /\ docs[v] \cap kept'.docs \subseteq docs'[v]
                            /\ points[v] \cap kept'.points \subseteq points'[v]
                            /\ \A u \in kept'.admins : admins'[v][u] = admins[v][u],
         job' = job \/ job' = [job EXCEPT !.cancel = TRUE],
         Running => UNCHANGED live /\ bound'.qdrant = bound.qdrant /\ Settled'
  PROVE  Copied'
<1>0. /\ job \in JobTypes /\ (Running <=> job.pc # "idle")
      /\ Running \/ Done => job.target \in Servers /\ job.source \in Servers
  BY JobFacts
<1>01. Copied
  BY DEF CopyInv
<1>1. /\ job'.pc = job.pc /\ job'.status = job.status /\ job'.source = job.source
      /\ job'.target = job.target /\ job'.rest = job.rest /\ job'.empty = job.empty
      /\ job'.rows = job.rows /\ job'.offset = job.offset
      /\ ~job'.cancel => ~job.cancel
  BY <1>0 DEF JobTypes
<1>2. JobNamed' /\ Stays' /\ Place'
  BY <1>01, <1>1 DEF Copied, JobNamed, Stays, Place, Running, Done, Early, AtTables
<1>3. Stored'
  <2>1. /\ Running' => Running
        /\ Running => /\ kept.docs \subseteq docs[job.source]
                      /\ \A u \in kept.admins : Exists(admins[job.source], u)
                      /\ kept.points \subseteq IF bound.qdrant \in Servers THEN points[bound.qdrant] ELSE {}
    BY <1>01, <1>1 DEF Copied, Stored, Running
  <2>2. Running => kept'.docs \subseteq docs'[job.source]
    BY <1>0, <2>1
  <2>3. Running => \A u \in kept'.admins : Exists(admins'[job.source], u)
    BY <1>0, <2>1 DEF Exists
  <2>4. Running => kept'.points \subseteq IF bound.qdrant \in Servers THEN points'[bound.qdrant] ELSE {}
    BY <2>1
  <2> QED
    BY <1>1, <2>1, <2>2, <2>3, <2>4 DEF Stored
<1>4. /\ (Running \/ Done) /\ AdminsCopied => AdminsCopied'
      /\ (Running \/ Done) /\ DocsCopied => DocsCopied'
      /\ (Running \/ Done) /\ PointsCopied => PointsCopied'
  <2>1. (Running \/ Done) /\ AdminsCopied => AdminsCopied'
    BY <1>0, <1>1 DEF AdminsCopied
  <2>2. (Running \/ Done) /\ DocsCopied => DocsCopied'
    BY <1>0, <1>1 DEF DocsCopied
  <2>3. (Running \/ Done) /\ PointsCopied => PointsCopied'
    BY <1>0, <1>1 DEF PointsCopied
  <2> QED
    BY <2>1, <2>2, <2>3
<1>5. TablesCopied'
  BY <1>0, <1>01, <1>1, <1>4 DEF Copied, TablesCopied, AtTables, Later, Done
<1>6. RowsRead'
  <2>1. job.pc = "fill" => Running
    BY <1>0
  <2>2. job.pc = "fill" => \A u \in kept'.admins : admins'[job.source][u] = admins[job.source][u]
    BY <1>0, <2>1
  <2> QED
    BY <1>01, <1>1, <2>2 DEF Copied, RowsRead
<1>7. PointsRead'
  <2>1. job.pc = "scroll" => \A p \in kept'.points : p \in points'[job.target] \/ p >= job.offset
    BY <1>0, <1>01 DEF Copied, PointsRead
  <2> QED
    BY <1>0, <1>01, <1>1, <1>4, <2>1 DEF Copied, PointsRead, Done
<1> QED
  BY <1>2, <1>3, <1>5, <1>6, <1>7 DEF Copied

LEMMA Unwritten ==
  ASSUME CopyInv, UNCHANGED <<kept, docs, points, admins>>,
         job' = job \/ job' = [job EXCEPT !.cancel = TRUE],
         Running => UNCHANGED live /\ bound'.qdrant = bound.qdrant /\ Settled'
  PROVE  Copied'
BY Beside

(* A job that has ended without being completed has promised nothing.      *)
LEMMA Over ==
  ASSUME job'.pc = "idle", job'.status \notin {"running", "completed"} PROVE Copied'
BY DEF Copied, JobNamed, Stays, Stored, Place, TablesCopied, RowsRead, PointsRead,
       Running, Done, Early, AtTables, Later

LEMMA ServingCopies ==
  ASSUME CopyInv, Account \/ Write PROVE Copied'
<1>0. kept \in KeptTypes /\ docs \in [Servers -> SUBSET Docs] /\ points \in [Servers -> SUBSET Docs]
  BY JobFacts
<1>1. CASE Account
  <2> DEFINE left == {u \in kept.admins : \A v \in Servers : admins'[v][u] = admins[v][u]}
  <2>1. kept' = [kept EXCEPT !.admins = left] /\ UNCHANGED <<docs, points, job, bound, switch>>
    BY <1>1 DEF Account, Watch, bindVars
  <2>2. kept'.docs = kept.docs /\ kept'.points = kept.points /\ kept'.admins = left
    BY <1>0, <2>1 DEF KeptTypes
  <2>3. UNCHANGED live
    BY <1>1 DEF Account, AccountNext, LoginRequest, Authenticate, Request, Lookup, Count,
                Save, Delete, Create, Reject, Login
  <2>4. Running => Settled'
    BY <2>1 DEF CopyInv, Copied, Stays, Settled
  <2> QED
    BY <2>1, <2>2, <2>3, <2>4, Beside
<1>2. CASE Write
  <2>1. PICK w \in Writers, d \in Docs : AddRow(w, d) \/ AddPoint(w, d) \/ RemovePoint(w, d) \/ RemoveRow(w, d)
    BY <1>2 DEF Write
  <2>2. UNCHANGED <<admins, live, job, bound, switch>>
    BY <2>1 DEF AddRow, AddPoint, RemovePoint, RemoveRow, Corpus, accountVars, bindVars
  <2>3. Running => Settled'
    BY <2>2 DEF CopyInv, Copied, Stays, Settled
  <2>4. /\ kept'.docs \subseteq kept.docs /\ kept'.points \subseteq kept.points
        /\ kept'.admins = kept.admins
        /\ \A v \in Servers : /\ docs[v] \cap kept'.docs \subseteq docs'[v]
                              /\ points[v] \cap kept'.points \subseteq points'[v]
    <3>1. CASE AddRow(w, d) \/ AddPoint(w, d)
      BY <1>0, <3>1 DEF AddRow, AddPoint
    <3>2. CASE RemoveRow(w, d)
      <4>1. kept'.docs = kept.docs \ {d} /\ kept'.points = kept.points /\ kept'.admins = kept.admins
        BY <1>0, <3>2 DEF RemoveRow, KeptTypes
      <4>2. docs' = [docs EXCEPT ![w.row] = @ \ {d}] /\ UNCHANGED points
        BY <3>2 DEF RemoveRow
      <4> QED
        BY <1>0, <4>1, <4>2
    <3>3. CASE RemovePoint(w, d)
      <4>1. kept'.points = kept.points \ {d} /\ kept'.docs = kept.docs /\ kept'.admins = kept.admins
        BY <1>0, <3>3 DEF RemovePoint, KeptTypes
      <4>2. points' = [points EXCEPT ![w.point] = @ \ {d}] /\ UNCHANGED docs
        BY <3>3 DEF RemovePoint
      <4> QED
        BY <1>0, <4>1, <4>2
    <3> QED
      BY <2>1, <3>1, <3>2, <3>3
  <2> QED
    BY <2>2, <2>3, <2>4, Beside
<1> QED
  BY <1>1, <1>2

(* A job that starts keeps what the source has.                            *)
LEMMA StartCopies ==
  ASSUME Patient, WholeInv, NEW t \in Targets, Start(t) PROVE Copied'
<1>0. live \in Servers /\ docs \in [Servers -> SUBSET Docs] /\ points \in [Servers -> SUBSET Docs]
  BY WholeFacts
<1>1. job' = [NoJob EXCEPT !.pc = "bootstrap", !.status = "running", !.source = live, !.target = t]
  BY DEF Start
<1>2. /\ job'.pc = "bootstrap" /\ job'.status = "running" /\ job'.source = live
      /\ job'.target = t /\ job'.offset = 0
  BY <1>1 DEF NoJob
<1>3. /\ Settled
      /\ UNCHANGED <<live, admins, docs, points, bound, switch>>
  BY DEF Start, JobUnchanged, accountVars, bindVars
<1>4. /\ kept'.docs = docs[live] /\ kept'.admins = {u \in Users : Exists(admins[live], u)}
      /\ kept'.points = IF bound.qdrant \in Servers THEN points[bound.qdrant] ELSE {}
  BY DEF Start
<1>5. JobNamed' /\ Stays'
  BY <1>0, <1>2, <1>3 DEF JobNamed, Stays, Settled
<1>51. Stored'
  BY <1>2, <1>3, <1>4 DEF Stored
<1>6. Place' /\ TablesCopied' /\ RowsRead' /\ PointsRead'
  BY <1>2 DEF Place, TablesCopied, RowsRead, PointsRead, Done, Early, AtTables, Later
<1> QED
  BY <1>5, <1>51, <1>6 DEF Copied

(* No switch begins while a job runs, and none is under way.               *)
LEMMA SwitchingCopies ==
  ASSUME Patient, CopyInv,
         \/ \E k \in Switchers : \/ Cutover(k) \/ Rollback(k) \/ Reload(k)
                                 \/ \E reachable \in BOOLEAN : Rebind(k, reachable)
                                 \/ \E late \in BOOLEAN : Raise(k, late)
         \/ Dial \/ \E v \in Servers, up \in BOOLEAN : Answer(v, up)
  PROVE  Copied'
<1>0. bound \in BoundTypes /\ (Running => Settled)
  BY JobFacts DEF CopyInv, Copied, Stays
<1>1. UNCHANGED <<kept, docs, points, admins, job>>
  <2>1. SwitchUnchanged
    BY DEF Cutover, Rollback, Rewrite, Reload, Raise, Rebind, Dial, Answer
  <2>2. UNCHANGED admins
    <3>1. ASSUME NEW k \in Switchers, Cutover(k) \/ Rollback(k) \/ Reload(k)
          PROVE  UNCHANGED admins
      BY <3>1 DEF Cutover, Rollback, Rewrite, Reload, accountVars
    <3>2. ASSUME NEW k \in Switchers, NEW reachable \in BOOLEAN, Rebind(k, reachable)
          PROVE  UNCHANGED admins
      BY <3>2 DEF Rebind
    <3>4. ASSUME NEW k \in Switchers, NEW late \in BOOLEAN, Raise(k, late)
          PROVE  UNCHANGED admins
      BY <3>4 DEF Raise
    <3>3. ASSUME Dial \/ \E v \in Servers, up \in BOOLEAN : Answer(v, up)
          PROVE  UNCHANGED admins
      BY <3>3 DEF Dial, Answer, accountVars
    <3> QED
      BY <3>1, <3>2, <3>3, <3>4
  <2> QED
    BY <2>1, <2>2 DEF SwitchUnchanged, copyVars
<1>2. ASSUME NEW k \in Switchers, Cutover(k) \/ Rollback(k) PROVE ~Running
  BY <1>2 DEF Cutover, Rollback, Rewrite, Running
<1>3. ASSUME NEW k \in Switchers, \/ Reload(k)
                                  \/ \E reachable \in BOOLEAN : Rebind(k, reachable)
                                  \/ \E late \in BOOLEAN : Raise(k, late)
      PROVE  ~Running
  BY <1>0, <1>3 DEF Reload, Raise, Rebind, Settled
<1>4. ASSUME Dial \/ \E v \in Servers, up \in BOOLEAN : Answer(v, up)
      PROVE  bound'.qdrant = bound.qdrant /\ UNCHANGED <<live, switch>>
  BY <1>0, <1>4 DEF Dial, Answer, accountVars, BoundTypes
<1>5. Running => UNCHANGED live /\ bound'.qdrant = bound.qdrant /\ Settled'
  BY <1>0, <1>2, <1>3, <1>4 DEF Settled
<1> QED
  BY <1>1, <1>5, Unwritten

LEMMA RestartCopies ==
  ASSUME Restart PROVE Copied'
<1>1. job' = NoJob
  BY DEF Restart
<1> QED
  BY <1>1, Over DEF NoJob

LEMMA OtherCopies ==
  ASSUME CopyInv, RestartWorker \/ Cancel PROVE Copied'
<1>1. UNCHANGED <<kept, docs, points, admins, live, bound, switch>>
  BY DEF RestartWorker, Cancel, JobUnchanged, copyVars, bindVars, accountVars
<1>2. job' = job \/ job' = [job EXCEPT !.cancel = TRUE]
  BY DEF RestartWorker, Cancel, copyVars
<1> QED
  BY <1>1, <1>2, Unwritten DEF CopyInv, Copied, Stays, Settled

LEMMA FailCopies ==
  ASSUME CopyInv, ScrollClosed \/ \E rows \in SUBSET job.rows : Fail(rows) PROVE Copied'
<1>0. job \in JobTypes
  BY JobFacts
<1>1. job'.pc = "idle" /\ job'.status = "failed"
  BY <1>0 DEF Fail, ScrollClosed, Stop, JobTypes
<1> QED
  BY <1>1, Over

-----------------------------------------------------------------------------
(* The steps of the job.                                                   *)

(* A job that goes on: the same servers, and what is kept of them.         *)
LEMMA StepFacts ==
  ASSUME CopyInv, NEW pc \in Steps \ {"idle"}, JobStep(pc)
  PROVE  /\ job.pc = pc /\ Running /\ Settled /\ live = job.source
         /\ job.source \in Servers /\ job.target \in Servers /\ job.source # job.target
         /\ job.target \in Targets
         /\ UNCHANGED <<live, kept, clean, bound, switch, broken>> /\ Settled'
<1>1. job.pc = pc /\ UNCHANGED <<live, kept, clean, bound, switch, broken>>
  BY DEF JobStep, JobUnchanged, bindVars
<1>2. Running /\ job.source \in Servers /\ job.target \in Servers
  BY <1>1, JobFacts
<1>3. Settled /\ live = job.source /\ job.source # job.target /\ job.target \in Targets
  BY <1>2 DEF CopyInv, Apart, Copied, Stays, JobNamed
<1> QED
  BY <1>1, <1>2, <1>3 DEF Settled

LEMMA GoesOn ==
  ASSUME CopyInv, NEW pc \in Steps \ {"idle"}, JobStep(pc),
         job'.status = "running", job'.source = job.source, job'.target = job.target,
         docs' = docs \/ \E x : docs' = [docs EXCEPT ![job.target] = x],
         points' = points \/ \E p : points' = [points EXCEPT ![job.target] = @ \cup {p}],
         admins' = admins \/ \E x : admins' = [admins EXCEPT ![job.target] = x]
  PROVE  JobNamed' /\ Stays' /\ Stored'
<1>1. /\ Running /\ live = job.source
      /\ job.source \in Servers /\ job.target \in Servers /\ job.source # job.target
      /\ job.target \in Targets
      /\ UNCHANGED <<live, kept, bound>> /\ Settled'
  BY StepFacts
<1>2. /\ docs \in [Servers -> SUBSET Docs] /\ points \in [Servers -> SUBSET Docs]
      /\ admins \in [Servers -> [Users -> Accounts]]
  BY JobFacts
<1>3. /\ docs'[job.source] = docs[job.source] /\ admins'[job.source] = admins[job.source]
      /\ \A v \in Servers : points[v] \subseteq points'[v]
  BY <1>1, <1>2
<1>4. JobNamed' /\ Stays'
  BY <1>1 DEF JobNamed, Stays
<1>5. /\ kept.docs \subseteq docs[job.source]
      /\ \A u \in kept.admins : Exists(admins[job.source], u)
      /\ kept.points \subseteq IF bound.qdrant \in Servers THEN points[bound.qdrant] ELSE {}
  BY <1>1 DEF CopyInv, Copied, Stored
<1>6. Stored'
  BY <1>1, <1>3, <1>5 DEF Stored
<1> QED
  BY <1>4, <1>6

LEMMA EarlyCopies ==
  ASSUME CopyInv, Bootstrap \/ CountRows \/ CancelTables PROVE Copied'
<1>0. job \in JobTypes /\ kept \in KeptTypes /\ Place
  BY JobFacts DEF CopyInv, Copied
<1>1. CASE CancelTables
  <2>1. job'.pc = "idle" /\ job'.status = "cancelled"
    BY <1>0, <1>1 DEF CancelTables, Stop, JobTypes
  <2> QED
    BY <2>1, Over
<1>2. CASE Bootstrap
  <2>1. CASE job.cancel
    <3>1. job'.pc = "idle" /\ job'.status = "cancelled"
      BY <1>0, <1>2, <2>1 DEF Bootstrap, Stop, JobTypes
    <3> QED
      BY <3>1, Over
  <2>2. CASE ~job.cancel
    <3>1. "bootstrap" \in Steps \ {"idle"} /\ JobStep("bootstrap") /\ job.pc = "bootstrap"
      BY <1>2 DEF Bootstrap, Steps, JobStep
    <3>2. /\ job'.pc = "count" /\ job'.status = job.status /\ job'.source = job.source
          /\ job'.target = job.target /\ job'.offset = job.offset
      BY <1>0, <1>2, <2>2 DEF Bootstrap, To, JobTypes
    <3>3. job.status = "running"
      BY <3>1, StepFacts DEF Running
    <3>4. JobNamed' /\ Stays' /\ Stored'
      BY <1>2, <3>1, <3>2, <3>3, GoesOn DEF Bootstrap
    <3>5. Place' /\ TablesCopied' /\ RowsRead' /\ PointsRead'
      BY <1>0, <3>1, <3>2, <3>3
      DEF Place, TablesCopied, RowsRead, PointsRead, Done, Early, AtTables, Later
    <3> QED
      BY <3>4, <3>5 DEF Copied
  <2> QED
    BY <2>1, <2>2
<1>3. CASE CountRows
  <2>1. "count" \in Steps \ {"idle"} /\ JobStep("count") /\ job.pc = "count"
    BY <1>3 DEF CountRows, Steps, JobStep
  <2>2. /\ Running /\ live = job.source /\ live \in Servers /\ UNCHANGED kept
    BY <2>1, StepFacts
  <2> DEFINE empty == {t \in {"admins", "docs"} : Rows(t, live) = {}}
  <2>3. /\ job'.pc = "tables" /\ job'.status = job.status /\ job'.source = job.source
        /\ job'.target = job.target /\ job'.offset = job.offset
        /\ job'.rest = Tables /\ job'.empty = empty
    BY <1>0, <1>3 DEF CountRows, JobTypes
  <2>4. JobNamed' /\ Stays' /\ Stored'
    BY <1>3, <2>1, <2>2, <2>3, GoesOn DEF CountRows, Running
  <2>5. "docs" \in empty => kept.docs = {}
    BY <2>2 DEF Rows, CopyInv, Copied, Stored
  <2>6. "admins" \in empty => kept.admins = {}
    <3>1. AccountTypeOK
      BY DEF CopyInv, MigrationInv, AccountInv
    <3>2. \A u \in kept.admins : u \in Users /\ Exists(admins[live], u)
      BY <1>0, <2>2 DEF CopyInv, Copied, Stored, KeptTypes
    <3> QED
      BY <2>2, <3>1, <3>2, RowsOfAccounts
  <2>7. Place'
    <3> HIDE DEF empty
    <3> QED
      BY <1>0, <2>1, <2>2, <2>3, <2>5, <2>6 DEF Place, Early, AtTables, Rests
  <2>8. TablesCopied' /\ RowsRead' /\ PointsRead'
    BY <2>2, <2>3, TableOrder DEF TablesCopied, RowsRead, PointsRead, Done, AtTables, Later, Running
  <2> QED
    BY <2>4, <2>7, <2>8 DEF Copied
<1> QED
  BY <1>1, <1>2, <1>3

(* A table that was empty has nothing to copy; one that is read is read as *)
(* a whole, before the target's is emptied.                                *)
LEMMA BeginCopies ==
  ASSUME CopyInv, BeginTable PROVE Copied'
<1>0. /\ job \in JobTypes /\ kept \in KeptTypes /\ Place /\ TablesCopied
      /\ docs \in [Servers -> SUBSET Docs] /\ admins \in [Servers -> [Users -> Accounts]]
  BY JobFacts DEF CopyInv, Copied
<1>1. /\ "tables" \in Steps \ {"idle"} /\ JobStep("tables") /\ job.pc = "tables"
      /\ ~job.cancel /\ job.rest # <<>> /\ UNCHANGED points
  BY DEF BeginTable, Steps, JobStep
<1>2. /\ Running /\ live = job.source /\ UNCHANGED kept
      /\ job.source \in Servers /\ job.target \in Servers /\ job.source # job.target
  BY <1>1, StepFacts
<1>3. /\ job.offset = 0 /\ job.rest \in Rests
      /\ "docs" \in job.empty => kept.docs = {}
      /\ "admins" \in job.empty => kept.admins = {}
      /\ job.rest # Tables => AdminsCopied
  BY <1>0, <1>1 DEF Place, TablesCopied, Early, AtTables
<1>4. job.rest = Tables \/ job.rest = <<"docs">>
  BY <1>1, <1>3, TableOrder
<1>5. CASE Head(job.rest) \in job.empty
  <2>1. /\ job' = [job EXCEPT !.rest = Tail(job.rest)] /\ UNCHANGED <<admins, docs>>
    BY <1>5 DEF BeginTable
  <2>2. /\ job'.pc = "tables" /\ job'.status = job.status /\ job'.source = job.source
        /\ job'.target = job.target /\ job'.offset = 0
        /\ job'.rest = Tail(job.rest) /\ job'.empty = job.empty
    BY <1>0, <1>1, <1>3, <2>1 DEF JobTypes
  <2>3. JobNamed' /\ Stays' /\ Stored'
    BY <1>1, <1>2, <2>1, <2>2, GoesOn DEF Running
  <2>4. Place'
    BY <1>2, <1>3, <1>4, <2>2, TableOrder DEF Place, Early, AtTables, Rests
  <2>5. AdminsCopied' /\ (job'.rest = <<>> => DocsCopied')
    BY <1>2, <1>3, <1>4, <1>5, <2>1, <2>2, TableOrder DEF AdminsCopied, DocsCopied
  <2>6. TablesCopied' /\ RowsRead' /\ PointsRead'
    BY <1>2, <2>2, <2>5
    DEF TablesCopied, RowsRead, PointsRead, Done, AtTables, Later, Running
  <2> QED
    BY <2>3, <2>4, <2>6 DEF Copied
<1>6. CASE Head(job.rest) \notin job.empty
  <2> DEFINE t == Head(job.rest)
  <2>1. PutRows(t, {}) /\ job' = [job EXCEPT !.pc = "fill", !.rows = Rows(t, live)]
    BY <1>2, <1>6 DEF BeginTable
  <2>2. /\ job'.pc = "fill" /\ job'.status = job.status /\ job'.source = job.source
        /\ job'.target = job.target /\ job'.offset = 0
        /\ job'.rest = job.rest /\ job'.empty = job.empty /\ job'.rows = Rows(t, live)
    BY <1>0, <1>1, <1>3, <2>1 DEF JobTypes
  <2>3. /\ docs' = docs \/ \E x : docs' = [docs EXCEPT ![job.target] = x]
        /\ admins' = admins \/ \E x : admins' = [admins EXCEPT ![job.target] = x]
        /\ t = "docs" => admins' = admins
    BY <2>1 DEF PutRows
  <2>4. JobNamed' /\ Stays' /\ Stored'
    BY <1>1, <1>2, <2>2, <2>3, GoesOn DEF Running
  <2>5. Place'
    BY <1>2, <1>3, <2>2 DEF Place, Early, AtTables
  <2>6. /\ \A u \in kept.admins : u \in Users /\ Exists(admins[live], u)
        /\ kept.docs \subseteq docs[live]
    BY <1>0, <1>2 DEF CopyInv, Copied, Stored, KeptTypes
  <2>7. admins'[job.source] = admins[job.source]
    BY <1>0, <1>2, <2>3
  <2>8. job.rest = Tables => /\ OneRowEach(job'.rows)
                             /\ \A u \in kept'.admins : <<u, admins'[job'.source][u]>> \in job'.rows
    <3>1. AccountTypeOK
      BY DEF CopyInv, MigrationInv, AccountInv
    <3> QED
      BY <1>2, <2>2, <2>6, <2>7, <3>1, RowsOfAccounts, TableOrder
  <2>9. job.rest = <<"docs">> => kept'.docs \subseteq job'.rows
    BY <1>2, <2>2, <2>6, TableOrder DEF Rows
  <2>10. job.rest = <<"docs">> => AdminsCopied'
    BY <1>2, <1>3, <2>2, <2>3, TableOrder DEF AdminsCopied
  <2>11. TablesCopied' /\ RowsRead' /\ PointsRead'
    BY <1>1, <1>2, <1>4, <2>2, <2>8, <2>9, <2>10, TableOrder
    DEF TablesCopied, RowsRead, PointsRead, Done, AtTables, Later, Running
  <2> QED
    BY <2>4, <2>5, <2>11 DEF Copied
<1> QED
  BY <1>5, <1>6

(* Unless it is to end, the job puts all the rows that it read.            *)
LEMMA FillCopies ==
  ASSUME CopyInv, NEW rows \in SUBSET job.rows, FillTable(rows) PROVE Copied'
<1>0. /\ job \in JobTypes /\ kept \in KeptTypes /\ Place /\ TablesCopied /\ RowsRead
      /\ docs \in [Servers -> SUBSET Docs] /\ admins \in [Servers -> [Users -> Accounts]]
  BY JobFacts DEF CopyInv, Copied
<1>1. /\ "fill" \in Steps \ {"idle"} /\ JobStep("fill") /\ job.pc = "fill"
      /\ (~job.cancel => rows = job.rows) /\ UNCHANGED points
      /\ PutRows(Head(job.rest), rows)
  BY DEF FillTable, Steps, JobStep
<1>2. /\ Running /\ live = job.source /\ UNCHANGED kept
      /\ job.source \in Servers /\ job.target \in Servers /\ job.source # job.target
  BY <1>1, StepFacts
<1>3. /\ job.offset = 0 /\ job.rest \in Rests
      /\ "docs" \in job.empty => kept.docs = {}
      /\ "admins" \in job.empty => kept.admins = {}
  BY <1>0, <1>1 DEF Place, Early, AtTables
<1>4. job.rest = Tables \/ job.rest = <<"docs">>
  <2>1. job.rest # <<>>
    BY <1>1 DEF CopyInv, MigrationInv, JobTyped
  <2> QED
    BY <2>1, <1>3, TableOrder
<1>5. /\ job'.pc = "tables" /\ job'.status = job.status /\ job'.source = job.source
      /\ job'.target = job.target /\ job'.offset = 0 /\ job'.cancel = job.cancel
      /\ job'.rest = Tail(job.rest) /\ job'.empty = job.empty
  <2>1. job' = [job EXCEPT !.pc = "tables", !.rest = Tail(job.rest), !.rows = {}]
    BY DEF FillTable
  <2> QED
    BY <1>0, <1>3, <2>1 DEF JobTypes
<1>6. JobNamed' /\ Stays' /\ Stored'
  <2>1. /\ docs' = docs \/ \E x : docs' = [docs EXCEPT ![job.target] = x]
        /\ admins' = admins \/ \E x : admins' = [admins EXCEPT ![job.target] = x]
    BY <1>1 DEF PutRows
  <2> QED
    BY <1>1, <1>2, <1>5, <2>1, GoesOn DEF Running
<1>7. Place'
  BY <1>2, <1>3, <1>4, <1>5, TableOrder DEF Place, Early, AtTables, Rests
<1>8. ~job.cancel => AdminsCopied' /\ (job'.rest = <<>> => DocsCopied')
  <2> SUFFICES ASSUME ~job.cancel PROVE AdminsCopied' /\ (job'.rest = <<>> => DocsCopied')
    OBVIOUS
  <2>1. CASE job.rest = Tables
    <3>1. /\ OneRowEach(rows) /\ \A u \in kept.admins : <<u, admins[job.source][u]>> \in rows
      BY <1>0, <1>1, <2>1 DEF RowsRead
    <3>2. admins' = [admins EXCEPT ![job.target] = AccountsOf(rows)]
      BY <1>1, <2>1, TableOrder DEF PutRows
    <3>3. ASSUME NEW u \in kept.admins PROVE AccountsOf(rows)[u] = admins[job.source][u]
      <4>1. u \in Users
        BY <1>0 DEF KeptTypes
      <4> QED
        BY <3>1, <4>1, AccountOfRow
    <3>4. AdminsCopied'
      BY <1>0, <1>2, <1>5, <3>2, <3>3 DEF AdminsCopied
    <3> QED
      BY <1>5, <2>1, <3>4, TableOrder
  <2>2. CASE job.rest = <<"docs">>
    <3>1. docs' = [docs EXCEPT ![job.target] = rows] /\ UNCHANGED admins
      BY <1>1, <2>2, TableOrder DEF PutRows
    <3>2. AdminsCopied /\ kept.docs \subseteq rows
      BY <1>0, <1>1, <2>2, TableOrder DEF TablesCopied, RowsRead, AtTables
    <3> QED
      BY <1>0, <1>2, <1>5, <3>1, <3>2 DEF AdminsCopied, DocsCopied
  <2> QED
    BY <1>4, <2>1, <2>2
<1>9. TablesCopied' /\ RowsRead' /\ PointsRead'
  BY <1>2, <1>5, <1>8 DEF TablesCopied, RowsRead, PointsRead, Done, AtTables, Later, Running
<1> QED
  BY <1>6, <1>7, <1>9 DEF Copied

(* The scroll begins at the first point, and goes from each one to the     *)
(* next; what is added behind it was not kept.                             *)
LEMMA ScrollCopies ==
  ASSUME CopyInv, (\E fails \in BOOLEAN : CountPoints(fails)) \/ Scroll PROVE Copied'
<1>0. /\ job \in JobTypes /\ kept \in KeptTypes /\ Place /\ TablesCopied /\ PointsRead
      /\ points \in [Servers -> SUBSET Docs] /\ Docs \in SUBSET Nat
  BY JobFacts DEF CopyInv, Copied
<1>1. CASE \E fails \in BOOLEAN : CountPoints(fails)
  <2>1. /\ "tables" \in Steps \ {"idle"} /\ JobStep("tables") /\ job.pc = "tables"
        /\ ~job.cancel /\ job.rest = <<>> /\ UNCHANGED <<admins, docs, points>>
    BY <1>1 DEF CountPoints, Steps, JobStep
  <2>2. Running /\ UNCHANGED kept
    BY <2>1, StepFacts
  <2>3. /\ job'.pc = "scroll" /\ job'.status = job.status /\ job'.source = job.source
        /\ job'.target = job.target /\ job'.offset = 0
    <3>1. \E n : job' = [job EXCEPT !.pc = "scroll", !.srcCount = n]
      BY <1>1 DEF CountPoints
    <3>2. job.offset = 0
      BY <1>0, <2>1 DEF Place, Early
    <3> QED
      BY <1>0, <3>1, <3>2 DEF JobTypes
  <2>4. AdminsCopied /\ DocsCopied
    BY <1>0, <2>1, TableOrder DEF TablesCopied, AtTables
  <2>5. AdminsCopied' /\ DocsCopied'
    BY <2>1, <2>2, <2>3, <2>4 DEF AdminsCopied, DocsCopied
  <2>6. \A p \in kept.points : p >= 0
    BY <1>0 DEF KeptTypes
  <2>7. JobNamed' /\ Stays' /\ Stored'
    BY <2>1, <2>2, <2>3, GoesOn DEF Running
  <2>8. Place' /\ TablesCopied' /\ RowsRead' /\ PointsRead'
    BY <2>2, <2>3, <2>5, <2>6
    DEF Place, TablesCopied, RowsRead, PointsRead, Done, Early, AtTables, Later, Running
  <2> QED
    BY <2>7, <2>8 DEF Copied
<1>2. CASE Scroll
  <2> DEFINE ahead == IF bound.qdrant \in Servers
                      THEN {p \in points[bound.qdrant] : p >= job.offset} ELSE {}
             first == Min(ahead)
             next  == Min(ahead \ {first})
  <2>1. "scroll" \in Steps \ {"idle"} /\ JobStep("scroll") /\ UNCHANGED <<admins, docs>> /\ job.pc = "scroll"
    BY <1>2 DEF Scroll, Steps, JobStep
  <2>2. /\ Running /\ UNCHANGED kept /\ job.target \in Servers
    BY <2>1, StepFacts
  <2>3. AdminsCopied /\ DocsCopied /\ job.offset \in Nat
    BY <1>0, <2>1 DEF TablesCopied, Later, JobTypes
  <2>4. \A p \in kept.points : p \in points[job.target] \/ p \in ahead
    <3>1. kept.points \subseteq IF bound.qdrant \in Servers THEN points[bound.qdrant] ELSE {}
      BY <2>2 DEF CopyInv, Copied, Stored
    <3>2. \A p \in kept.points : p \in points[job.target] \/ p >= job.offset
      BY <1>0, <2>1 DEF PointsRead
    <3> QED
      BY <3>1, <3>2
  <2>5. ahead \in SUBSET Nat
    BY <1>0
  <2>6. ahead # {} => first \in ahead
    <3> HIDE DEF ahead
    <3> QED
      BY <2>5, LeastIsThere
  <2>7. ahead \ {first} # {} => next \in Nat /\ \A p \in ahead \ {first} : next =< p
    <3> HIDE DEF ahead, first
    <3>1. ahead \ {first} \in SUBSET Nat
      BY <2>5
    <3> QED
      BY <3>1, LeastIsThere
  <2>8. \/ ahead = {} /\ points' = points /\ job' = [job EXCEPT !.pc = "audit", !.rest = Tables]
        \/ /\ ahead = {first} /\ points' = [points EXCEPT ![job.target] = @ \cup {first}]
           /\ job' = [job EXCEPT !.pc = "audit", !.rest = Tables]
        \/ /\ ahead \ {first} # {} /\ points' = [points EXCEPT ![job.target] = @ \cup {first}]
           /\ job' = [job EXCEPT !.offset = next]
    <3>1. CASE ahead = {}
      BY <1>2, <3>1 DEF Scroll
    <3>2. CASE ahead # {}
      <4>1. points' = [points EXCEPT ![job.target] = @ \cup {first}]
        BY <1>2, <3>2 DEF Scroll
      <4>2. job' = IF ahead = {first} THEN [job EXCEPT !.pc = "audit", !.rest = Tables]
                                      ELSE [job EXCEPT !.offset = next]
        BY <1>2, <3>2 DEF Scroll
      <4>3. ahead \ {first} = {} => ahead = {first}
        <5> HIDE DEF ahead, first
        <5> QED
          BY <2>6, <3>2
      <4> HIDE DEF ahead, first, next
      <4> QED
        BY <4>1, <4>2, <4>3
    <3> QED
      BY <3>1, <3>2
  <2> HIDE DEF ahead, first, next
  <2>9. job'.status = job.status /\ job'.source = job.source /\ job'.target = job.target
    BY <1>0, <2>8 DEF JobTypes
  <2>10. /\ points' = points \/ \E p : points' = [points EXCEPT ![job.target] = @ \cup {p}]
         /\ points[job.target] \subseteq points'[job.target]
    BY <1>0, <2>2, <2>8
  <2>11. JobNamed' /\ Stays' /\ Stored'
    BY <2>1, <2>2, <2>9, <2>10, GoesOn DEF Running
  <2>12. AdminsCopied' /\ DocsCopied'
    BY <2>1, <2>2, <2>3, <2>9 DEF AdminsCopied, DocsCopied
  <2>13. CASE job' = [job EXCEPT !.pc = "audit", !.rest = Tables]
    <3>1. job'.pc = "audit" /\ job'.rest = Tables
      BY <1>0, <2>13 DEF JobTypes
    <3>2. kept.points \subseteq points'[job.target]
      <4>1. \/ ahead = {}
            \/ ahead = {first} /\ points' = [points EXCEPT ![job.target] = @ \cup {first}]
        <5>1. ASSUME job' = [job EXCEPT !.offset = next] PROVE FALSE
          BY <1>0, <2>1, <3>1, <5>1 DEF JobTypes
        <5> QED
          BY <2>8, <5>1
      <4> QED
        BY <1>0, <2>2, <2>4, <2>10, <4>1
    <3>3. PointsCopied'
      BY <2>2, <2>9, <3>2 DEF PointsCopied
    <3> QED
      BY <2>2, <2>9, <2>11, <2>12, <3>1, <3>3
      DEF Copied, Place, TablesCopied, RowsRead, PointsRead, Done, Early, AtTables, Later, Running, Rests
  <2>14. CASE /\ ahead \ {first} # {} /\ points' = [points EXCEPT ![job.target] = @ \cup {first}]
              /\ job' = [job EXCEPT !.offset = next]
    <3>1. job'.pc = "scroll" /\ job'.offset = next
      BY <1>0, <2>1, <2>14 DEF JobTypes
    <3>2. \A p \in kept.points : p \in points'[job.target] \/ p >= next
      <4>1. first \in points'[job.target] /\ points[job.target] \subseteq points'[job.target]
        BY <1>0, <2>2, <2>14
      <4>2. \A p \in ahead \ {first} : p >= next
        BY <2>5, <2>7, <2>14
      <4> QED
        BY <2>4, <4>1, <4>2
    <3> QED
      BY <2>2, <2>9, <2>11, <2>12, <3>1, <3>2
      DEF Copied, Place, TablesCopied, RowsRead, PointsRead, Done, Early, AtTables, Later, Running
  <2> QED
    BY <2>8, <2>13, <2>14
<1> QED
  BY <1>1, <1>2

LEMMA AuditCopies ==
  ASSUME CopyInv, Audit \/ Finish PROVE Copied'
<1>0. job \in JobTypes /\ kept \in KeptTypes /\ Place /\ TablesCopied /\ PointsRead
  BY JobFacts DEF CopyInv, Copied
<1>1. /\ "audit" \in Steps \ {"idle"} /\ JobStep("audit") /\ job.pc = "audit"
      /\ UNCHANGED <<admins, docs, points>>
  BY DEF Audit, Finish, Steps, JobStep
<1>2. /\ Running /\ UNCHANGED kept /\ job.target \in Targets /\ job.source \in Servers
  BY <1>1, StepFacts
<1>3. AdminsCopied /\ DocsCopied /\ PointsCopied
  BY <1>0, <1>1 DEF TablesCopied, PointsRead, Later
<1>4. job'.source = job.source /\ job'.target = job.target
  BY <1>0 DEF Audit, Finish, JobTypes
<1>5. AdminsCopied' /\ DocsCopied' /\ PointsCopied'
  BY <1>1, <1>2, <1>3, <1>4 DEF AdminsCopied, DocsCopied, PointsCopied
<1>6. CASE Audit
  <2>1. job.rest # <<>> /\ job.rest \in Rests
    BY <1>0, <1>1, <1>6 DEF Audit, Place
  <2>2. job'.pc = "audit" /\ job'.status = job.status /\ job'.rest = Tail(job.rest)
    BY <1>0, <1>1, <1>6 DEF Audit, JobTypes
  <2>3. JobNamed' /\ Stays' /\ Stored'
    BY <1>1, <1>2, <1>4, <2>2, GoesOn DEF Running
  <2>4. Place'
    BY <2>1, <2>2, TableOrder DEF Place, Early, AtTables, Rests
  <2> QED
    BY <1>2, <1>5, <2>2, <2>3, <2>4
    DEF Copied, TablesCopied, RowsRead, PointsRead, Done, AtTables, Running
<1>7. CASE Finish
  <2>1. job'.pc = "idle" /\ job'.status = "completed"
    BY <1>0, <1>7 DEF Finish, JobTypes
  <2> QED
    BY <1>2, <1>4, <1>5, <2>1
    DEF Copied, JobNamed, Stays, Stored, Place, TablesCopied, RowsRead, PointsRead, Done, Running,
        Early, AtTables, Later
<1> QED
  BY <1>6, <1>7

LEMMA WholeStart == Init => WholeInv
<1> SUFFICES ASSUME Init PROVE WholeInv
  OBVIOUS
<1>1. job = NoJob
  BY DEF Init, Started
<1> QED
  BY <1>1, MigrationStart DEF WholeInv, JobNamed, Stays, Apart, Running, Done, NoJob

LEMMA CopyStep ==
  ASSUME Patient, CopyInv, [Next]_vars PROVE Copied'
<1>1. CASE UNCHANGED vars
  <2>1. UNCHANGED <<kept, docs, points, admins, live, job, bound, switch>>
    BY <1>1 DEF vars, copyVars, bindVars, accountVars
  <2> QED
    BY <2>1, Unwritten DEF CopyInv, Copied, Stays, Settled
<1>2. WholeInv
  BY DEF CopyInv, Copied, WholeInv
<1>3. CASE Next
  BY <1>2, <1>3, ServingCopies, StartCopies, SwitchingCopies, RestartCopies, OtherCopies, FailCopies,
     EarlyCopies, BeginCopies, FillCopies, ScrollCopies, AuditCopies DEF Next, Copy
<1> QED
  BY <1>1, <1>3

(* Nothing but the start of another job, or of the process, gives a job    *)
(* other servers, and nothing else makes one run.                          *)
LEMMA SameJob ==
  ASSUME WholeInv, [Next]_vars, ~Restart, ~ \E t \in Targets : Start(t)
  PROVE  /\ job'.source = job.source /\ job'.target = job.target
         /\ Running \/ job'.status = job.status
<1>0. job \in JobTypes /\ (Running <=> job.pc # "idle")
  BY WholeFacts
<1>1. CASE Account \/ Write \/ RestartWorker \/ UNCHANGED vars
  BY <1>1 DEF Account, Watch, Write, AddRow, AddPoint, RemovePoint, RemoveRow, Corpus,
              RestartWorker, vars, copyVars
<1>2. CASE Cancel
  BY <1>0, <1>2 DEF Cancel, JobTypes
<1>3. CASE Bootstrap \/ CountRows \/ BeginTable \/ CancelTables \/ ScrollClosed \/ Audit \/ Finish
  BY <1>0, <1>3 DEF Bootstrap, CountRows, BeginTable, CancelTables, ScrollClosed, Audit, Finish,
                    Stop, To, JobStep, JobTypes
<1>4. CASE Scroll
  <2>1. \/ job' = [job EXCEPT !.pc = "audit", !.rest = Tables]
        \/ \E n : job' = [job EXCEPT !.offset = n]
    BY <1>4 DEF Scroll
  <2> QED
    BY <1>0, <1>4, <2>1 DEF Scroll, JobStep, JobTypes
<1>5. CASE \/ \E rows \in SUBSET job.rows : FillTable(rows) \/ Fail(rows)
           \/ \E fails \in BOOLEAN : CountPoints(fails)
  BY <1>0, <1>5 DEF FillTable, Fail, CountPoints, Stop, JobStep, JobTypes
<1>6. CASE \/ \E k \in Switchers : \/ Cutover(k) \/ Rollback(k) \/ Reload(k)
                                   \/ \E reachable \in BOOLEAN : Rebind(k, reachable)
                                   \/ \E late \in BOOLEAN : Raise(k, late)
           \/ Dial \/ \E v \in Servers, up \in BOOLEAN : Answer(v, up)
  <2>1. SwitchUnchanged
    BY <1>6 DEF Cutover, Rollback, Rewrite, Reload, Raise, Rebind, Dial, Answer
  <2> QED
    BY <2>1 DEF SwitchUnchanged, copyVars
<1> QED
  BY <1>1, <1>2, <1>3, <1>4, <1>5, <1>6 DEF Next, Copy

LEMMA Elsewhere ==
  ASSUME Account \/ Write \/ Cancel \/ (\E t \in Targets : Start(t)) \/ Copy
         \/ (\E rows \in SUBSET job.rows : Fail(rows)) \/ RestartWorker \/ UNCHANGED vars
  PROVE  UNCHANGED <<live, guarded, bound, switch, broken>>
<1>1. CASE Account
  BY <1>1
  DEF Account, Watch, bindVars, AccountNext, LoginRequest, Authenticate, Request, Lookup, Count,
      Save, Delete, Create, Reject, Login
<1>2. CASE Write
  BY <1>2 DEF Write, AddRow, AddPoint, RemovePoint, RemoveRow, Corpus, bindVars, accountVars
<1>3. CASE Cancel \/ \E t \in Targets : Start(t)
  BY <1>3 DEF Cancel, Start, JobUnchanged, bindVars, accountVars
<1>4. CASE Copy
  <2>1. \E pc \in Steps : JobStep(pc)
    BY <1>4 DEF Copy, Bootstrap, CountRows, BeginTable, CancelTables, FillTable, CountPoints,
                Scroll, ScrollClosed, Audit, Finish, Steps
  <2> QED
    BY <2>1 DEF JobStep, JobUnchanged, bindVars
<1>5. CASE \E rows \in SUBSET job.rows : Fail(rows)
  BY <1>5 DEF Fail, bindVars
<1>6. CASE RestartWorker \/ UNCHANGED vars
  BY <1>6 DEF RestartWorker, vars, bindVars, accountVars
<1> QED
  BY <1>1, <1>2, <1>3, <1>4, <1>5, <1>6

(* A job that runs, to whatever server, keeps the process where it is.     *)
LEMMA StaysStep ==
  ASSUME Patient, WholeInv, [Next]_vars, ~Restart, ~ \E t \in Targets : Start(t)
  PROVE  JobNamed' /\ Stays'
<1>1. /\ job'.source = job.source /\ job'.target = job.target
      /\ Running \/ job'.status = job.status
  BY SameJob
<1>2. JobNamed'
  BY <1>1 DEF JobNamed, WholeInv, Running, Done
<1>3. Running => UNCHANGED live /\ Settled'
  <2> SUFFICES ASSUME Running PROVE UNCHANGED live /\ Settled'
    OBVIOUS
  <2>1. Settled
    BY DEF WholeInv, Stays
  <2>2. CASE Account \/ Write \/ Cancel \/ Copy \/ (\E rows \in SUBSET job.rows : Fail(rows))
             \/ RestartWorker \/ UNCHANGED vars
    BY <2>1, <2>2, Elsewhere DEF Settled
  <2>3. ASSUME NEW k \in Switchers, Cutover(k) \/ Rollback(k) PROVE FALSE
    BY <2>3 DEF Cutover, Rollback, Rewrite, Running
  <2>4. ASSUME NEW k \in Switchers, \/ Reload(k)
                                    \/ \E reachable \in BOOLEAN : Rebind(k, reachable)
                                    \/ \E late \in BOOLEAN : Raise(k, late)
        PROVE  FALSE
    BY <2>1, <2>4 DEF Reload, Raise, Rebind, Settled
  <2>5. CASE Dial \/ \E v \in Servers, up \in BOOLEAN : Answer(v, up)
    BY <2>1, <2>5 DEF Dial, Answer, accountVars, Settled
  <2> QED
    BY <2>2, <2>3, <2>4, <2>5 DEF Next
<1> QED
  BY <1>1, <1>2, <1>3 DEF Stays, WholeInv, Running

LEMMA WholeStep ==
  ASSUME Patient PROVE WholeInv /\ [Next]_vars => WholeInv'
<1> SUFFICES ASSUME WholeInv, [Next]_vars PROVE WholeInv'
  OBVIOUS
<1>1. MigrationInv'
  BY MigrationStep DEF WholeInv
<1>2. CASE Restart \/ \E t \in Targets : Start(t)
  <2>1. Copied'
    BY <1>2, StartCopies, RestartCopies
  <2> QED
    BY <1>1, <2>1 DEF WholeInv, Copied
<1>3. CASE ~Restart /\ ~ \E t \in Targets : Start(t)
  <2>1. JobNamed' /\ Stays'
    BY <1>3, StaysStep
  <2>2. Apart' => Copied'
    <3>1. Apart' => Apart
      BY <1>3, SameJob DEF Apart
    <3>2. Apart => CopyInv
      BY DEF WholeInv, CopyInv
    <3> QED
      BY <3>1, <3>2, CopyStep
  <2> QED
    BY <1>1, <2>1, <2>2 DEF WholeInv
<1> QED
  BY <1>2, <1>3

(* A completed job to another server has copied every document, point and  *)
(* account that was there when it began and that nobody changed since,     *)
(* whatever was written, however often the job was started, cancelled or   *)
(* failed before, and whatever the target held (_run_migration).           *)
THEOREM CompletedIsCopied == ASSUME Patient PROVE Spec => []OldRowsCopied
<1>1. WholeInv => OldRowsCopied
  BY DEF WholeInv, Apart, Copied, TablesCopied, PointsRead, Done, AdminsCopied, DocsCopied,
         PointsCopied, OldRowsCopied
<1>2. WholeInv /\ [Next]_vars => WholeInv'
  BY WholeStep
<1> QED
  BY <1>1, <1>2, WholeStart, PTL DEF Spec

-----------------------------------------------------------------------------
(* The servers that the parts of the process use: the settings name the    *)
(* one that a switch goes to, and the process is there when it has ended.  *)
Aimed ==
  /\ OneSwitch /\ bound.env = bound.settings["database"]
  /\ "vectors" \in Named => bound.settings["vectors"] = bound.env
  /\ \A k \in Switchers : /\ switch[k].pc = "dispose" => switch[k].to = bound.env
                          /\ switch[k].pc = "redis" => live = bound.env
  /\ Settled /\ ~broken => live = bound.env
SameStore == live = bound.qdrant
OneStore  == bound.qdrant \in {live, "closed"}

(* A Qdrant that .env names, and that every reload reaches.                *)
Reached == "qdrant" \notin Faults /\ "vectors" \in Named

LEMMA AimedStep ==
  ASSUME Patient, WholeInv, Aimed, [Next]_vars
  PROVE  Aimed' /\ (OneStore /\ Reached => OneStore')
<1> DEFINE Goal == Aimed' /\ (OneStore /\ Reached => OneStore')
<1>0. bound \in BoundTypes /\ switch \in [Switchers -> SwitchTypes]
  BY WholeFacts DEF WholeInv, MigrationInv, BindTyped
<1>1. CASE UNCHANGED <<live, guarded, bound, switch, broken>>
  BY <1>1 DEF Aimed, OneStore, OneSwitch, Settled
<1>2. ASSUME NEW k \in Switchers, Cutover(k) \/ Rollback(k) PROVE Goal
  <2>0. PICK to, settings, rollback :
          /\ Rewrite(k, to, settings, rollback)
          /\ settings = AllOf(to) \/ settings = Restored(to)
    BY <1>2 DEF Cutover, Rollback
  <2>1. Settled /\ UNCHANGED <<live, broken>>
    BY <2>0 DEF Rewrite, accountVars
  <2>2. /\ settings["database"] = to
        /\ "vectors" \in Named => settings["vectors"] = to
    <3>1. /\ "database" \in NamedBy(to) /\ NamedBy(to) \subseteq Parts
          /\ "vectors" \in Named => "vectors" \in NamedBy(to)
      BY MigrationConstants DEF NamedBy, Parts
    <3>2. \A p \in NamedBy(to) : AllOf(to)[p] = to /\ Restored(to)[p] = to
      BY <3>1 DEF AllOf, Restored
    <3> QED
      BY <2>0, <3>1, <3>2
  <2>3. /\ bound'.env = to /\ bound'.settings = settings /\ bound'.qdrant = bound.qdrant
        /\ switch'[k] = [pc |-> "dispose", to |-> to]
        /\ \A o \in Switchers \ {k} : switch'[o] = switch[o]
    BY <1>0, <2>0, <2>2 DEF Rewrite, BoundTypes
  <2> QED
    BY <2>1, <2>2, <2>3 DEF Aimed, OneStore, OneSwitch, Settled
<1>3. ASSUME NEW k \in Switchers, NEW reachable \in BOOLEAN, Rebind(k, reachable) PROVE Goal
  <2>1. /\ switch[k].pc = "dispose" /\ live' = switch[k].to /\ UNCHANGED broken
        /\ Reached => reachable
    BY <1>3 DEF Rebind, Reached
  <2>2. /\ bound'.env = bound.env /\ bound'.settings = bound.settings
        /\ reachable => bound'.qdrant = bound.settings["vectors"]
    BY <1>0, <1>3 DEF Rebind, BoundTypes
  <2>3. /\ switch'[k].pc \in {"idle", "redis"}
        /\ \A o \in Switchers \ {k} : switch'[o] = switch[o]
    BY <1>0, <1>3 DEF Rebind, Idle, SwitchTypes
  <2>4. live' = bound.env
    BY <2>1 DEF Aimed
  <2>5. Aimed'
    BY <2>1, <2>2, <2>3, <2>4 DEF Aimed, OneSwitch, Settled
  <2> QED
    BY <2>1, <2>2, <2>4, <2>5 DEF Aimed, OneStore, Reached
<1>4. ASSUME NEW k \in Switchers, Reload(k) \/ \E late \in BOOLEAN : Raise(k, late) PROVE Goal
  <2>1. bound'.env = bound.env /\ bound'.settings = bound.settings
    BY <1>0, <1>4 DEF Reload, Raise, BoundTypes
  <2>2. /\ switch' = [switch EXCEPT ![k] = Idle]
        /\ (switch[k].pc = "redis" /\ broken' = broken /\ UNCHANGED live) \/ broken' = TRUE
    BY <1>4 DEF Reload, Raise, accountVars
  <2>3. switch'[k].pc = "idle" /\ \A o \in Switchers \ {k} : switch'[o] = switch[o]
    BY <1>0, <2>2 DEF Idle
  <2>4. switch[k].pc # "idle"
    BY <1>4 DEF Reload, Raise
  <2>5. Aimed'
    BY <2>1, <2>2, <2>3, <2>4 DEF Aimed, OneSwitch, Settled
  <2>6. bound'.qdrant = "closed" \/ (bound'.qdrant = bound.qdrant /\ UNCHANGED live)
    BY <1>0, <1>4 DEF Reload, Raise, BoundTypes, accountVars
  <2> QED
    BY <2>5, <2>6 DEF OneStore
<1>5. ASSUME Dial \/ \E v \in Servers, up \in BOOLEAN : Answer(v, up) PROVE Goal
  <2>1. /\ bound'.env = bound.env /\ bound'.settings = bound.settings
        /\ bound'.qdrant = bound.qdrant
    BY <1>0, <1>5 DEF Dial, Answer, BoundTypes
  <2>2. UNCHANGED <<live, switch, broken>>
    BY <1>5 DEF Dial, Answer, accountVars
  <2> QED
    BY <2>1, <2>2 DEF Aimed, OneStore, OneSwitch, Settled
<1>6. CASE Restart
  <2>1. live' = bound.env /\ switch' = [k \in Switchers |-> Idle]
    BY <1>6 DEF Restart
  <2>2. /\ bound'.env = bound.env /\ bound'.settings = AllOf(bound.env)
        /\ bound'.qdrant = bound.env
    BY <1>0, <1>6 DEF Restart, BoundTypes
  <2>3. bound'.settings["database"] = bound.env /\ bound'.settings["vectors"] = bound.env
    BY <2>2 DEF AllOf, Parts
  <2> QED
    BY <2>1, <2>2, <2>3 DEF Aimed, OneStore, OneSwitch, Idle
<1> HIDE DEF Goal
<1>7. Goal
  BY <1>1, <1>2, <1>3, <1>4, <1>5, <1>6, Elsewhere DEF Next, Goal
<1> QED
  BY <1>7 DEF Goal

-----------------------------------------------------------------------------
(* The report.  As long as nobody writes, what is kept is all there is,    *)
(* and a table that is copied is the same on both servers.                 *)
SameAdminRows == admins[job.target] = admins[job.source]
SameDocs   == docs[job.target] = docs[job.source]

Whole ==
  clean /\ (Running \/ Done) =>
    /\ kept.docs = docs[job.source] /\ kept.points = points[job.source]
    /\ kept.admins = {u \in Users : Exists(admins[job.source], u)}
SameTables ==
  clean =>
    /\ AtTables /\ ~job.cancel => /\ job.rest # Tables /\ "admins" \notin job.empty => SameAdminRows
                                  /\ job.rest = <<>> /\ "docs" \notin job.empty => SameDocs
    /\ Later => /\ "admins" \notin job.empty => SameAdminRows
                /\ "docs" \notin job.empty => SameDocs
                /\ "admins" \in job.empty => kept.admins = {}
                /\ "docs" \in job.empty => kept.docs = {}
SameRows ==
  clean /\ job.pc = "fill" /\ ~job.cancel =>
    /\ job.rest = Tables => job.rows = Rows("admins", job.source)
    /\ job.rest = <<"docs">> => job.rows = docs[job.source]
SameCount == clean /\ Later => job.srcCount \in {0, Cardinality(points[job.source])}
Audited ==
  clean /\ job.pc = "audit" /\ job.match => /\ job.rest # Tables => SameAdminRows
                                            /\ job.rest = <<>> => SameDocs
Reported == job.report = "match" => Done

Even      == Whole /\ SameTables /\ SameRows /\ SameCount /\ Audited /\ Reported /\ ParityIsEquality

(* A job that finds the client closed fails before it reports.             *)
Doomed == bound.qdrant = "closed" /\ Running /\ job.pc # "audit" /\ job.report # "match"
ParityInv == WholeInv /\ Aimed /\ OneStore
             /\ (Apart => Doomed \/ (Even /\ (Running => SameStore)))

(* Somebody writes, or nothing is written.                                 *)
LEMMA EvenBeside ==
  ASSUME CopyInv, Even,
         clean' => /\ clean /\ UNCHANGED <<docs, points, admins>>
                   /\ kept'.docs = kept.docs /\ kept'.points = kept.points
                   /\ kept'.admins = kept.admins,
         job' = job \/ job' = [job EXCEPT !.cancel = TRUE]
  PROVE  Even'
<1>0. job \in JobTypes
  BY JobFacts
<1>1. /\ job'.pc = job.pc /\ job'.status = job.status /\ job'.source = job.source
      /\ job'.target = job.target /\ job'.rest = job.rest /\ job'.empty = job.empty
      /\ job'.rows = job.rows /\ job'.srcCount = job.srcCount /\ job'.match = job.match
      /\ job'.report = job.report
      /\ ~job'.cancel => ~job.cancel
  BY <1>0 DEF JobTypes
<1>2. Whole' /\ Reported' /\ ParityIsEquality'
  BY <1>1 DEF Even, Whole, Reported, ParityIsEquality, Running, Done
<1>3. clean' => SameAdminRows' = SameAdminRows /\ SameDocs' = SameDocs
  BY <1>1 DEF SameAdminRows, SameDocs
<1>4. SameTables' /\ Audited'
  BY <1>1, <1>3 DEF Even, SameTables, Audited, AtTables, Later
<1>5. SameRows' /\ SameCount'
  BY <1>1 DEF Even, SameRows, SameCount, Rows, Later
<1> QED
  BY <1>2, <1>4, <1>5 DEF Even

LEMMA EvenOver ==
  ASSUME job'.pc = "idle", job'.status \notin {"running", "completed"}, job'.report # "match"
  PROVE  Even'
BY DEF Even, Whole, SameTables, SameRows, SameCount, Audited, Reported, ParityIsEquality,
       Running, Done, AtTables, Later

LEMMA ServingEven ==
  ASSUME CopyInv, Even,
         \/ Account \/ Write \/ Cancel \/ RestartWorker
         \/ \E k \in Switchers : \/ Cutover(k) \/ Rollback(k) \/ Reload(k)
                                 \/ \E reachable \in BOOLEAN : Rebind(k, reachable)
                                 \/ \E late \in BOOLEAN : Raise(k, late)
         \/ Dial \/ \E v \in Servers, up \in BOOLEAN : Answer(v, up)
  PROVE  Even'
<1>0. kept \in KeptTypes
  BY JobFacts
<1>1. CASE Account
  <2>1. /\ kept' = [kept EXCEPT !.admins = {u \in @ : \A v \in Servers : admins'[v][u] = admins[v][u]}]
        /\ clean' = (clean /\ admins' = admins)
        /\ UNCHANGED <<docs, points, job>>
    BY <1>1 DEF Account, Watch
  <2>2. clean' => clean /\ admins' = admins
    BY <2>1
  <2>3. admins' = admins => /\ kept'.docs = kept.docs /\ kept'.points = kept.points
                            /\ kept'.admins = kept.admins
    BY <1>0, <2>1 DEF KeptTypes
  <2> QED
    BY <2>1, <2>2, <2>3, EvenBeside
<1>2. CASE Write
  <2>1. clean' = FALSE /\ UNCHANGED job
    BY <1>2 DEF Write, AddRow, AddPoint, RemovePoint, RemoveRow, Corpus
  <2> QED
    BY <2>1, EvenBeside
<1>3. CASE Cancel \/ RestartWorker
  <2>1. UNCHANGED <<docs, points, admins, kept, clean>>
    BY <1>3 DEF Cancel, RestartWorker, copyVars, accountVars
  <2>2. job' = job \/ job' = [job EXCEPT !.cancel = TRUE]
    BY <1>3 DEF Cancel, RestartWorker, copyVars
  <2> QED
    BY <2>1, <2>2, EvenBeside
<1>4. ASSUME SwitchUnchanged, UNCHANGED admins PROVE Even'
  BY <1>4, EvenBeside DEF SwitchUnchanged, copyVars
<1>5. ASSUME NEW k \in Switchers, \/ Cutover(k) \/ Rollback(k) \/ Reload(k)
                                  \/ \E late \in BOOLEAN : Raise(k, late)
      PROVE  Even'
  BY <1>4, <1>5 DEF Cutover, Rollback, Rewrite, Reload, Raise, accountVars
<1>6. ASSUME NEW k \in Switchers, NEW reachable \in BOOLEAN, Rebind(k, reachable)
      PROVE  Even'
  BY <1>4, <1>6 DEF Rebind
<1>7. ASSUME Dial \/ \E v \in Servers, up \in BOOLEAN : Answer(v, up)
      PROVE  Even'
  BY <1>4, <1>7 DEF Dial, Answer, accountVars
<1> QED
  BY <1>1, <1>2, <1>3, <1>5, <1>6, <1>7

LEMMA StartEven ==
  ASSUME WholeInv, SameStore, NEW t \in Targets, Start(t) PROVE Even'
<1>0. live \in Servers
  BY WholeFacts
<1>1. job' = [NoJob EXCEPT !.pc = "bootstrap", !.status = "running", !.source = live, !.target = t]
  BY DEF Start
<1>2. /\ job'.pc = "bootstrap" /\ job'.status = "running" /\ job'.source = live
      /\ job'.report = "none"
  BY <1>1 DEF NoJob
<1>3. UNCHANGED <<admins, docs, points>>
  BY DEF Start, accountVars
<1>4. /\ kept'.docs = docs[live] /\ kept'.admins = {u \in Users : Exists(admins[live], u)}
      /\ kept'.points = points[live]
  BY <1>0 DEF Start, SameStore
<1>5. Whole'
  BY <1>2, <1>3, <1>4 DEF Whole
<1> QED
  BY <1>2, <1>5
  DEF Even, SameTables, SameRows, SameCount, Audited, Reported, ParityIsEquality, Done, AtTables, Later

LEMMA FailEven ==
  ASSUME CopyInv, Even, ScrollClosed \/ \E rows \in SUBSET job.rows : Fail(rows) PROVE Even'
<1>0. job \in JobTypes /\ (Running <=> job.pc # "idle")
  BY JobFacts
<1>1. job' = [job EXCEPT !.pc = "idle", !.status = "failed"] /\ job.pc # "idle"
  BY DEF Fail, ScrollClosed, JobStep, Stop
<1>2. job'.pc = "idle" /\ job'.status = "failed" /\ job'.report = job.report
  BY <1>0, <1>1 DEF JobTypes
<1>3. job.report # "match"
  BY <1>0, <1>1 DEF Even, Reported, Running, Done
<1> QED
  BY <1>2, <1>3, EvenOver

(* The job writes to its target only, and has reported nothing yet.        *)
LEMMA EvenGoesOn ==
  ASSUME CopyInv, Even, NEW pc \in Steps \ {"idle"}, JobStep(pc),
         job'.status = "running", job'.source = job.source, job'.target = job.target,
         job'.report = job.report,
         docs' = docs \/ \E x : docs' = [docs EXCEPT ![job.target] = x],
         points' = points \/ \E p : points' = [points EXCEPT ![job.target] = @ \cup {p}],
         admins' = admins \/ \E x : admins' = [admins EXCEPT ![job.target] = x]
  PROVE  Whole' /\ Reported' /\ ParityIsEquality'
<1>1. /\ Running /\ job.source \in Servers /\ job.target \in Servers /\ job.source # job.target
      /\ UNCHANGED <<kept, clean>>
  BY StepFacts
<1>2. /\ docs \in [Servers -> SUBSET Docs] /\ points \in [Servers -> SUBSET Docs]
      /\ admins \in [Servers -> [Users -> Accounts]]
  BY JobFacts
<1>3. /\ docs'[job.source] = docs[job.source] /\ admins'[job.source] = admins[job.source]
      /\ points'[job.source] = points[job.source]
  BY <1>1, <1>2
<1>4. job.report # "match"
  BY <1>1 DEF Even, Reported, Running, Done
<1> QED
  BY <1>1, <1>3, <1>4 DEF Even, Whole, Reported, ParityIsEquality, Running

LEMMA EarlyEven ==
  ASSUME CopyInv, Even, Bootstrap \/ CountRows \/ CancelTables PROVE Even'
<1>0. /\ job \in JobTypes /\ Running /\ job.report # "match"
      /\ UNCHANGED <<docs, points, admins>>
  <2>1. Running
    BY JobFacts DEF Bootstrap, CountRows, CancelTables, JobStep
  <2> QED
    BY <2>1, JobFacts DEF Bootstrap, CountRows, CancelTables, Even, Reported, Running, Done
<1>1. CASE CancelTables \/ (Bootstrap /\ job.cancel)
  <2>1. job' = [job EXCEPT !.pc = "idle", !.status = "cancelled"]
    BY <1>1 DEF CancelTables, Bootstrap, Stop
  <2>2. job'.pc = "idle" /\ job'.status = "cancelled" /\ job'.report = job.report
    BY <1>0, <2>1 DEF JobTypes
  <2> QED
    BY <1>0, <2>2, EvenOver
<1>2. CASE CountRows \/ (Bootstrap /\ ~job.cancel)
  <2>1. PICK pc \in Steps \ {"idle"} : JobStep(pc)
    BY <1>2 DEF CountRows, Bootstrap, Steps
  <2>2. /\ job'.status = job.status /\ job'.source = job.source /\ job'.target = job.target
        /\ job'.report = job.report /\ job'.pc \in {"count", "tables"}
        /\ job'.pc = "tables" => job'.rest = Tables
    BY <1>0, <1>2 DEF CountRows, Bootstrap, To, JobTypes
  <2>3. Whole' /\ Reported' /\ ParityIsEquality'
    BY <1>0, <2>1, <2>2, EvenGoesOn DEF Running
  <2>4. SameTables' /\ SameRows' /\ SameCount' /\ Audited'
    BY <2>2, TableOrder DEF SameTables, SameRows, SameCount, Audited, AtTables, Later
  <2> QED
    BY <2>3, <2>4 DEF Even
<1> QED
  BY <1>1, <1>2

(* A table that is skipped is read no more; one that is read is read whole.*)
LEMMA BeginEven ==
  ASSUME CopyInv, Even, BeginTable PROVE Even'
<1>0. /\ job \in JobTypes /\ docs \in [Servers -> SUBSET Docs] /\ admins \in [Servers -> [Users -> Accounts]]
      /\ SameTables
  BY JobFacts DEF Even
<1>1. /\ "tables" \in Steps \ {"idle"} /\ JobStep("tables") /\ job.pc = "tables"
      /\ ~job.cancel /\ job.rest # <<>> /\ UNCHANGED points
  BY DEF BeginTable, Steps, JobStep
<1>2. /\ Running /\ live = job.source /\ UNCHANGED <<kept, clean>>
      /\ job.source \in Servers /\ job.target \in Servers /\ job.source # job.target
  BY <1>1, StepFacts
<1>3. job.rest = Tables \/ job.rest = <<"docs">>
  <2>1. job.rest \in Rests
    BY <1>1 DEF CopyInv, Copied, Place, AtTables
  <2> QED
    BY <1>1, <2>1, TableOrder
<1>5. CASE Head(job.rest) \in job.empty
  <2>1. /\ job' = [job EXCEPT !.rest = Tail(job.rest)] /\ UNCHANGED <<admins, docs>>
    BY <1>5 DEF BeginTable
  <2>2. /\ job'.pc = "tables" /\ job'.status = job.status /\ job'.source = job.source
        /\ job'.target = job.target /\ job'.report = job.report
        /\ job'.rest = Tail(job.rest) /\ job'.empty = job.empty
    BY <1>0, <1>1, <2>1 DEF JobTypes
  <2>3. Whole' /\ Reported' /\ ParityIsEquality'
    BY <1>1, <1>2, <2>1, <2>2, EvenGoesOn DEF Running
  <2>4. SameTables'
    BY <1>0, <1>1, <1>2, <1>3, <1>5, <2>1, <2>2, TableOrder
    DEF SameTables, SameAdminRows, SameDocs, AtTables, Later
  <2> QED
    BY <2>2, <2>3, <2>4 DEF Even, SameRows, SameCount, Audited, Later
<1>6. CASE Head(job.rest) \notin job.empty
  <2> DEFINE t == Head(job.rest)
  <2>1. PutRows(t, {}) /\ job' = [job EXCEPT !.pc = "fill", !.rows = Rows(t, live)]
    BY <1>2, <1>6 DEF BeginTable
  <2>2. /\ job'.pc = "fill" /\ job'.status = job.status /\ job'.source = job.source
        /\ job'.target = job.target /\ job'.report = job.report
        /\ job'.rest = job.rest /\ job'.empty = job.empty /\ job'.rows = Rows(t, live)
    BY <1>0, <1>1, <2>1 DEF JobTypes
  <2>3. /\ docs' = docs \/ \E x : docs' = [docs EXCEPT ![job.target] = x]
        /\ admins' = admins \/ \E x : admins' = [admins EXCEPT ![job.target] = x]
        /\ t = "docs" => admins' = admins
    BY <2>1 DEF PutRows
  <2>4. Whole' /\ Reported' /\ ParityIsEquality'
    BY <1>1, <1>2, <2>2, <2>3, EvenGoesOn DEF Running
  <2>5. SameTables'
    BY <1>0, <1>1, <1>2, <1>3, <2>2, <2>3, TableOrder
    DEF SameTables, SameAdminRows, SameDocs, AtTables, Later
  <2>6. admins'[job.source] = admins[job.source] /\ docs'[job.source] = docs[job.source]
    BY <1>0, <1>2, <2>3
  <2>7. SameRows'
    BY <1>2, <2>2, <2>6, TableOrder DEF SameRows, Rows
  <2> QED
    BY <2>2, <2>4, <2>5, <2>7 DEF Even, SameCount, Audited, Later
<1> QED
  BY <1>5, <1>6

LEMMA FillEven ==
  ASSUME CopyInv, Even, NEW rows \in SUBSET job.rows, FillTable(rows) PROVE Even'
<1>0. /\ job \in JobTypes /\ SameTables /\ SameRows
      /\ docs \in [Servers -> SUBSET Docs] /\ admins \in [Servers -> [Users -> Accounts]]
  BY JobFacts DEF Even
<1>1. /\ "fill" \in Steps \ {"idle"} /\ JobStep("fill") /\ job.pc = "fill"
      /\ (~job.cancel => rows = job.rows) /\ UNCHANGED points
      /\ PutRows(Head(job.rest), rows)
  BY DEF FillTable, Steps, JobStep
<1>2. /\ Running /\ live = job.source /\ UNCHANGED <<kept, clean>>
      /\ job.source \in Servers /\ job.target \in Servers /\ job.source # job.target
  BY <1>1, StepFacts
<1>3. job.rest = Tables \/ job.rest = <<"docs">>
  <2>1. job.rest \in Rests /\ job.rest # <<>>
    BY <1>1 DEF CopyInv, Copied, Place, AtTables, MigrationInv, JobTyped
  <2> QED
    BY <2>1, TableOrder
<1>4. /\ job'.pc = "tables" /\ job'.status = job.status /\ job'.source = job.source
      /\ job'.target = job.target /\ job'.report = job.report /\ job'.cancel = job.cancel
      /\ job'.rest = Tail(job.rest) /\ job'.empty = job.empty
  <2>1. job' = [job EXCEPT !.pc = "tables", !.rest = Tail(job.rest), !.rows = {}]
    BY DEF FillTable
  <2> QED
    BY <1>0, <2>1 DEF JobTypes
<1>5. Whole' /\ Reported' /\ ParityIsEquality'
  <2>1. /\ docs' = docs \/ \E x : docs' = [docs EXCEPT ![job.target] = x]
        /\ admins' = admins \/ \E x : admins' = [admins EXCEPT ![job.target] = x]
    BY <1>1 DEF PutRows
  <2> QED
    BY <1>1, <1>2, <1>4, <2>1, EvenGoesOn DEF Running
<1>6. clean /\ ~job.cancel =>
        /\ job.rest = Tables => SameAdminRows'
        /\ job.rest = <<"docs">> => SameDocs' /\ ("admins" \notin job.empty => SameAdminRows')
  <2> SUFFICES ASSUME clean, ~job.cancel
               PROVE  /\ job.rest = Tables => SameAdminRows'
                      /\ job.rest = <<"docs">> => SameDocs' /\ ("admins" \notin job.empty => SameAdminRows')
    OBVIOUS
  <2>1. CASE job.rest = Tables
    <3>1. rows = Rows("admins", job.source)
      BY <1>0, <1>1, <2>1 DEF SameRows
    <3>2. admins' = [admins EXCEPT ![job.target] = AccountsOf(rows)]
      BY <1>1, <2>1, TableOrder DEF PutRows
    <3>3. ASSUME NEW u \in Users PROVE AccountsOf(rows)[u] = admins[job.source][u]
      <4>0. AccountTypeOK
        BY DEF CopyInv, MigrationInv, AccountInv
      <4>1. CASE Exists(admins[job.source], u)
        BY <1>2, <3>1, <4>0, <4>1, RowsOfAccounts, AccountOfRow
      <4>2. CASE ~Exists(admins[job.source], u)
        <5>1. ~ \E r \in rows : r[1] = u
          BY <3>1, <4>2 DEF Rows
        <5>2. AccountsOf(rows)[u] = Absent
          BY <5>1 DEF AccountsOf
        <5>3. admins[job.source][u] \in Accounts /\ admins[job.source][u].role = "none"
          BY <1>0, <1>2, <4>2 DEF Exists
        <5> QED
          BY <5>2, <5>3 DEF Accounts, Roles
      <4> QED
        BY <4>1, <4>2
    <3>4. AccountsOf(rows) = admins[job.source]
      BY <1>0, <1>2, <3>3 DEF AccountsOf
    <3>5. SameAdminRows'
      BY <1>0, <1>2, <1>4, <3>2, <3>4 DEF SameAdminRows
    <3> QED
      BY <2>1, <3>5, TableOrder
  <2>2. CASE job.rest = <<"docs">>
    <3>1. docs' = [docs EXCEPT ![job.target] = rows] /\ UNCHANGED admins
      BY <1>1, <2>2, TableOrder DEF PutRows
    <3>2. rows = docs[job.source]
      BY <1>0, <1>1, <2>2 DEF SameRows
    <3>3. "admins" \notin job.empty => SameAdminRows
      BY <1>0, <1>1, <2>2, TableOrder DEF SameTables, AtTables
    <3> QED
      BY <1>0, <1>2, <1>4, <2>2, <3>1, <3>2, <3>3, TableOrder DEF SameAdminRows, SameDocs
  <2> QED
    BY <1>3, <2>1, <2>2
<1>7. SameTables'
  BY <1>2, <1>3, <1>4, <1>6, TableOrder DEF SameTables, AtTables, Later
<1> QED
  BY <1>4, <1>5, <1>7 DEF Even, SameRows, SameCount, Audited, Later

LEMMA ScrollEven ==
  ASSUME CopyInv, SameStore, Even, (\E fails \in BOOLEAN : CountPoints(fails)) \/ Scroll
  PROVE  Even'
<1>0. /\ job \in JobTypes /\ points \in [Servers -> SUBSET Docs] /\ SameTables /\ SameCount
  BY JobFacts DEF Even
<1>1. CASE \E fails \in BOOLEAN : CountPoints(fails)
  <2>1. /\ "tables" \in Steps \ {"idle"} /\ JobStep("tables") /\ job.pc = "tables"
        /\ ~job.cancel /\ job.rest = <<>> /\ UNCHANGED <<admins, docs, points>>
    BY <1>1 DEF CountPoints, Steps, JobStep
  <2>2. Running /\ live = job.source /\ UNCHANGED <<kept, clean>>
    BY <2>1, StepFacts
  <2>3. PICK n \in {0, Cardinality(points[job.source])} :
          job' = [job EXCEPT !.pc = "scroll", !.srcCount = n]
    BY <1>1, <2>2 DEF CountPoints, SameStore
  <2>4. /\ job'.pc = "scroll" /\ job'.status = job.status /\ job'.source = job.source
        /\ job'.target = job.target /\ job'.report = job.report /\ job'.empty = job.empty
        /\ job'.srcCount = n
    BY <1>0, <2>3 DEF JobTypes
  <2>5. Whole' /\ Reported' /\ ParityIsEquality'
    BY <2>1, <2>2, <2>4, EvenGoesOn DEF Running
  <2>6. /\ "docs" \in job.empty => kept.docs = {}
        /\ "admins" \in job.empty => kept.admins = {}
    BY <2>1 DEF CopyInv, Copied, Place, AtTables
  <2>7. SameTables'
    BY <1>0, <2>1, <2>2, <2>4, <2>6, TableOrder
    DEF SameTables, SameAdminRows, SameDocs, AtTables, Later
  <2>8. SameCount' /\ SameRows' /\ Audited'
    BY <2>1, <2>3, <2>4 DEF SameCount, SameRows, Audited
  <2> QED
    BY <2>5, <2>7, <2>8 DEF Even
<1>2. CASE Scroll
  <2>1. "scroll" \in Steps \ {"idle"} /\ JobStep("scroll") /\ UNCHANGED <<admins, docs>> /\ job.pc = "scroll"
    BY <1>2 DEF Scroll, Steps, JobStep
  <2>2. /\ Running /\ UNCHANGED <<kept, clean>>
        /\ job.source \in Servers /\ job.target \in Servers /\ job.source # job.target
    BY <2>1, StepFacts
  <2>3. /\ points' = points \/ \E p : points' = [points EXCEPT ![job.target] = @ \cup {p}]
        /\ \/ job' = [job EXCEPT !.pc = "audit", !.rest = Tables]
           \/ \E n : job' = [job EXCEPT !.offset = n]
    <3> DEFINE ahead == IF bound.qdrant \in Servers
                        THEN {p \in points[bound.qdrant] : p >= job.offset} ELSE {}
    <3>1. CASE ahead = {}
      BY <1>2, <3>1 DEF Scroll
    <3>2. CASE ahead # {}
      <4>1. points' = [points EXCEPT ![job.target] = @ \cup {Min(ahead)}]
        BY <1>2, <3>2 DEF Scroll
      <4>2. job' = IF ahead = {Min(ahead)} THEN [job EXCEPT !.pc = "audit", !.rest = Tables]
                   ELSE [job EXCEPT !.offset = Min(ahead \ {Min(ahead)})]
        BY <1>2, <3>2 DEF Scroll
      <4> HIDE DEF ahead
      <4> QED
        BY <4>1, <4>2
    <3> QED
      BY <3>1, <3>2
  <2>4. /\ job'.pc \in {"scroll", "audit"} /\ job'.status = job.status /\ job'.source = job.source
        /\ job'.target = job.target /\ job'.report = job.report /\ job'.empty = job.empty
        /\ job'.srcCount = job.srcCount
        /\ job'.pc = "audit" => job'.rest = Tables
    BY <1>0, <2>1, <2>3 DEF JobTypes
  <2>5. Whole' /\ Reported' /\ ParityIsEquality'
    BY <2>1, <2>2, <2>3, <2>4, EvenGoesOn DEF Running
  <2>6. SameTables'
    BY <1>0, <2>1, <2>2, <2>4
    DEF SameTables, SameAdminRows, SameDocs, AtTables, Later
  <2>7. points'[job.source] = points[job.source]
    BY <1>0, <2>2, <2>3
  <2>8. SameCount'
    BY <1>0, <2>1, <2>2, <2>4, <2>7 DEF SameCount, Later
  <2>9. SameRows' /\ Audited'
    BY <2>4, TableOrder DEF SameRows, Audited
  <2> QED
    BY <2>5, <2>6, <2>8, <2>9 DEF Even
<1> QED
  BY <1>1, <1>2

(* Two servers of which one has no accounts, and the other as many.        *)
LEMMA NoAccounts ==
  ASSUME AccountTypeOK, NEW v \in Servers, NEW w \in Servers,
         ~ \E u \in Users : Exists(admins[v], u),
         Cardinality(Rows("admins", v)) = Cardinality(Rows("admins", w))
  PROVE  admins[w] = admins[v]
<1>1. Rows("admins", v) = {}
  BY RowsOfAccounts
<1>2. IsFiniteSet(Rows("admins", w))
  <2> DEFINE there == {u \in Users : Exists(admins[w], u)}
  <2>1. IsFiniteSet(there)
    BY AccountConstants, FS_Subset
  <2> DEFINE rows == {<<u, admins[w][u]>> : u \in there}
             row  == [u \in there |-> <<u, admins[w][u]>>]
  <2>2. row \in Surjection(there, rows)
    BY DEF Surjection
  <2>3. IsFiniteSet(rows)
    <3> HIDE DEF there, rows, row
    <3> QED
      BY <2>1, <2>2, FS_Surjection
  <2> QED
    BY <2>3 DEF Rows
<1>3. Rows("admins", w) = {}
  BY <1>1, <1>2, FS_EmptySet
<1>4. ~ \E u \in Users : Exists(admins[w], u)
  BY <1>3, RowsOfAccounts
<1>5. ASSUME NEW u \in Users, NEW x \in {v, w} PROVE admins[x][u] = Absent
  BY <1>4, <1>5 DEF Exists, AccountTypeOK, Accounts, Roles
<1> QED
  BY <1>5 DEF AccountTypeOK

LEMMA AuditEven ==
  ASSUME CopyInv, Even, Audit PROVE Even'
<1>0. /\ job \in JobTypes /\ docs \in [Servers -> SUBSET Docs] /\ Even /\ AccountTypeOK
  BY JobFacts DEF CopyInv, MigrationInv, AccountInv
<1>1. /\ "audit" \in Steps \ {"idle"} /\ JobStep("audit") /\ job.pc = "audit" /\ job.rest # <<>>
      /\ UNCHANGED <<admins, docs, points>>
  BY DEF Audit, Steps, JobStep
<1>2. /\ Running /\ live = job.source /\ UNCHANGED <<kept, clean>>
      /\ job.source \in Servers /\ job.target \in Servers
  BY <1>1, StepFacts
<1>3. job.rest = Tables \/ job.rest = <<"docs">>
  <2>1. job.rest \in Rests
    BY <1>1 DEF CopyInv, Copied, Place
  <2> QED
    BY <1>1, <2>1, TableOrder
<1>4. /\ job'.pc = "audit" /\ job'.status = job.status /\ job'.source = job.source
      /\ job'.target = job.target /\ job'.report = job.report /\ job'.rest = Tail(job.rest)
      /\ job'.empty = job.empty /\ job'.srcCount = job.srcCount
      /\ job'.match = (job.match /\ Cardinality(Rows(Head(job.rest), live))
                                      = Cardinality(Rows(Head(job.rest), job.target)))
  <2>1. job' = [job EXCEPT !.rest = Tail(@),
                  !.match = @ /\ Cardinality(Rows(Head(job.rest), live))
                                   = Cardinality(Rows(Head(job.rest), job.target))]
    BY DEF Audit
  <2> QED
    BY <1>0, <1>1, <2>1, Zenon DEF JobTypes
<1>5. Whole' /\ Reported' /\ ParityIsEquality'
  BY <1>1, <1>2, <1>4, EvenGoesOn DEF Running
<1>6. SameTables' /\ SameRows' /\ SameCount'
  BY <1>0, <1>1, <1>2, <1>4
  DEF Even, SameTables, SameRows, SameCount, SameAdminRows, SameDocs, AtTables, Later
<1>7. clean /\ job'.match =>
        /\ job.rest = Tables => SameAdminRows
        /\ job.rest = <<"docs">> => SameAdminRows /\ SameDocs
  <2> SUFFICES ASSUME clean, job'.match
               PROVE  /\ job.rest = Tables => SameAdminRows
                      /\ job.rest = <<"docs">> => SameAdminRows /\ SameDocs
    OBVIOUS
  <2>1. /\ job.match
        /\ Cardinality(Rows(Head(job.rest), job.source)) = Cardinality(Rows(Head(job.rest), job.target))
    BY <1>2, <1>4
  <2>2. /\ "admins" \notin job.empty => SameAdminRows
        /\ "docs" \notin job.empty => SameDocs
        /\ "admins" \in job.empty => kept.admins = {}
        /\ "docs" \in job.empty => kept.docs = {}
    BY <1>0, <1>1 DEF Even, SameTables, Later
  <2>3. kept.docs = docs[job.source] /\ kept.admins = {u \in Users : Exists(admins[job.source], u)}
    BY <1>0, <1>2 DEF Even, Whole
  <2>4. CASE job.rest = Tables
    <3>1. CASE "admins" \in job.empty
      <4>1. ~ \E u \in Users : Exists(admins[job.source], u)
        BY <2>2, <2>3, <3>1
      <4> QED
        BY <1>0, <1>2, <2>1, <2>4, <4>1, NoAccounts, TableOrder DEF SameAdminRows
    <3> QED
      BY <2>2, <2>4, <3>1, TableOrder
  <2>5. CASE job.rest = <<"docs">>
    <3>1. SameAdminRows
      BY <1>0, <1>1, <2>1, <2>5, TableOrder DEF Even, Audited
    <3>2. CASE "docs" \in job.empty
      <4>1. docs[job.source] = {} /\ IsFiniteSet(docs[job.target])
        BY <1>0, <1>2, <2>2, <2>3, <3>2, MigrationConstants, FS_Subset
      <4>2. Cardinality(docs[job.source]) = Cardinality(docs[job.target])
        BY <2>1, <2>5, TableOrder DEF Rows
      <4> QED
        BY <2>5, <3>1, <4>1, <4>2, FS_EmptySet, TableOrder DEF SameDocs
    <3> QED
      BY <2>2, <2>5, <3>1, <3>2, TableOrder
  <2> QED
    BY <1>3, <2>4, <2>5
<1>8. Audited'
  BY <1>1, <1>2, <1>3, <1>4, <1>7, TableOrder DEF Audited, SameAdminRows, SameDocs
<1> QED
  BY <1>5, <1>6, <1>8 DEF Even

(* The points of the source are among those of the target; when they are   *)
(* as many, they are the same.                                             *)
LEMMA FinishEven ==
  ASSUME CopyInv, Even, Finish PROVE Even'
<1>0. /\ job \in JobTypes /\ points \in [Servers -> SUBSET Docs] /\ Even
  BY JobFacts
<1>1. /\ "audit" \in Steps \ {"idle"} /\ JobStep("audit") /\ job.pc = "audit" /\ job.rest = <<>>
      /\ UNCHANGED <<admins, docs, points>>
  BY DEF Finish, Steps, JobStep
<1>2. /\ Running /\ UNCHANGED <<kept, clean>>
      /\ job.source \in Servers /\ job.target \in Servers
  BY <1>1, StepFacts
<1>3. /\ job'.pc = "idle" /\ job'.status = "completed" /\ job'.source = job.source
      /\ job'.target = job.target
      /\ job'.report = "match" => job.match /\ job.srcCount = Cardinality(points[job.target])
  <2>1. job' = [job EXCEPT !.pc = "idle", !.status = "completed",
                  !.report = IF job.match /\ job.srcCount = Cardinality(points[job.target])
                             THEN "match" ELSE "mismatch"]
    BY DEF Finish
  <2> QED
    BY <1>0, <2>1 DEF JobTypes
<1>4. clean => /\ kept.docs = docs[job.source] /\ kept.points = points[job.source]
               /\ kept.admins = {u \in Users : Exists(admins[job.source], u)}
  BY <1>0, <1>2 DEF Even, Whole
<1>5. Whole' /\ Reported'
  BY <1>1, <1>2, <1>3, <1>4 DEF Whole, Reported, Done
<1>6. clean /\ job'.report = "match" => SameAdminRows /\ SameDocs
  BY <1>0, <1>1, <1>3, TableOrder DEF Even, Audited
<1>7. clean /\ job'.report = "match" => points[job.source] = points[job.target]
  <2> SUFFICES ASSUME clean, job'.report = "match" PROVE points[job.source] = points[job.target]
    OBVIOUS
  <2>1. points[job.source] \subseteq points[job.target]
    BY <1>1, <1>4 DEF CopyInv, Copied, PointsRead, PointsCopied
  <2>2. IsFiniteSet(points[job.source]) /\ IsFiniteSet(points[job.target])
    BY <1>0, <1>2, MigrationConstants, FS_Subset
  <2>3. Cardinality(points[job.target]) \in {0, Cardinality(points[job.source])}
    BY <1>0, <1>1, <1>3 DEF Even, SameCount, Later
  <2>4. CASE Cardinality(points[job.target]) = 0
    BY <2>1, <2>2, <2>4, FS_EmptySet
  <2>5. CASE Cardinality(points[job.target]) = Cardinality(points[job.source])
    BY <2>1, <2>2, <2>5, FS_Subset
  <2> QED
    BY <2>3, <2>4, <2>5
<1>8. ParityIsEquality'
  BY <1>1, <1>2, <1>3, <1>6, <1>7 DEF ParityIsEquality, SameAdminRows, SameDocs
<1> QED
  BY <1>3, <1>5, <1>8 DEF Even, SameTables, SameRows, SameCount, Audited, AtTables, Later

LEMMA ParityStart == Init => ParityInv
<1> SUFFICES ASSUME Init PROVE ParityInv
  OBVIOUS
<1>1. PICK rows \in [Users -> Accounts] : Started(rows)
  BY DEF Init
<1>2. /\ job = NoJob /\ live = Source /\ switch = [k \in Switchers |-> Idle]
      /\ bound.env = Source /\ bound.settings = AllOf(Source) /\ bound.qdrant = Source
  BY <1>1 DEF Started, AccountInit
<1>3. bound.settings["database"] = Source /\ bound.settings["vectors"] = Source
  BY <1>2 DEF AllOf, Parts
<1>4. Aimed /\ OneStore
  BY <1>2, <1>3 DEF Aimed, OneStore, OneSwitch, Idle
<1>5. ~Apart
  BY <1>2 DEF Apart, NoJob
<1> QED
  BY <1>4, <1>5, WholeStart DEF ParityInv

(* While a job runs, the client of Qdrant is the same.                     *)
LEMMA StoreStays ==
  ASSUME WholeInv, Running, [Next]_vars, ~Restart
  PROVE  UNCHANGED live /\ bound'.qdrant = bound.qdrant
<1>0. Settled /\ bound \in BoundTypes
  BY WholeFacts DEF WholeInv, Stays
<1>1. CASE Account \/ Write \/ Cancel \/ (\E t \in Targets : Start(t)) \/ Copy
           \/ (\E rows \in SUBSET job.rows : Fail(rows)) \/ RestartWorker \/ UNCHANGED vars
  BY <1>1, Elsewhere
<1>2. ASSUME NEW k \in Switchers, Cutover(k) \/ Rollback(k)
      PROVE  UNCHANGED live /\ bound'.qdrant = bound.qdrant
  BY <1>0, <1>2 DEF Cutover, Rollback, Rewrite, BoundTypes, accountVars
<1>3. ASSUME NEW k \in Switchers, \/ Reload(k)
                                  \/ \E reachable \in BOOLEAN : Rebind(k, reachable)
                                  \/ \E late \in BOOLEAN : Raise(k, late)
      PROVE  FALSE
  BY <1>0, <1>3 DEF Reload, Raise, Rebind, Settled
<1>4. CASE Dial \/ \E v \in Servers, up \in BOOLEAN : Answer(v, up)
  BY <1>0, <1>4 DEF Dial, Answer, accountVars, BoundTypes
<1> QED
  BY <1>1, <1>2, <1>3, <1>4 DEF Next

LEMMA DoomedStep ==
  ASSUME CopyInv, WholeInv, Doomed, [Next]_vars, ~Restart, ~ \E t \in Targets : Start(t)
  PROVE  Doomed' \/ (Even' /\ ~Running')
<1> DEFINE Same == job'.status = "running" /\ job'.pc # "audit" /\ job'.report # "match"
           Stopped == /\ job'.pc = "idle" /\ job'.status \notin {"running", "completed"}
                      /\ job'.report # "match"
<1>0. job \in JobTypes /\ job.status = "running" /\ job.pc # "audit" /\ job.report # "match"
      /\ bound.qdrant = "closed"
  BY JobFacts DEF Doomed, Running
<1>1. ASSUME Account \/ Write \/ Cancel \/ RestartWorker \/ UNCHANGED vars
      PROVE  Same \/ Stopped
  <2>1. job' = job \/ job' = [job EXCEPT !.cancel = TRUE]
    BY <1>1 DEF Account, Watch, Write, AddRow, AddPoint, RemovePoint, RemoveRow, Corpus, Cancel,
                RestartWorker, vars, copyVars
  <2> QED
    BY <1>0, <2>1 DEF JobTypes
<1>2. ASSUME Bootstrap \/ CountRows \/ BeginTable \/ CancelTables \/ ScrollClosed
           \/ \E rows \in SUBSET job.rows : Fail(rows)
      PROVE  Same \/ Stopped
  BY <1>0, <1>2 DEF Bootstrap, CountRows, BeginTable, CancelTables, ScrollClosed, Fail, Stop, To,
                    JobStep, JobTypes
<1>3. ASSUME \/ \E rows \in SUBSET job.rows : FillTable(rows)
           \/ \E fails \in BOOLEAN : CountPoints(fails)
      PROVE  Same \/ Stopped
  BY <1>0, <1>3 DEF FillTable, CountPoints, JobStep, JobTypes
<1>4. ASSUME Scroll \/ Audit \/ Finish PROVE Same \/ Stopped
  BY <1>0, <1>4 DEF Scroll, Audit, Finish, JobStep
<1>5. ASSUME \/ \E k \in Switchers : \/ Cutover(k) \/ Rollback(k) \/ Reload(k)
                                   \/ \E reachable \in BOOLEAN : Rebind(k, reachable)
                                   \/ \E late \in BOOLEAN : Raise(k, late)
           \/ Dial \/ \E v \in Servers, up \in BOOLEAN : Answer(v, up)
      PROVE  Same \/ Stopped
  <2>1. SwitchUnchanged
    BY <1>5 DEF Cutover, Rollback, Rewrite, Reload, Raise, Rebind, Dial, Answer
  <2> QED
    BY <1>0, <2>1 DEF SwitchUnchanged, copyVars
<1> HIDE DEF Same, Stopped
<1>6. Same \/ Stopped
  BY <1>1, <1>2, <1>3, <1>4, <1>5 DEF Next, Copy, Same, Stopped
<1>7. CASE Same
  BY <1>0, <1>7, StoreStays DEF Same, Doomed, Running
<1>8. CASE Stopped
  BY <1>8, EvenOver DEF Stopped, Running
<1> QED
  BY <1>6, <1>7, <1>8

(* A job to another server is compared; one to the server in use is equal  *)
(* to itself.                                                              *)
LEMMA ParityStep ==
  ASSUME Patient, Reached PROVE ParityInv /\ [Next]_vars => ParityInv'
<1> SUFFICES ASSUME ParityInv, [Next]_vars PROVE ParityInv'
  OBVIOUS
<1>1. WholeInv' /\ Aimed' /\ OneStore'
  BY WholeStep, AimedStep DEF ParityInv
<1>2. CASE Restart
  <2>1. ~Apart'
    BY <1>2 DEF Restart, Apart, NoJob
  <2> QED
    BY <1>1, <2>1 DEF ParityInv
<1>3. CASE \E t \in Targets : Start(t)
  <2>0. PICK t \in Targets : Start(t)
    BY <1>3
  <2>1. /\ job' = [NoJob EXCEPT !.pc = "bootstrap", !.status = "running", !.source = live,
                               !.target = t]
        /\ UNCHANGED <<live, bound>>
    BY <2>0, Elsewhere DEF Start
  <2>2. CASE SameStore
    <3>1. Even' /\ SameStore'
      BY <2>0, <2>1, <2>2, StartEven DEF ParityInv, SameStore
    <3> QED
      BY <1>1, <3>1 DEF ParityInv
  <2>3. CASE ~SameStore
    <3>1. Doomed'
      BY <2>1, <2>3 DEF ParityInv, OneStore, SameStore, Doomed, Running, NoJob
    <3> QED
      BY <1>1, <3>1 DEF ParityInv
  <2> QED
    BY <2>2, <2>3
<1>4. CASE ~Restart /\ ~ \E t \in Targets : Start(t)
  <2> SUFFICES ASSUME Apart' PROVE Doomed' \/ (Even' /\ (Running' => SameStore'))
    BY <1>1 DEF ParityInv
  <2>1. Apart
    BY <1>4, SameJob DEF Apart, ParityInv
  <2>2. CopyInv /\ WholeInv /\ (Doomed \/ (Even /\ (Running => SameStore)))
    BY <2>1 DEF ParityInv, WholeInv, CopyInv
  <2>3. CASE Doomed
    BY <1>4, <2>2, <2>3, DoomedStep
  <2>4. CASE Even /\ (Running => SameStore)
    <3>1. CASE UNCHANGED vars
      <4>1. UNCHANGED <<kept, clean, docs, points, admins, job>>
        BY <3>1 DEF vars, copyVars, accountVars
      <4> QED
        BY <2>2, <2>4, <3>1, <4>1, EvenBeside DEF vars, bindVars, accountVars, Running, SameStore
    <3>2. CASE Next
      <4>1. (\E fails \in BOOLEAN : CountPoints(fails)) \/ Scroll => SameStore
        BY <2>2, <2>4, JobFacts DEF CountPoints, Scroll, JobStep
      <4>2. Even'
        BY <1>4, <2>2, <2>4, <3>2, <4>1, ServingEven, FailEven, EarlyEven, BeginEven, FillEven,
           ScrollEven, AuditEven, FinishEven DEF Next, Copy
      <4>3. Running' => Running
        BY <1>4, <2>2, SameJob DEF Running
      <4>4. Running' => SameStore'
        BY <1>4, <2>2, <2>4, <4>3, StoreStays DEF SameStore
      <4> QED
        BY <4>2, <4>4
    <3> QED
      BY <3>1, <3>2
  <2> QED
    BY <2>2, <2>3, <2>4
<1> QED
  BY <1>2, <1>3, <1>4

(* A report of full parity, when nothing was written since the job began,  *)
(* means that accounts, documents and points of the two servers are the    *)
(* same, not only as many (_run_migration).  It is a comparison of the     *)
(* server in use: a reload that found no Qdrant, or an .env that names     *)
(* none, leaves other points to compare.                                   *)
THEOREM ReportIsRight ==
  ASSUME Patient, "qdrant" \notin Faults, "vectors" \in Named
  PROVE  Spec => []ParityIsEquality
<1>1. ParityInv => ParityIsEquality
  BY DEF ParityInv, Apart, Doomed, Even, ParityIsEquality
<1>2. ParityInv /\ [Next]_vars => ParityInv'
  BY ParityStep DEF Reached
<1> QED
  BY <1>1, <1>2, ParityStart, PTL DEF Spec

-----------------------------------------------------------------------------
(* The server that the process is bound to.  There is one target, so that  *)
(* a job copies the database that the process started on, or is aimed at   *)
(* the server in use.                                                      *)
OneTarget == \A t, u \in Targets : t = u

Home   == guarded /\ live = Source /\ ~broken
Filled == \/ AtTables /\ ~job.cancel /\ job.rest # Tables
          \/ Later \/ Done

(* After a job to the server in use there is no way back to the source but *)
(* a rollback, and after a cutover to that server none at all.             *)
Around == /\ {bound.env, live} \subseteq {Source} \cup Targets
          /\ {bound.rollback, job.source} \subseteq {None, Source} \cup Targets
          /\ bound.rollback \in Targets => bound.env \in Targets /\ live \in Targets
          /\ job.source \in Targets /\ bound.env \in Targets => live \in Targets
(* As long as it is there, its requests are, and the accounts that a job   *)
(* has copied have a superadmin, as the source has; so has the server that *)
(* .env names when a switch is under way.                                  *)
AtHome == Home =>
  /\ \A s \in Sessions : request[s].at = Source
  /\ AtTables => "admins" \notin job.empty
  /\ job.pc = "fill" /\ ~job.cancel /\ job.rest = Tables =>
       \E u \in Users, a \in Accounts : /\ <<u, a>> \in job.rows
                                        /\ a.role = "superadmin" /\ a.active
  /\ Filled => Superadmins(admins[job.target]) # {}
  /\ bound.env # Source => Superadmins(admins[bound.env]) # {}

BindingInv == WholeInv /\ Aimed /\ Reported /\ Around /\ AtHome

LEMMA ReportedStep ==
  ASSUME WholeInv, Reported, [Next]_vars PROVE Reported'
<1>0. job \in JobTypes /\ (Running <=> job.pc # "idle")
  BY WholeFacts
<1>1. ASSUME job'.report = job.report, job'.status = job.status PROVE Reported'
  BY <1>1 DEF Reported, Done
<1>2. ASSUME Running, job'.report = job.report PROVE Reported'
  BY <1>2 DEF Reported, Done, Running
<1>3. CASE Account \/ Write \/ RestartWorker \/ UNCHANGED vars
  BY <1>1, <1>3 DEF Account, Watch, Write, AddRow, AddPoint, RemovePoint, RemoveRow, Corpus,
                    RestartWorker, vars, copyVars
<1>4. CASE Cancel
  <2>1. job'.report = job.report /\ job'.status = job.status
    BY <1>0, <1>4 DEF Cancel, JobTypes
  <2> QED
    BY <1>1, <2>1
<1>5. ASSUME NEW t \in Targets, Start(t) PROVE Reported'
  <2>1. job'.report = "none"
    BY <1>5 DEF Start, NoJob
  <2> QED
    BY <2>1 DEF Reported
<1>6. CASE Restart
  <2>1. job'.report = "none"
    BY <1>6 DEF Restart, NoJob
  <2> QED
    BY <2>1 DEF Reported
<1>7. CASE Finish
  <2>1. job'.status = "completed"
    BY <1>0, <1>7 DEF Finish, JobTypes
  <2> QED
    BY <2>1 DEF Reported, Done
<1>8. CASE Bootstrap \/ CountRows \/ BeginTable \/ CancelTables \/ ScrollClosed \/ Audit
  <2>1. Running
    BY <1>0, <1>8 DEF Bootstrap, CountRows, BeginTable, CancelTables, ScrollClosed, Audit, JobStep
  <2>2. job'.report = job.report
    BY <1>0, <1>8 DEF Bootstrap, CountRows, BeginTable, CancelTables, ScrollClosed, Audit, Stop, To,
                      JobTypes
  <2> QED
    BY <1>2, <2>1, <2>2
<1>9. CASE Scroll
  <2>1. Running
    BY <1>0, <1>9 DEF Scroll, JobStep
  <2>2. job'.report = job.report
    <3>1. \/ job' = [job EXCEPT !.pc = "audit", !.rest = Tables]
          \/ \E n : job' = [job EXCEPT !.offset = n]
      BY <1>9 DEF Scroll
    <3> QED
      BY <1>0, <3>1 DEF JobTypes
  <2> QED
    BY <1>2, <2>1, <2>2
<1>10. ASSUME \/ \E rows \in SUBSET job.rows : FillTable(rows) \/ Fail(rows)
              \/ \E fails \in BOOLEAN : CountPoints(fails)
       PROVE  Reported'
  <2>1. Running
    BY <1>0, <1>10 DEF FillTable, Fail, CountPoints, JobStep
  <2>2. job'.report = job.report
    BY <1>0, <1>10 DEF FillTable, Fail, CountPoints, Stop, JobTypes
  <2> QED
    BY <1>2, <2>1, <2>2
<1>11. ASSUME NEW k \in Switchers, \/ Cutover(k) \/ Rollback(k) \/ Reload(k)
                                   \/ \E reachable \in BOOLEAN : Rebind(k, reachable)
                                   \/ \E late \in BOOLEAN : Raise(k, late)
       PROVE  Reported'
  BY <1>1, <1>11 DEF Cutover, Rollback, Rewrite, Reload, Raise, Rebind, SwitchUnchanged, copyVars
<1>12. CASE Dial \/ \E v \in Servers, up \in BOOLEAN : Answer(v, up)
  BY <1>1, <1>12 DEF Dial, Answer, SwitchUnchanged, copyVars
<1> QED
  BY <1>3, <1>4, <1>5, <1>6, <1>7, <1>8, <1>9, <1>10, <1>11, <1>12 DEF Next, Copy

(* Requests that were made at the source change the accounts of the source.*)
LEMMA RequestsAtHome ==
  ASSUME AccountTypeOK, live = Source, \A s \in Sessions : request[s].at = Source, AccountNext
  PROVE  /\ \A s \in Sessions : request'[s].at = Source
         /\ \A v \in Servers \ {Source} : admins'[v] = admins[v]
<1> DEFINE Goal == /\ \A s \in Sessions : request'[s].at = Source
                   /\ \A v \in Servers \ {Source} : admins'[v] = admins[v]
<1>0. /\ request \in [Sessions -> Requests] /\ admins \in [Servers -> [Users -> Accounts]]
      /\ NoRequest.at = Source
  BY DEF AccountTypeOK, NoRequest
<1>1. ASSUME NEW s \in Sessions, NEW r, request' = [request EXCEPT ![s] = r], r.at = Source
      PROVE  \A o \in Sessions : request'[o].at = Source
  BY <1>0, <1>1
<1>2. ASSUME NEW s \in Sessions, End(s) PROVE \A o \in Sessions : request'[o].at = Source
  BY <1>0, <1>1, <1>2 DEF End
<1>3. ASSUME NEW s \in Sessions, NEW row, Put(s, row) PROVE \A v \in Servers \ {Source} : admins'[v] = admins[v]
  BY <1>0, <1>3 DEF Put
<1>4. ASSUME NEW s \in Sessions, NEW u \in Users, LoginRequest(s, u) PROVE Goal
  BY <1>0, <1>4 DEF LoginRequest, NoRequest
<1>5. ASSUME NEW s \in Sessions, NEW u, NEW call, NEW t, NEW w, Authenticate(s, u, call, t, w) PROVE Goal
  BY <1>0, <1>5 DEF Authenticate
<1>6. ASSUME NEW s \in Sessions, Lookup(s) \/ Count(s) PROVE Goal
  <2>1. UNCHANGED admins
    BY <1>6 DEF Lookup, Count
  <2>2. \/ End(s)
        \/ \E row, pc : request' = [request EXCEPT ![s].seen = row, ![s].pc = pc]
        \/ request' = [request EXCEPT ![s].pc = "write"]
    BY <1>6 DEF Lookup, Count
  <2>3. \A o \in Sessions : request'[o].at = Source
    BY <1>0, <1>2, <2>2 DEF Requests
  <2> QED
    BY <2>1, <2>3
<1>7. ASSUME NEW s \in Sessions, Save(s) \/ Delete(s) \/ Create(s) \/ Reject(s)
                                \/ \E right \in BOOLEAN : Login(s, right)
      PROVE  Goal
  <2>1. End(s)
    BY <1>7 DEF Save, Delete, Create, Reject, Login
  <2>2. UNCHANGED admins \/ \E row : Put(s, row)
    BY <1>7 DEF Save, Delete, Create, Reject, Login
  <2> QED
    BY <1>2, <1>3, <2>1, <2>2
<1> QED
  BY <1>4, <1>5, <1>6, <1>7 DEF AccountNext, Request

LEMMA AroundStep ==
  ASSUME Patient, BindingInv, [Next]_vars PROVE Around'
<1>0. /\ bound \in BoundTypes /\ job \in JobTypes /\ live \in Servers /\ Around /\ Aimed
      /\ None \notin Servers /\ Targets \subseteq Servers \ {Source}
  BY WholeFacts, MigrationConstants DEF BindingInv
<1>1. CASE Restart
  <2>1. bound'.env = bound.env /\ bound'.rollback = bound.rollback
    BY <1>0, <1>1 DEF Restart, BoundTypes
  <2>2. live' = bound.env /\ job'.source = None
    BY <1>1 DEF Restart, NoJob
  <2> QED
    BY <1>0, <2>1, <2>2 DEF Around
<1>2. ASSUME NEW t \in Targets, Start(t) PROVE Around'
  <2>1. UNCHANGED <<live, bound>>
    BY <1>2, Elsewhere
  <2>2. job'.source = live
    BY <1>2 DEF Start, NoJob
  <2> QED
    BY <1>0, <2>1, <2>2 DEF Around
<1>3. ASSUME ~Restart, ~ \E t \in Targets : Start(t) PROVE job'.source = job.source
  BY <1>3, SameJob DEF BindingInv
<1>4. ASSUME UNCHANGED <<live, bound>>, job'.source = job.source PROVE Around'
  BY <1>0, <1>4 DEF Around
<1>5. CASE Account \/ Write \/ Cancel \/ Copy \/ (\E rows \in SUBSET job.rows : Fail(rows))
           \/ RestartWorker \/ UNCHANGED vars
  <2>1. UNCHANGED <<live, bound>>
    BY <1>5, Elsewhere
  <2> QED
    BY <1>1, <1>2, <1>3, <1>4, <2>1
<1>6. ASSUME NEW k \in Switchers, Cutover(k), job'.source = job.source PROVE Around'
  <2>1. /\ bound'.env = job.target /\ bound'.rollback = Saved
        /\ bound.env = job.source /\ job.target # None /\ UNCHANGED live
    BY <1>0, <1>6 DEF Cutover, Rewrite, BoundTypes, accountVars
  <2>2. job.target \in Targets
    BY <1>0, <2>1 DEF JobTypes
  <2>3. Saved = bound.env \/ (bound.env = Source /\ Saved = bound.rollback)
    BY DEF Saved
  <2>4. CASE bound.env = Source
    BY <1>0, <1>6, <2>1, <2>2, <2>3, <2>4 DEF Around
  <2>5. CASE bound.env # Source
    BY <1>0, <1>6, <2>1, <2>2, <2>3, <2>5 DEF Around
  <2> QED
    BY <2>4, <2>5
<1>7. ASSUME NEW k \in Switchers, Rollback(k), job'.source = job.source PROVE Around'
  <2>1. /\ bound'.env = bound.rollback /\ bound'.rollback = bound.rollback
        /\ bound.rollback # None /\ UNCHANGED live
    BY <1>0, <1>7 DEF Rollback, Rewrite, BoundTypes, accountVars
  <2> QED
    BY <1>0, <1>7, <2>1 DEF Around
<1>8. ASSUME NEW k \in Switchers, \/ \E reachable \in BOOLEAN : Rebind(k, reachable)
                                  \/ \E late \in BOOLEAN : Raise(k, late),
             job'.source = job.source
      PROVE  Around'
  <2>1. switch[k].pc = "dispose" /\ (live' = switch[k].to \/ live' = live)
    BY <1>8 DEF Rebind, Raise
  <2>2. bound'.env = bound.env /\ bound'.rollback = bound.rollback
    BY <1>0, <1>8 DEF Rebind, Raise, BoundTypes
  <2>3. live' \in {bound.env, live}
    BY <1>0, <2>1 DEF Aimed
  <2> QED
    BY <1>0, <1>8, <2>2, <2>3 DEF Around
<1>9. ASSUME \/ \E k \in Switchers : Reload(k)
             \/ Dial \/ \E v \in Servers, up \in BOOLEAN : Answer(v, up),
             job'.source = job.source
      PROVE  Around'
  <2>1. bound'.env = bound.env /\ bound'.rollback = bound.rollback
    BY <1>0, <1>9 DEF Reload, Dial, Answer, BoundTypes
  <2>2. UNCHANGED live
    BY <1>9 DEF Reload, Dial, Answer, accountVars
  <2> QED
    BY <1>0, <1>9, <2>1, <2>2 DEF Around
<1> QED
  BY <1>1, <1>2, <1>3, <1>5, <1>6, <1>7, <1>8, <1>9 DEF Next

(* Nothing but the source's accounts changes, or the job is to end.        *)
LEMMA HomeBeside ==
  ASSUME BindingInv, Home' => Home,
         Home => /\ \A s \in Sessions : request'[s].at = Source
                 /\ \A v \in Servers \ {Source} : admins'[v] = admins[v],
         job' = job \/ job' = [job EXCEPT !.cancel = TRUE],
         bound'.env = bound.env
  PROVE  AtHome'
<1>0. /\ job \in JobTypes /\ bound \in BoundTypes /\ AtHome
      /\ Running <=> job.pc # "idle"
      /\ Running \/ Done => job.target \in Servers \ {Source}
  <2>1. Running \/ Done => job.target \in Targets
    BY DEF BindingInv, WholeInv, JobNamed
  <2> QED
    BY <2>1, WholeFacts, MigrationConstants DEF BindingInv
<1>1. /\ job'.pc = job.pc /\ job'.status = job.status /\ job'.target = job.target
      /\ job'.rest = job.rest /\ job'.empty = job.empty /\ job'.rows = job.rows
      /\ ~job'.cancel => ~job.cancel
  BY <1>0 DEF JobTypes
<1>2. Filled' => Filled
  BY <1>1 DEF Filled, AtTables, Later, Done
<1>3. Filled => Running \/ Done
  BY <1>0 DEF Filled, AtTables, Later
<1>4. Home' /\ Filled' => Superadmins(admins'[job'.target]) # {}
  BY <1>0, <1>1, <1>2, <1>3 DEF AtHome
<1>5. Home' /\ bound'.env # Source => Superadmins(admins'[bound'.env]) # {}
  BY <1>0 DEF AtHome, BoundTypes
<1>6. Home' => /\ AtTables' => "admins" \notin job'.empty
               /\ job'.pc = "fill" /\ ~job'.cancel /\ job'.rest = Tables =>
                    \E u \in Users, a \in Accounts : /\ <<u, a>> \in job'.rows
                                                     /\ a.role = "superadmin" /\ a.active
  BY <1>0, <1>1 DEF AtHome, AtTables
<1> QED
  BY <1>4, <1>5, <1>6 DEF AtHome

LEMMA ServingHome ==
  ASSUME BindingInv,
         \/ Account \/ Write \/ Cancel \/ RestartWorker
         \/ \E k \in Switchers : Reload(k)
         \/ Dial \/ \E v \in Servers, up \in BOOLEAN : Answer(v, up)
  PROVE  AtHome'
<1>0. /\ bound \in BoundTypes /\ AtHome /\ AccountTypeOK
  BY WholeFacts DEF BindingInv, WholeInv, MigrationInv, AccountInv
<1>1. CASE Account
  <2>1. UNCHANGED <<live, guarded, bound, switch, broken, job>> /\ AccountNext
    BY <1>1, Elsewhere DEF Account, Watch
  <2>2. Home => /\ \A s \in Sessions : request'[s].at = Source
                /\ \A v \in Servers \ {Source} : admins'[v] = admins[v]
    BY <1>0, <2>1, RequestsAtHome DEF Home, AtHome
  <2> QED
    BY <2>1, <2>2, HomeBeside DEF Home
<1>2. ASSUME UNCHANGED <<admins, request>>, Home' => Home, bound'.env = bound.env,
             job' = job \/ job' = [job EXCEPT !.cancel = TRUE]
      PROVE  AtHome'
  BY <1>0, <1>2, HomeBeside DEF AtHome
<1>3. CASE Write \/ Cancel \/ RestartWorker
  <2>1. UNCHANGED <<live, guarded, bound, switch, broken>>
    BY <1>3, Elsewhere
  <2>2. UNCHANGED <<admins, request>>
    BY <1>3 DEF Write, AddRow, AddPoint, RemovePoint, RemoveRow, Corpus, Cancel, RestartWorker,
                accountVars
  <2>3. job' = job \/ job' = [job EXCEPT !.cancel = TRUE]
    BY <1>3 DEF Write, AddRow, AddPoint, RemovePoint, RemoveRow, Corpus, Cancel, RestartWorker,
                copyVars
  <2> QED
    BY <1>2, <2>1, <2>2, <2>3 DEF Home
<1>4. ASSUME \/ \E k \in Switchers : Reload(k)
             \/ Dial \/ \E v \in Servers, up \in BOOLEAN : Answer(v, up)
      PROVE  AtHome'
  <2>1. UNCHANGED <<admins, request, live, guarded, broken, job>>
    BY <1>4 DEF Reload, Dial, Answer, SwitchUnchanged, copyVars, accountVars
  <2>2. bound'.env = bound.env
    BY <1>0, <1>4 DEF Reload, Dial, Answer, BoundTypes
  <2>3. Home' => Home
    BY <2>1 DEF Home
  <2> QED
    BY <1>2, <2>1, <2>2, <2>3
<1> QED
  BY <1>1, <1>3, <1>4

(* While a job runs no switch is under way.                                *)
LEMMA HomeStep ==
  ASSUME BindingInv, CopyInv, NEW pc \in Steps \ {"idle"}, JobStep(pc)
  PROVE  /\ Home' => Home
         /\ Home => /\ \A s \in Sessions : request'[s].at = Source
                    /\ bound'.env = Source
                    /\ job.source = Source /\ Superadmins(admins[Source]) # {}
<1>1. /\ Settled /\ live = job.source
      /\ UNCHANGED <<live, guarded, request, bound, broken>>
  BY StepFacts DEF JobStep
<1>2. Home => bound.env = Source /\ job.source = Source
  BY <1>1 DEF BindingInv, Aimed, Home
<1>3. Home => Superadmins(admins[Source]) # {}
  BY DEF Home, BindingInv, WholeInv, MigrationInv, AccountInv, SuperadminRemains
<1> QED
  BY <1>1, <1>2, <1>3 DEF Home, BindingInv, AtHome

LEMMA EarlyHome ==
  ASSUME BindingInv, CopyInv, Bootstrap \/ CountRows \/ CancelTables PROVE AtHome'
<1>0. job \in JobTypes
  BY JobFacts DEF BindingInv
<1>1. PICK pc \in Steps \ {"idle"} : JobStep(pc)
  BY DEF Bootstrap, CountRows, CancelTables, Steps
<1>2. CASE Bootstrap \/ CancelTables
  <2>1. \/ job' = [job EXCEPT !.pc = "idle", !.status = "cancelled"]
        \/ job.status = "running" /\ job' = [job EXCEPT !.pc = "count"]
    BY <1>1, <1>2, StepFacts DEF Bootstrap, CancelTables, Stop, To, BindingInv, Running
  <2>2. job'.pc \in {"idle", "count"} /\ job'.status # "completed"
    BY <1>0, <2>1 DEF JobTypes
  <2> QED
    BY <1>1, <2>2, HomeStep DEF AtHome, Filled, AtTables, Later, Done
<1>3. CASE CountRows
  <2>1. /\ job'.pc = "tables" /\ job'.status = job.status /\ job'.rest = Tables
        /\ "admins" \in job'.empty => Rows("admins", live) = {}
    BY <1>0, <1>3 DEF CountRows, JobTypes
  <2>2. Running /\ live = job.source /\ live \in Servers /\ AccountTypeOK
    BY <1>1, StepFacts DEF BindingInv, CopyInv, MigrationInv, AccountInv
  <2>3. Home => "admins" \notin job'.empty
    <3> SUFFICES ASSUME Home, Rows("admins", live) = {} PROVE FALSE
      BY <2>1
    <3>1. live = Source /\ Superadmins(admins[Source]) # {}
      BY <1>1, HomeStep DEF Home
    <3>2. PICK u \in Users : admins[live][u].role = "superadmin"
      BY <3>1 DEF Superadmins
    <3>3. Exists(admins[live], u)
      BY <3>2 DEF Exists
    <3> QED
      BY <2>2, <3>3, RowsOfAccounts
  <2> QED
    BY <1>1, <2>1, <2>2, <2>3, HomeStep DEF AtHome, Filled, AtTables, Later, Done, Running
<1> QED
  BY <1>2, <1>3

LEMMA BeginHome ==
  ASSUME BindingInv, CopyInv, BeginTable PROVE AtHome'
<1>0. job \in JobTypes /\ admins \in [Servers -> [Users -> Accounts]] /\ AtHome /\ AccountTypeOK
  BY JobFacts DEF BindingInv, CopyInv, MigrationInv, AccountInv
<1>1. /\ "tables" \in Steps \ {"idle"} /\ JobStep("tables") /\ job.pc = "tables"
      /\ ~job.cancel /\ job.rest # <<>>
  BY DEF BeginTable, Steps, JobStep
<1>2. /\ Running /\ live = job.source
      /\ job.source \in Servers /\ job.target \in Servers /\ job.source # job.target
  BY <1>1, StepFacts DEF BindingInv
<1>3. job.rest = Tables \/ job.rest = <<"docs">>
  <2>1. job.rest \in Rests
    BY <1>1 DEF BindingInv, CopyInv, Copied, Place, AtTables
  <2> QED
    BY <1>1, <2>1, TableOrder
<1>4. Home => /\ "admins" \notin job.empty
              /\ job.rest # Tables => Superadmins(admins[job.target]) # {}
  BY <1>0, <1>1 DEF AtHome, AtTables, Filled
<1>5. CASE Head(job.rest) \in job.empty
  <2>1. /\ job' = [job EXCEPT !.rest = Tail(job.rest)] /\ UNCHANGED admins
    BY <1>5 DEF BeginTable
  <2>2. /\ job'.pc = "tables" /\ job'.status = job.status /\ job'.target = job.target
        /\ job'.empty = job.empty
    BY <1>0, <1>1, <2>1 DEF JobTypes
  <2>3. Home => Superadmins(admins'[job'.target]) # {}
    BY <1>3, <1>4, <1>5, <2>1, <2>2, TableOrder
  <2> QED
    BY <1>1, <1>4, <2>2, <2>3, HomeStep DEF AtHome
<1>6. CASE Head(job.rest) \notin job.empty
  <2> DEFINE t == Head(job.rest)
  <2>1. PutRows(t, {}) /\ job' = [job EXCEPT !.pc = "fill", !.rows = Rows(t, live)]
    BY <1>2, <1>6 DEF BeginTable
  <2>2. /\ job'.pc = "fill" /\ job'.status = job.status /\ job'.target = job.target
        /\ job'.rest = job.rest /\ job'.empty = job.empty /\ job'.rows = Rows(t, live)
    BY <1>0, <1>1, <2>1 DEF JobTypes
  <2>3. Home /\ job.rest # Tables => Superadmins(admins'[job'.target]) # {}
    BY <1>3, <1>4, <2>1, <2>2, TableOrder DEF PutRows
  <2>4. Home /\ job.rest = Tables =>
          \E u \in Users, a \in Accounts : /\ <<u, a>> \in Rows("admins", live)
                                           /\ a.role = "superadmin" /\ a.active
    <3> SUFFICES ASSUME Home
                 PROVE  \E u \in Users, a \in Accounts : /\ <<u, a>> \in Rows("admins", live)
                                                         /\ a.role = "superadmin" /\ a.active
      OBVIOUS
    <3>1. Superadmins(admins[live]) # {}
      BY <1>1, HomeStep DEF Home
    <3>2. PICK u \in Users : admins[live][u].role = "superadmin" /\ admins[live][u].active
      BY <3>1 DEF Superadmins
    <3>3. <<u, admins[live][u]>> \in Rows("admins", live)
      BY <1>0, <1>2, <3>2, RowsOfAccounts DEF Exists
    <3>4. admins[live][u] \in Accounts
      BY <1>0, <1>2
    <3> QED
      BY <3>2, <3>3, <3>4
  <2>5. Filled' => job.rest # Tables
    BY <1>2, <2>2 DEF Filled, AtTables, Later, Done, Running
  <2>6. Home' => /\ AtTables' => "admins" \notin job'.empty
                 /\ Filled' => Superadmins(admins'[job'.target]) # {}
    BY <1>1, <1>4, <2>2, <2>3, <2>5, HomeStep
  <2>7. Home' /\ job'.rest = Tables =>
          \E u \in Users, a \in Accounts : /\ <<u, a>> \in job'.rows
                                           /\ a.role = "superadmin" /\ a.active
    BY <1>1, <2>2, <2>4, HomeStep, TableOrder
  <2> QED
    BY <1>1, <2>6, <2>7, HomeStep DEF AtHome
<1> QED
  BY <1>5, <1>6

(* All the rows that were read go over, a superadmin among them.           *)
LEMMA FillHome ==
  ASSUME BindingInv, CopyInv, NEW rows \in SUBSET job.rows, FillTable(rows) PROVE AtHome'
<1>0. job \in JobTypes /\ admins \in [Servers -> [Users -> Accounts]] /\ AtHome
  BY JobFacts DEF BindingInv
<1>1. /\ "fill" \in Steps \ {"idle"} /\ JobStep("fill") /\ job.pc = "fill"
      /\ (~job.cancel => rows = job.rows) /\ PutRows(Head(job.rest), rows)
  BY DEF FillTable, Steps, JobStep
<1>2. Running /\ job.target \in Servers
  BY <1>1, StepFacts DEF BindingInv
<1>3. job.rest = Tables \/ job.rest = <<"docs">>
  <2>1. job.rest \in Rests /\ job.rest # <<>>
    BY <1>1 DEF BindingInv, CopyInv, Copied, Place, AtTables, MigrationInv, JobTyped
  <2> QED
    BY <2>1, TableOrder
<1>4. /\ job'.pc = "tables" /\ job'.status = job.status /\ job'.target = job.target
      /\ job'.cancel = job.cancel /\ job'.empty = job.empty
  BY <1>0 DEF FillTable, JobTypes
<1>5. ASSUME Home, ~job.cancel PROVE Superadmins(admins'[job.target]) # {}
  <2>1. CASE job.rest = <<"docs">>
    <3>1. Superadmins(admins[job.target]) # {}
      BY <1>0, <1>1, <1>5, <2>1, TableOrder DEF AtHome, Filled, AtTables
    <3>2. UNCHANGED admins
      BY <1>1, <2>1, TableOrder DEF PutRows
    <3> QED
      BY <3>1, <3>2
  <2>2. CASE job.rest = Tables
    <3>1. PICK u \in Users, a \in Accounts : /\ <<u, a>> \in job.rows
                                             /\ a.role = "superadmin" /\ a.active
      BY <1>0, <1>1, <1>5, <2>2 DEF AtHome
    <3>2. OneRowEach(rows) /\ <<u, a>> \in rows
      BY <1>1, <1>5, <2>2, <3>1 DEF BindingInv, CopyInv, Copied, RowsRead
    <3>3. AccountsOf(rows)[u] = a
      BY <3>1, <3>2, AccountOfRow
    <3>4. admins'[job.target] = AccountsOf(rows)
      BY <1>0, <1>1, <1>2, <2>2, TableOrder DEF PutRows
    <3> QED
      BY <3>1, <3>3, <3>4 DEF Superadmins
  <2> QED
    BY <1>3, <2>1, <2>2
<1>6. Home => "admins" \notin job.empty
  BY <1>0, <1>1 DEF AtHome, AtTables
<1>7. Filled' => ~job.cancel
  BY <1>2, <1>4 DEF Filled, AtTables, Later, Done, Running
<1> QED
  BY <1>1, <1>4, <1>5, <1>6, <1>7, HomeStep DEF AtHome

(* The points, the comparison and the report leave the accounts alone.     *)
LEMMA ScrollHome ==
  ASSUME BindingInv, CopyInv, \/ \E fails \in BOOLEAN : CountPoints(fails)
                              \/ Scroll \/ Audit \/ Finish
  PROVE  AtHome'
<1>0. job \in JobTypes /\ admins \in [Servers -> [Users -> Accounts]] /\ AtHome
  BY JobFacts DEF BindingInv
<1>1. PICK pc \in Steps \ {"idle"} : JobStep(pc)
  BY DEF CountPoints, Scroll, Audit, Finish, Steps
<1>2. UNCHANGED admins
  BY DEF CountPoints, Scroll, Audit, Finish
<1>3. job.pc \in {"tables", "scroll", "audit"} /\ Filled
  <2>1. CASE \E fails \in BOOLEAN : CountPoints(fails)
    BY <2>1, TableOrder DEF CountPoints, JobStep, Filled, AtTables
  <2>2. CASE Scroll \/ Audit \/ Finish
    BY <2>2 DEF Scroll, Audit, Finish, JobStep, Filled, Later
  <2> QED
    BY <2>1, <2>2
<1>4. /\ job'.pc \in {"scroll", "audit", "idle"} /\ job'.target = job.target
  <2>1. CASE Scroll
    <3>1. \/ job' = [job EXCEPT !.pc = "audit", !.rest = Tables]
          \/ job.pc = "scroll" /\ \E n : job' = [job EXCEPT !.offset = n]
      BY <2>1 DEF Scroll, JobStep
    <3> QED
      BY <1>0, <3>1 DEF JobTypes
  <2>2. CASE (\E fails \in BOOLEAN : CountPoints(fails)) \/ Audit \/ Finish
    BY <1>0, <2>2 DEF CountPoints, Audit, Finish, JobTypes, JobStep
  <2> QED
    BY <2>1, <2>2
<1>5. Home => Superadmins(admins'[job'.target]) # {}
  BY <1>0, <1>2, <1>3, <1>4 DEF AtHome
<1> QED
  BY <1>1, <1>4, <1>5, HomeStep DEF AtHome, AtTables

(* A job begins, or fails, and nothing of it counts as copied.             *)
LEMMA OtherHome ==
  ASSUME BindingInv, \/ \E t \in Targets : Start(t)
                     \/ ScrollClosed \/ \E rows \in SUBSET job.rows : Fail(rows)
  PROVE  AtHome'
<1>0. job \in JobTypes /\ AtHome /\ UNCHANGED <<live, guarded, bound, broken>>
  BY WholeFacts, Elsewhere DEF BindingInv, Copy
<1>1. UNCHANGED request
  BY DEF Start, Fail, ScrollClosed, JobStep, accountVars
<1>2. CASE \E t \in Targets : Start(t)
  <2>1. UNCHANGED admins /\ job'.pc = "bootstrap" /\ job'.status = "running"
    BY <1>2 DEF Start, NoJob, accountVars
  <2> QED
    BY <1>0, <1>1, <2>1 DEF AtHome, Home, Filled, AtTables, Later, Done
<1>3. CASE ScrollClosed \/ \E rows \in SUBSET job.rows : Fail(rows)
  <2>1. job'.pc = "idle" /\ job'.status = "failed" /\ Running
    BY <1>0, <1>3, WholeFacts DEF Fail, ScrollClosed, JobStep, Stop, JobTypes, BindingInv
  <2>2. Settled /\ live = job.source
    BY <2>1 DEF BindingInv, WholeInv, Stays
  <2>3. Home => bound.env = Source
    BY <2>2 DEF BindingInv, Aimed, Home
  <2> QED
    BY <1>0, <1>1, <2>1, <2>3 DEF AtHome, Home, Filled, AtTables, Later, Done
<1> QED
  BY <1>2, <1>3

(* A cutover is to what a completed job has copied, a rollback to the      *)
(* source; and no process comes back to the source guarded by a switch.    *)
LEMMA SwitchingHome ==
  ASSUME Patient, BindingInv,
         \/ \E k \in Switchers : \/ Cutover(k) \/ Rollback(k)
                                 \/ \E reachable \in BOOLEAN : Rebind(k, reachable)
                                 \/ \E late \in BOOLEAN : Raise(k, late)
         \/ Restart
  PROVE  AtHome'
<1>0. /\ bound \in BoundTypes /\ job \in JobTypes /\ AtHome
      /\ None \notin Servers /\ Source \notin Targets
  BY WholeFacts, MigrationConstants DEF BindingInv
<1>1. ASSUME NEW k \in Switchers, Cutover(k) \/ Rollback(k) PROVE AtHome'
  <2>1. UNCHANGED <<live, guarded, broken, admins, request, job>>
    BY <1>1 DEF Cutover, Rollback, Rewrite, SwitchUnchanged, copyVars, accountVars
  <2>2. Home => bound'.env = Source \/ Superadmins(admins[bound'.env]) # {}
    <3>1. CASE Cutover(k)
      <4>1. job.report = "match" /\ bound'.env = job.target
        BY <1>0, <3>1 DEF Cutover, Rewrite, BoundTypes
      <4>2. Filled
        BY <4>1 DEF BindingInv, Reported, Filled
      <4> QED
        BY <1>0, <4>1, <4>2 DEF AtHome
    <3>2. CASE Rollback(k)
      <4>1. bound'.env = bound.rollback /\ bound.rollback # None
        BY <1>0, <3>2 DEF Rollback, Rewrite, BoundTypes
      <4> QED
        BY <1>0, <4>1 DEF BindingInv, Around, Home
    <3> QED
      BY <1>1, <3>1, <3>2
  <2> QED
    BY <1>0, <2>1, <2>2 DEF AtHome, Home, Filled, AtTables, Later, Done
<1>2. ASSUME NEW k \in Switchers, NEW reachable \in BOOLEAN, Rebind(k, reachable) PROVE AtHome'
  BY <1>2 DEF Rebind, AtHome, Home
<1>4. ASSUME NEW k \in Switchers, NEW late \in BOOLEAN, Raise(k, late) PROVE AtHome'
  BY <1>4 DEF Raise, AtHome, Home
<1>3. CASE Restart
  <2>1. job'.pc = "idle" /\ job'.status = "idle" /\ live' = bound.env
    BY <1>3 DEF Restart, NoJob
  <2>2. bound'.env = bound.env
    BY <1>0, <1>3 DEF Restart, BoundTypes
  <2>3. \A s \in Sessions : request'[s].at = Source
    BY <1>3 DEF Restart, NoRequest
  <2> QED
    BY <2>1, <2>2, <2>3 DEF AtHome, Home, Filled, AtTables, Later, Done
<1> QED
  BY <1>1, <1>2, <1>3, <1>4

LEMMA BindingStart == Init => BindingInv
<1> SUFFICES ASSUME Init PROVE BindingInv
  OBVIOUS
<1>1. PICK rows \in [Users -> Accounts] : Started(rows)
  BY DEF Init
<1>2. /\ job = NoJob /\ live = Source /\ switch = [k \in Switchers |-> Idle]
      /\ bound.env = Source /\ bound.settings = AllOf(Source) /\ bound.rollback = None
      /\ request = [s \in Sessions |-> NoRequest]
  BY <1>1 DEF Started, AccountInit
<1>5. bound.settings["database"] = Source /\ bound.settings["vectors"] = Source
  BY <1>2 DEF AllOf, Parts
<1>6. {None, Source} \cap Targets = {}
  BY MigrationConstants
<1>3. Aimed /\ Reported /\ Around
  BY <1>2, <1>5, <1>6 DEF Aimed, OneSwitch, Idle, Reported, Around, NoJob
<1>4. AtHome
  BY <1>2 DEF AtHome, Filled, AtTables, Later, Done, NoJob, NoRequest
<1> QED
  BY <1>3, <1>4, WholeStart DEF BindingInv

LEMMA BindingStep ==
  ASSUME Patient, OneTarget PROVE BindingInv /\ [Next]_vars => BindingInv'
<1> SUFFICES ASSUME BindingInv, [Next]_vars PROVE BindingInv'
  OBVIOUS
<1>1. WholeInv' /\ Aimed' /\ Reported' /\ Around'
  BY WholeStep, AimedStep, ReportedStep, AroundStep DEF BindingInv
<1>2. CASE UNCHANGED vars
  <2>1. UNCHANGED <<admins, request, live, guarded, broken, bound, job>>
    BY <1>2 DEF vars, copyVars, bindVars, accountVars
  <2> QED
    BY <1>1, <2>1 DEF BindingInv, AtHome, Home, Filled, AtTables, Later, Done
<1>3. CASE Copy /\ ~Apart
  <2>1. PICK pc \in Steps \ {"idle"} : JobStep(pc)
    BY <1>3 DEF Copy, Bootstrap, CountRows, BeginTable, CancelTables, FillTable, CountPoints,
                Scroll, ScrollClosed, Audit, Finish, Steps
  <2>2. Running
    BY <2>1, WholeFacts DEF JobStep, BindingInv
  <2>3. live = job.source /\ job.target \in Targets
    BY <2>2 DEF BindingInv, WholeInv, JobNamed, Stays
  <2>4. ~Home'
    BY <1>3, <2>3, Elsewhere, MigrationConstants DEF Apart, Home
  <2> QED
    BY <1>1, <2>4 DEF BindingInv, AtHome
<1>4. CASE Next /\ ~(Copy /\ ~Apart)
  <2>1. Apart => CopyInv
    BY DEF BindingInv, WholeInv, CopyInv
  <2>2. AtHome'
    BY <1>4, <2>1, ServingHome, OtherHome, SwitchingHome, EarlyHome, BeginHome, FillHome, ScrollHome
    DEF Next, Copy
  <2> QED
    BY <1>1, <2>2 DEF BindingInv
<1> QED
  BY <1>2, <1>3, <1>4

LEMMA BoundToOne ==
  ASSUME OneTarget, BindingInv, [Next]_vars
  PROVE  live' # live /\ guarded /\ ~broken => Superadmins(admins'[live']) # {}
<1> SUFFICES ASSUME live' # live, guarded, ~broken PROVE Superadmins(admins'[live']) # {}
  OBVIOUS
<1>0. /\ admins \in [Servers -> [Users -> Accounts]] /\ bound \in BoundTypes
      /\ SuperadminRemains /\ AtHome /\ Around
  BY WholeFacts DEF BindingInv, WholeInv, MigrationInv, AccountInv
<1>1. ASSUME live' = bound.env PROVE Superadmins(admins[live']) # {}
  <2>1. CASE bound.env = Source
    BY <1>0, <1>1, <2>1 DEF SuperadminRemains
  <2>2. CASE bound.env # Source
    <3>1. live = Source
      BY <1>0, <1>1, <2>2 DEF Around, OneTarget
    <3> QED
      BY <1>0, <1>1, <2>2, <3>1 DEF AtHome, Home
  <2> QED
    BY <2>1, <2>2
<1>2. ASSUME NEW k \in Switchers, \/ \E reachable \in BOOLEAN : Rebind(k, reachable)
                                  \/ \E late \in BOOLEAN : Raise(k, late)
      PROVE  Superadmins(admins'[live']) # {}
  <2>1. live' = bound.env /\ UNCHANGED admins
    BY <1>2 DEF Rebind, Raise, BindingInv, Aimed
  <2> QED
    BY <1>1, <2>1
<1>3. CASE Restart
  <2>1. live' = bound.env /\ admins' = [admins EXCEPT ![bound.env] = Seed(admins[bound.env])]
    BY <1>3 DEF Restart
  <2>2. bound.env \in Servers
    BY <1>0 DEF BoundTypes
  <2> QED
    BY <1>0, <1>1, <2>1, <2>2, SeedKeeps
<1>4. ASSUME \/ \E k \in Switchers : Cutover(k) \/ Rollback(k) \/ Reload(k)
             \/ Dial \/ \E v \in Servers, up \in BOOLEAN : Answer(v, up)
      PROVE  FALSE
  BY <1>4 DEF Cutover, Rollback, Rewrite, Reload, Dial, Answer, accountVars
<1> QED
  BY <1>2, <1>3, <1>4, Elsewhere DEF Next, BindingInv

(* A cutover, a rollback or a restart binds the process to a server with   *)
(* an active superadmin: what a job has copied of the accounts has one,    *)
(* and keeps it until the process is there, whatever requests do to the    *)
(* source's meanwhile (execute_cutover, execute_rollback).                 *)
THEOREM NewServerIsManned ==
  ASSUME Patient, OneTarget PROVE Spec => NewServerHasSuperadmin
<1>1. BindingInv /\ [Next]_vars => (live' # live /\ guarded /\ ~broken =>
                                       Superadmins(admins'[live']) # {})
  BY BoundToOne
<1>2. BindingInv /\ [Next]_vars => BindingInv'
  BY BindingStep
<1> QED
  BY <1>1, <1>2, BindingStart, PTL DEF Spec, NewServerHasSuperadmin
=============================================================================
