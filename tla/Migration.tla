------------------------------- MODULE Migration -------------------------------
(***************************************************************************)
(* The move of the platform to other servers                               *)
(* (api/routers/server_migration.py): a background job copies the tables   *)
(* and the vectors of the server in use to a target and compares them; a   *)
(* cutover rewrites .env and binds the running process to the target; a    *)
(* rollback takes the previous .env back.  All the while requests change   *)
(* the accounts (AdminAccounts) and the corpus, and so does the worker of  *)
(* Celery, a process of its own that knows nothing of the move.            *)
(*                                                                         *)
(* A server stands for the database, Qdrant and Redis of one .env.  Of the *)
(* tables, two are modelled: admin_users, which is copied first, and the   *)
(* documents.  The vectors of a document are one point.                    *)
(***************************************************************************)
EXTENDS AdminAccounts, Sequences, FiniteSetsExt

CONSTANTS
  Docs,       \* documents, a set of numbers: scroll orders the points
  Targets,    \* the servers to migrate to; the one in use may be among them
  Named,      \* the settings that the .env of the source names
  HasEnv,     \* whether the source has such a file
  Switchers,  \* cutovers and rollbacks that run at once
  Faults,     \* which of the faults below may happen
  Patient,    \* whether the operator waits, as the button of the UI makes him
  MaxJobs,    \* bound on the number of migrations
  MaxSwitches,\* bound on the cutovers and rollbacks
  MaxWrites,  \* bound on the writes to the corpus
  MaxFaults   \* bound on the faults

(* A step of the job raises; the server is killed; the old engine cannot   *)
(* be closed, or no client of Qdrant be made; the new Qdrant is not        *)
(* reached; a switch while a connection to Redis is being made.            *)
FaultKinds == {"remote", "crash", "dispose", "client", "qdrant", "dial"}

(* What the process takes from its settings.                               *)
Parts == {"database", "vectors", "redis"}

ASSUME MigrationConstants ==
  /\ Docs \subseteq Nat /\ IsFiniteSet(Docs)
  /\ Targets \subseteq Servers \ {Source}
  /\ Faults \subseteq FaultKinds
  /\ Patient \in BOOLEAN
  /\ {"database"} \subseteq Named /\ Named \subseteq Parts /\ HasEnv \in BOOLEAN
  /\ None \notin Servers /\ {"local", "closed"} \cap Servers = {}
  /\ {MaxJobs, MaxSwitches, MaxWrites, MaxFaults} \subseteq Nat

VARIABLES
  docs,    \* the documents of each server's database
  points,  \* the points of each server's Qdrant
  job,     \* the migration manager and its task
  kept,    \* what the source has held ever since the job was started
  clean,   \* whether nothing was written since
  bound,   \* .env, .env.rollback, and what the process is bound to
  switch,  \* the cutovers and rollbacks
  worker,  \* the server the Celery worker writes to
  broken,  \* whether a hot reload raised
  jobs, switches, writes, faults

copyVars == <<docs, points, job, kept, clean, jobs>>
bindVars == <<bound, switch, broken, switches>>
vars == <<accountVars, copyVars, bindVars, worker, writes, faults>>

Tables == <<"admins", "docs">>

Statuses == {"idle", "running", "completed", "cancelled", "failed"}
Steps == {"idle", "bootstrap", "count", "tables", "fill", "scroll", "audit"}
NoJob == [pc |-> "idle", status |-> "idle", source |-> None, target |-> None,
          rest |-> <<>>, empty |-> {}, rows |-> {}, offset |-> 0, srcCount |-> 0,
          cancel |-> FALSE, match |-> TRUE, report |-> "none"]
Idle  == [pc |-> "idle", to |-> None]

(* The rows of a table.                                                    *)
Rows(t, v) == IF t = "docs" THEN docs[v]
              ELSE {<<u, admins[v][u]>> : u \in {x \in Users : Exists(admins[v], x)}}
AccountsOf(rows) == [u \in Users |-> IF \E r \in rows : r[1] = u
                                    THEN (CHOOSE r \in rows : r[1] = u)[2] ELSE Absent]

(* The .env of a server: a cutover writes all of them.                     *)
NamedBy(v) == IF v = Source THEN Named ELSE Parts
AllOf(v)   == [p \in Parts |-> v]

(* A process that has just started, on a source with these accounts.       *)
Started(rows) ==
  /\ AccountInit(rows)
  /\ job = NoJob /\ clean = FALSE
  /\ kept = [docs |-> {}, points |-> {}, admins |-> {}]
  /\ bound = [env |-> Source, rollback |-> None, settings |-> AllOf(Source),
              qdrant |-> Source, index |-> Source,
              redis |-> None, tried |-> FALSE, dialing |-> {}]
  /\ switch = [k \in Switchers |-> Idle]
  /\ worker = Source /\ broken = FALSE

Init ==
  /\ \E rows \in [Users -> Accounts] : Ready(rows) /\ Started(rows)
  /\ docs \in [Servers -> SUBSET Docs] /\ points \in [Servers -> SUBSET Docs]
  /\ <<calls, jobs, switches, writes, faults>> = <<0, 0, 0, 0, 0>>

(* The calls of the Qdrant client are synchronous: from the first of them  *)
(* to the last the job keeps the event loop, and no request moves.         *)
Blocked == job.pc = "scroll"
Settled == \A k \in Switchers : switch[k].pc = "idle"

-----------------------------------------------------------------------------
(* What goes on meanwhile: the requests on accounts, and the corpus.       *)

Watch ==
  /\ kept' = [kept EXCEPT !.admins = {u \in @ : \A v \in Servers : admins'[v][u] = admins[v][u]}]
  /\ clean' = (clean /\ admins' = admins)
  /\ UNCHANGED <<docs, points, job, jobs, bindVars, worker, writes, faults>>

Account == ~Blocked /\ AccountNext /\ Watch
Serve   == ~Blocked /\ (\E s \in Sessions : Request(s)) /\ Watch

(* A process writes to a database and to a Qdrant; with SQLite when no     *)
(* transaction holds the lock.                                             *)
Writers == {[row |-> worker, point |-> worker]} \cup
           (IF Blocked THEN {} ELSE {[row |-> live, point |-> bound.qdrant]})
MayWrite(v) == v = Source /\ Sqlite => lock = None

Corpus == /\ writes < MaxWrites /\ writes' = writes + 1 /\ clean' = FALSE
          /\ UNCHANGED <<accountVars, job, jobs, bindVars, worker, faults>>

AddRow(w, d) ==
  /\ Corpus /\ MayWrite(w.row) /\ d \notin docs[w.row]
  /\ docs' = [docs EXCEPT ![w.row] = @ \cup {d}]
  /\ UNCHANGED <<points, kept>>

AddPoint(w, d) ==
  /\ Corpus /\ w.point \in Servers /\ d \in docs[w.row] \ points[w.point]
  /\ points' = [points EXCEPT ![w.point] = @ \cup {d}]
  /\ UNCHANGED <<docs, kept>>

RemovePoint(w, d) ==
  /\ Corpus /\ w.point \in Servers /\ d \in points[w.point]
  /\ points' = [points EXCEPT ![w.point] = @ \ {d}]
  /\ kept' = [kept EXCEPT !.points = @ \ {d}]
  /\ UNCHANGED docs

RemoveRow(w, d) ==
  /\ Corpus /\ MayWrite(w.row) /\ d \in docs[w.row]
  /\ docs' = [docs EXCEPT ![w.row] = @ \ {d}]
  /\ kept' = [kept EXCEPT !.docs = @ \ {d}]
  /\ UNCHANGED points

Write == \E w \in Writers, d \in Docs :
           AddRow(w, d) \/ AddPoint(w, d) \/ RemovePoint(w, d) \/ RemoveRow(w, d)

-----------------------------------------------------------------------------
(* The job.                                                                *)

JobUnchanged == UNCHANGED <<bindVars, worker, writes, faults>>
To(pc) == job' = [job EXCEPT !.pc = pc]
Stop(status) == job' = [job EXCEPT !.pc = "idle", !.status = status]

(* /start: refused while a job runs; the manager forgets the last one.     *)
(* Nothing keeps the server in use from being the target: its own tables   *)
(* are then truncated, and what is copied is what is left.                 *)
Start(t) ==
  /\ jobs < MaxJobs /\ ~Blocked /\ job.status # "running"
  /\ Patient => Settled
  /\ job' = [NoJob EXCEPT !.pc = "bootstrap", !.status = "running",
                          !.source = live, !.target = t]
  /\ kept' = [docs |-> docs[live], points |-> IF bound.qdrant \in Servers
                                              THEN points[bound.qdrant] ELSE {},
              admins |-> {u \in Users : Exists(admins[live], u)}]
  /\ clean' = TRUE /\ jobs' = jobs + 1
  /\ UNCHANGED <<accountVars, docs, points>> /\ JobUnchanged

(* /cancel *)
Cancel ==
  /\ ~Blocked /\ job.status = "running" /\ ~job.cancel
  /\ job' = [job EXCEPT !.cancel = TRUE]
  /\ UNCHANGED <<accountVars, docs, points, kept, clean, jobs>> /\ JobUnchanged

JobStep(pc) ==
  /\ job.pc = pc
  /\ JobUnchanged
  /\ UNCHANGED <<live, immediate, guarded, tokens, request, calls, kept, clean, jobs>>

(* The tables and the collection are made where there are none.            *)
Bootstrap ==
  /\ JobStep("bootstrap")
  /\ IF job.cancel THEN Stop("cancelled") ELSE To("count")
  /\ UNCHANGED <<admins, lock, docs, points>>

(* The rows of all tables are counted once; one without rows is skipped.   *)
CountRows ==
  /\ JobStep("count") /\ Free
  /\ job' = [job EXCEPT !.pc = "tables", !.rest = Tables,
                        !.empty = {t \in {"admins", "docs"} : Rows(t, live) = {}}]
  /\ UNCHANGED <<admins, lock, docs, points>>

PutRows(t, rows) ==
  IF t = "docs"
  THEN docs' = [docs EXCEPT ![job.target] = rows] /\ UNCHANGED admins
  ELSE admins' = [admins EXCEPT ![job.target] = AccountsOf(rows)] /\ UNCHANGED docs

(* The target's table is truncated, and the source's read in one           *)
(* statement, whose transaction takes SQLite's lock.                       *)
BeginTable ==
  /\ JobStep("tables") /\ ~job.cancel /\ job.rest # <<>>
  /\ LET t == Head(job.rest)
     IN IF t \in job.empty
        THEN /\ job' = [job EXCEPT !.rest = Tail(@)]
             /\ UNCHANGED <<admins, docs, lock>>
        ELSE /\ Free
             /\ PutRows(t, {})
             /\ job' = [job EXCEPT !.pc = "fill",
                                   !.rows = IF live = job.target THEN {} ELSE Rows(t, live)]
             /\ lock' = IF immediate THEN Copier ELSE lock
  /\ UNCHANGED points

(* The rows go over in batches, each of them committed; a cancellation     *)
(* ends the stream after some of them.                                     *)
FillTableHeld(rows) ==  \* mutant: the source's connection stays open
  /\ JobStep("fill")
  /\ ~job.cancel => rows = job.rows
  /\ PutRows(Head(job.rest), rows)
  /\ job' = [job EXCEPT !.pc = "tables", !.rest = Tail(@), !.rows = {}]
  /\ UNCHANGED <<points, lock>>

FillTable(rows) ==
  /\ JobStep("fill")
  /\ ~job.cancel => rows = job.rows
  /\ PutRows(Head(job.rest), rows)
  /\ job' = [job EXCEPT !.pc = "tables", !.rest = Tail(@), !.rows = {}]
  /\ Release(Copier)
  /\ UNCHANGED points

CancelTables ==
  /\ JobStep("tables") /\ job.cancel
  /\ Stop("cancelled")
  /\ UNCHANGED <<admins, docs, points, lock>>

(* The collection is counted: 0 when that fails, and when the client is    *)
(* not a server's: nothing was stored in the local storage.  The           *)
(* cancellations that are looked for from here on cannot arrive before the *)
(* last of them.                                                           *)
CountPointsLate(fails) ==  \* mutant: no look for a cancellation after the tables
  /\ JobStep("tables") /\ job.rest = <<>>
  /\ fails => bound.qdrant \notin Servers \/ "remote" \in Faults
  /\ bound.qdrant \notin Servers => fails
  /\ job' = [job EXCEPT !.pc = "scroll",
                        !.srcCount = IF fails THEN 0 ELSE Cardinality(points[bound.qdrant])]
  /\ UNCHANGED <<admins, docs, points, lock>>

CountPoints(fails) ==
  /\ JobStep("tables") /\ ~job.cancel /\ job.rest = <<>>
  /\ fails => bound.qdrant \notin Servers \/ "remote" \in Faults
  /\ bound.qdrant \notin Servers => fails
  /\ job' = [job EXCEPT !.pc = "scroll",
                        !.srcCount = IF fails THEN 0 ELSE Cardinality(points[bound.qdrant])]
  /\ UNCHANGED <<admins, docs, points, lock>>

(* One batch of the scroll, in the order of the points.                    *)
Scroll ==
  /\ JobStep("scroll") /\ bound.qdrant # "closed"
  /\ LET ahead == IF bound.qdrant \in Servers
                  THEN {p \in points[bound.qdrant] : p >= job.offset} ELSE {}
         first == Min(ahead)
     IN IF ahead = {}
        THEN /\ job' = [job EXCEPT !.pc = "audit", !.rest = Tables]
             /\ UNCHANGED points
        ELSE /\ points' = [points EXCEPT ![job.target] = @ \cup {first}]
             /\ job' = IF ahead = {first}
                       THEN [job EXCEPT !.pc = "audit", !.rest = Tables]
                       ELSE [job EXCEPT !.offset = Min(ahead \ {first})]
  /\ UNCHANGED <<admins, docs, lock>>

(* The client was closed by a hot reload that raised.                      *)
ScrollClosed ==
  /\ JobStep("scroll") /\ bound.qdrant = "closed"
  /\ Stop("failed")
  /\ UNCHANGED <<admins, docs, points, lock>>

(* The counts of a table, on either side, in one transaction of the source *)
(* that lasts for all tables.                                              *)
Audit ==
  /\ JobStep("audit") /\ job.rest # <<>>
  /\ immediate => lock \in {None, Copier}
  /\ LET t == Head(job.rest)
     IN job' = [job EXCEPT !.rest = Tail(@),
                  !.match = @ /\ Cardinality(Rows(t, live)) = Cardinality(Rows(t, job.target))]
  /\ lock' = IF immediate THEN Copier ELSE lock
  /\ UNCHANGED <<admins, docs, points>>

(* The points of the target against the count made before the scroll.  The *)
(* job is completed whatever the report says.                              *)
FinishTables ==  \* mutant: the report looks at the tables only
  /\ JobStep("audit") /\ job.rest = <<>>
  /\ job' = [job EXCEPT !.pc = "idle", !.status = "completed",
                        !.report = IF job.match THEN "match" ELSE "mismatch"]
  /\ Release(Copier)
  /\ UNCHANGED <<admins, docs, points>>

Finish ==
  /\ JobStep("audit") /\ job.rest = <<>>
  /\ LET match == job.match /\ job.srcCount = Cardinality(points[job.target])
     IN job' = [job EXCEPT !.pc = "idle", !.status = "completed",
                           !.report = IF match THEN "match" ELSE "mismatch"]
  /\ Release(Copier)
  /\ UNCHANGED <<admins, docs, points>>

(* An exception in any step of the job, with a part of a table copied.     *)
Fail(rows) ==
  /\ "remote" \in Faults /\ faults < MaxFaults /\ job.pc # "idle"
  /\ IF job.pc = "fill" THEN PutRows(Head(job.rest), rows)
                        ELSE UNCHANGED <<admins, docs>>
  /\ Stop("failed") /\ Release(Copier)
  /\ faults' = faults + 1
  /\ UNCHANGED <<live, immediate, guarded, tokens, request, calls, points, kept, clean, jobs,
                 bindVars, worker, writes>>

Copy ==
  \/ Bootstrap \/ CountRows \/ BeginTable \/ CancelTables
  \/ \E rows \in SUBSET job.rows : FillTable(rows)
  \/ \E fails \in BOOLEAN : CountPoints(fails)
  \/ Scroll \/ ScrollClosed \/ Audit \/ Finish

-----------------------------------------------------------------------------
(* Cutover and rollback.                                                   *)

SwitchUnchanged == UNCHANGED <<copyVars, worker, writes>>
Rewrite(k, env, settings, rollback) ==
  /\ switch[k].pc = "idle" /\ ~Blocked /\ switches < MaxSwitches
  /\ Patient => Settled /\ job.status # "running"
  /\ "dial" \notin Faults => bound.dialing = {}
  /\ bound' = [bound EXCEPT !.env = env, !.settings = settings, !.rollback = rollback]
  /\ switch' = [switch EXCEPT ![k] = [pc |-> "dispose", to |-> settings["database"]]]
  /\ switches' = switches + 1
  /\ UNCHANGED <<accountVars, broken, faults>> /\ SwitchUnchanged

(* The file in use, where there is one, is what a rollback goes back to.   *)
Saved == IF bound.env = Source /\ ~HasEnv THEN bound.rollback ELSE bound.env

(* To the target of the job that was started last.                         *)
CutoverHasty(k) ==  \* mutant: the button does not wait for the report
  /\ job.target # None
  /\ Patient => bound.env = job.source
  /\ Rewrite(k, job.target, AllOf(job.target), Saved)

Cutover(k) ==
  /\ job.target # None
  /\ Patient => job.report = "match" /\ bound.env = job.source
  /\ Rewrite(k, job.target, AllOf(job.target), Saved)

(* The settings that the saved file does not name stay as they are.        *)
Restored(v) == [p \in Parts |-> IF p \in NamedBy(v) THEN v ELSE bound.settings[p]]

RollbackBlind(k) ==  \* mutant: no look for the file
  Rewrite(k, bound.rollback, Restored(bound.rollback), bound.rollback)

Rollback(k) ==
  /\ bound.rollback # None
  /\ Rewrite(k, bound.rollback, Restored(bound.rollback), bound.rollback)

(* The engine is made anew, with no listener on its transactions; then     *)
(* Qdrant's client, from what the settings say now, or local storage.      *)
Rebind(k, reachable) ==
  /\ switch[k].pc = "dispose" /\ ~Blocked
  /\ ~reachable => "qdrant" \in Faults /\ faults < MaxFaults
  /\ LET store == IF reachable THEN bound.settings["vectors"] ELSE "local"
     IN IF bound.redis = None
        THEN /\ bound' = [bound EXCEPT !.qdrant = store, !.index = bound.settings["database"],
                                       !.tried = FALSE]
             /\ switch' = [switch EXCEPT ![k] = Idle]
        ELSE /\ bound' = [bound EXCEPT !.qdrant = store]
             /\ switch' = [switch EXCEPT ![k].pc = "redis"]
  /\ live' = switch[k].to /\ immediate' = FALSE
  /\ guarded' = (guarded /\ switch[k].to # Source)
  /\ faults' = IF reachable THEN faults ELSE faults + 1
  /\ UNCHANGED <<admins, lock, tokens, request, calls, broken, switches>> /\ SwitchUnchanged

(* Redis is closed, and the index read from the database of the settings.  *)
ReloadLazy(k) ==  \* mutant: the cache keeps its connection
  /\ switch[k].pc = "redis" /\ ~Blocked
  /\ bound' = [bound EXCEPT !.tried = FALSE, !.index = bound.settings["database"]]
  /\ switch' = [switch EXCEPT ![k] = Idle]
  /\ UNCHANGED <<accountVars, broken, faults, switches>> /\ SwitchUnchanged

Reload(k) ==
  /\ switch[k].pc = "redis" /\ ~Blocked
  /\ bound' = [bound EXCEPT !.redis = None, !.tried = FALSE, !.index = bound.settings["database"]]
  /\ switch' = [switch EXCEPT ![k] = Idle]
  /\ UNCHANGED <<accountVars, broken, faults, switches>> /\ SwitchUnchanged

(* The old engine cannot be closed; or the new one is made, the old client *)
(* of Qdrant closed and no new one made, not even of the local storage.    *)
(* .env and the settings stay rewritten.                                   *)
Raise(k, late) ==
  /\ (IF late THEN "client" ELSE "dispose") \in Faults /\ faults < MaxFaults
  /\ switch[k].pc = "dispose" /\ ~Blocked
  /\ IF late
     THEN /\ live' = switch[k].to /\ immediate' = FALSE
          /\ guarded' = (guarded /\ switch[k].to # Source)
          /\ bound' = [bound EXCEPT !.qdrant = "closed"]
     ELSE UNCHANGED <<live, immediate, guarded, bound>>
  /\ switch' = [switch EXCEPT ![k] = Idle] /\ broken' = TRUE
  /\ faults' = faults + 1
  /\ UNCHANGED <<admins, lock, tokens, request, calls, switches>> /\ SwitchUnchanged

(* The first request for the cache connects to the Redis of the settings,  *)
(* and while it waits for the answer a cutover may come and go.            *)
Dial ==
  /\ ~Blocked /\ ~bound.tried
  /\ bound' = [bound EXCEPT !.tried = TRUE, !.dialing = @ \cup {bound.settings["redis"]}]
  /\ UNCHANGED <<accountVars, switch, broken, faults, switches>> /\ SwitchUnchanged

Answer(v, up) ==
  /\ ~Blocked /\ v \in bound.dialing
  /\ bound' = [bound EXCEPT !.redis = IF up THEN v ELSE None, !.dialing = @ \ {v}]
  /\ UNCHANGED <<accountVars, switch, broken, faults, switches>> /\ SwitchUnchanged

-----------------------------------------------------------------------------
(* The server process is killed and started: everything comes from .env,   *)
(* and what it does not name has the default that the source runs with.    *)
Restart ==
  /\ "crash" \in Faults /\ faults < MaxFaults
  /\ admins' = [admins EXCEPT ![bound.env] = Seed(@)]
  /\ live' = bound.env /\ immediate' = (Sqlite /\ bound.env = Source)
  /\ lock' = None /\ request' = [s \in Sessions |-> NoRequest]
  /\ job' = NoJob
  /\ bound' = [bound EXCEPT !.settings = AllOf(bound.env), !.qdrant = bound.env,
                            !.index = bound.env, !.redis = None, !.tried = FALSE,
                            !.dialing = {}]
  /\ switch' = [k \in Switchers |-> Idle] /\ broken' = FALSE
  /\ faults' = faults + 1
  /\ UNCHANGED <<guarded, tokens, calls, docs, points, kept, clean, jobs, switches, worker, writes>>

RestartWorker ==
  /\ worker # bound.env
  /\ worker' = bound.env
  /\ UNCHANGED <<accountVars, copyVars, bindVars, writes, faults>>

Next ==
  \/ Account \/ Write
  \/ \E t \in Targets : Start(t)
  \/ Cancel \/ Copy
  \/ \E rows \in SUBSET job.rows : Fail(rows)
  \/ \E k \in Switchers : \/ Cutover(k) \/ Rollback(k) \/ Reload(k)
                          \/ \E reachable \in BOOLEAN : Rebind(k, reachable)
                          \/ \E late \in BOOLEAN : Raise(k, late)
  \/ Dial \/ \E v \in Servers, up \in BOOLEAN : Answer(v, up)
  \/ Restart \/ RestartWorker

Spec == Init /\ [][Next]_vars

(* The event loop serves the job and the requests: the one that holds the  *)
(* lock goes on.                                                           *)
FairSpec == Spec /\ WF_vars(Copy) /\ WF_vars(Serve)

-----------------------------------------------------------------------------
TypeOK ==
  /\ AccountTypeOK
  /\ docs \in [Servers -> SUBSET Docs] /\ points \in [Servers -> SUBSET Docs]
  /\ job.pc \in Steps /\ job.status \in Statuses
  /\ job.source \in Servers \cup {None} /\ job.target \in Targets \cup {None}
  /\ (job.pc = "idle") = (job.status # "running")
  /\ kept.docs \subseteq Docs /\ kept.points \subseteq Docs /\ kept.admins \subseteq Users
  /\ bound.env \in Servers /\ bound.rollback \in Servers \cup {None}
  /\ bound.settings \in [Parts -> Servers] /\ bound.qdrant \in Servers \cup {"local", "closed"}
  /\ bound.dialing \subseteq Servers
  /\ \A k \in Switchers : switch[k].pc \in {"idle", "dispose", "redis"}
  /\ worker \in Servers /\ clean \in BOOLEAN /\ broken \in BOOLEAN

(* A completed job to another server has copied everything that was there  *)
(* when it started and that nobody changed since, into whatever the target *)
(* held, while requests and the worker went on writing (_run_migration).   *)
OldRowsCopied ==
  job.status = "completed" /\ job.target # job.source =>
    /\ kept.docs \subseteq docs[job.target]
    /\ kept.points \subseteq points[job.target]
    /\ \A u \in kept.admins : admins[job.target][u] = admins[job.source][u]

(* The report that shows 100 % says that the two servers are equal, not    *)
(* only as large, if nobody wrote meanwhile: leftovers of an earlier job   *)
(* never make up for something that is missing (_run_migration).           *)
ParityIsEquality ==
  job.report = "match" /\ clean =>
    /\ docs[job.source] = docs[job.target]
    /\ points[job.source] = points[job.target]
    /\ admins[job.source] = admins[job.target]

(* Between cutovers, rollbacks and restarts every part of the process uses *)
(* one server, the one .env names, unless a hot reload has raised or .env  *)
(* has no line for that part (execute_cutover, execute_rollback).          *)
OneServer ==
  Settled /\ ~broken =>
    /\ {live, bound.env, bound.settings["database"], bound.index} = {live}
    /\ "vectors" \in NamedBy(live) => {bound.settings["vectors"], bound.qdrant} = {live}
    /\ "redis" \in NamedBy(live) => bound.settings["redis"] = live /\ bound.redis \in {None, live}

(* The process is only ever bound to a server with an active superadmin,   *)
(* so that nobody is locked out by a cutover, a rollback or a restart, as  *)
(* long as the source keeps its own and no hot reload has raised, after    *)
(* which .env names a server that the next job may empty (execute_cutover, *)
(* execute_rollback, USER_MANUAL.md:1375).                                 *)
NewServerHasSuperadmin ==
  [][live' # live /\ guarded /\ ~broken => Superadmins(admins'[live']) # {}]_vars

(* A migration ends, whatever holds the lock of the database               *)
(* (MigrationManager).                                                     *)
MigrationEnds == job.status = "running" ~> job.status # "running"
=============================================================================
