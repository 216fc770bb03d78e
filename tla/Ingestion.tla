------------------------------ MODULE Ingestion ------------------------------
(***************************************************************************)
(* The document ingestion pipeline: the manifest that detects changes      *)
(* (ingestion/manifest.py), the pipeline that extracts and stores a file   *)
(* (ingestion/pipeline.py), the Celery task that embeds and indexes it     *)
(* (workers/ingest_tasks.py), the pipelines that run inside the API server *)
(* (run_single_file_full_ingest and the streaming ingestion of             *)
(* api/routers/admin_governance.py) and the administration calls that      *)
(* change the manifest under a running pipeline.                           *)
(*                                                                         *)
(* A step of a pipeline is what it does between two points where another   *)
(* process can act: a database commit, a read of the file, a call of the   *)
(* vector store.  A file is its content (standing for its SHA-256) and its *)
(* modification time; a document is the set of its chunks.                 *)
(***************************************************************************)
EXTENDS Naturals, FiniteSets

CONSTANTS
  Paths,       \* the files of the watched folders
  Contents,    \* what a file can contain; also its SHA-256
  NoContent,   \* the content of a file that does not exist, the hash of no row
  Celery,      \* Celery worker processes
  Api,         \* pipelines run by requests of the API server
  Serialised,  \* TRUE: SQLite, BEGIN IMMEDIATE; FALSE: PostgreSQL, several writers
  Watched,     \* TRUE: a watchdog observer reports each write of a file
  AdminOps,    \* the administration calls that may happen
  Faults,      \* the kinds of failure that may happen
  MaxRetries,  \* max_retries of the Celery task
  MaxMtime,    \* bound on the number of changes of each file
  MaxOps,      \* bound on the number of administration calls
  MaxFaults    \* bound on the number of failures

ASSUME ConstantsOK ==
  /\ NoContent \notin Contents
  /\ Celery \cap Api = {}
  /\ Serialised \in BOOLEAN /\ Watched \in BOOLEAN
  /\ {MaxRetries, MaxMtime, MaxOps, MaxFaults} \subseteq Nat
  /\ AdminOps \subseteq {"ingest", "force", "delete", "refetch", "audit", "clear", "dismiss"}
  /\ Faults \subseteq {"extract", "record", "raise", "crash", "qdrant", "read"}

Workers == Celery \cup Api

VARIABLES
  file,      \* the disk: content and modification time of each path
  queue,     \* the Celery messages waiting in the broker
  manifest,  \* the rows of manifest_entries
  docs,      \* the committed rows of documents, with their chunks
  nextDoc,   \* the next document identifier
  embedded,  \* documents whose chunks have an embedding_ref
  vectors,   \* documents whose vectors are in Qdrant
  worker,    \* what each pipeline is doing
  admin,     \* the administration call that is under way
  ops,       \* administration calls so far
  faults     \* failures so far

db   == <<manifest, docs, nextDoc, embedded>>
vars == <<file, queue, manifest, docs, nextDoc, embedded, vectors, worker, admin, ops, faults>>

Hashes   == Contents \cup {NoContent}
Statuses == {"none", "processing", "done", "failed", "skipped_duplicate",
             "indexed", "changed", "missing"}
Rows     == [status : Statuses, hash : Hashes, mtime : Nat]
NoRow    == [status |-> "none", hash |-> NoContent, mtime |-> 0]
Row(status, hash, mtime) == [status |-> status, hash |-> hash, mtime |-> mtime]

Messages == [path : Paths, attempt : 0 .. MaxRetries]

(* Kinds of pipeline: the Celery task, the single-file call of the API     *)
(* (retry of failed files, notice scout) and the streaming ingestion.      *)
Kinds == {"task", "single", "stream"}
Pcs   == {"idle", "look", "claim", "mark", "extract", "save", "finish", "failed",
          "embed", "upsert"}
Work  == [pc : Pcs, kind : Kinds, force : BOOLEAN, path : Paths, attempt : 0 .. MaxRetries,
          seen : Rows, loaded : BOOLEAN, hash : Hashes, mtime : Nat, content : Hashes,
          doc : Nat]
Idle  == [pc |-> "idle"]
Start(kind, force, p, attempt) ==
  [pc |-> "look", kind |-> kind, force |-> force, path |-> p, attempt |-> attempt,
   seen |-> NoRow, loaded |-> FALSE, hash |-> NoContent, mtime |-> 0,
   content |-> NoContent, doc |-> 0]

(* An administration call that takes more than one step: the documents it  *)
(* is deleting, or the rows an audit has read.                             *)
Documents == [id : Nat, path : Paths, content : Contents, claim : Nat]
NoRows    == [p \in Paths |-> NoRow]
Call(op, gone, rows) == [op |-> op, gone |-> gone, rows |-> rows]
NoCall    == Call("none", {}, NoRows)

Busy(w)   == worker[w].pc # "idle"
Exists(p) == file[p].content # NoContent

(* With SQLite every transaction starts with BEGIN IMMEDIATE: nobody else  *)
(* reaches the database between the first read of should_process and its   *)
(* write, nor while the text is extracted (record_entry refreshes the row  *)
(* it committed, which opens the transaction that commits the document),   *)
(* nor while a deletion or an audit is between its reads and its commit.   *)
NoLock(w)  == FALSE
Locks(w)   == Serialised /\ worker[w].pc \in {"claim", "save"}
AdminLocks == Serialised /\ admin.op # "none"
DbFree(w)  == ~AdminLocks /\ \A v \in Workers \ {w} : ~Locks(v)

Init ==
  /\ file \in [Paths -> [content : Hashes, mtime : {0}]]
  /\ queue = {}
  /\ manifest = [p \in Paths |-> NoRow]
  /\ docs = {} /\ nextDoc = 1
  /\ embedded = {} /\ vectors = {}
  /\ worker = [w \in Workers |-> Idle]
  /\ admin = NoCall
  /\ ops = 0 /\ faults = 0

-----------------------------------------------------------------------------
(* The disk and the broker.                                                *)

Enqueue(ps) == queue' = queue \cup {[path |-> p, attempt |-> 0] : p \in ps}

(* A file is created or edited; the watchdog handler dispatches a task.    *)
WriteFile(p) ==
  /\ file[p].mtime < MaxMtime
  /\ \E c \in Contents \ {file[p].content} :
       file' = [file EXCEPT ![p] = [content |-> c, mtime |-> @.mtime + 1]]
  /\ IF Watched THEN Enqueue({p}) ELSE UNCHANGED queue
  /\ UNCHANGED <<db, vectors, worker, admin, ops, faults>>

(* A file is removed: the handler has no on_deleted.                       *)
RemoveFile(p) ==
  /\ file[p].mtime < MaxMtime
  /\ Exists(p)
  /\ file' = [file EXCEPT ![p] = [content |-> NoContent, mtime |-> @.mtime + 1]]
  /\ UNCHANGED <<queue, db, vectors, worker, admin, ops, faults>>

(* reconcile_folder (a scan), or an upload of the file.                    *)
Scan(p) ==
  /\ Exists(p)
  /\ Enqueue({p})
  /\ UNCHANGED <<file, db, vectors, worker, admin, ops, faults>>

(* A Celery worker starts process_document_pipeline on a path.             *)
Take(w, p) ==
  /\ w \in Celery /\ ~Busy(w)
  /\ \E m \in queue :
       /\ m.path = p
       /\ queue' = queue \ {m}
       /\ worker' = [worker EXCEPT ![w] = Start("task", FALSE, p, m.attempt)]
  /\ UNCHANGED <<file, db, vectors, admin, ops, faults>>

(* A request of the API server ingests a file.                             *)
StartApi(w, p) ==
  /\ w \in Api /\ ~Busy(w)
  /\ ops < MaxOps
  /\ Exists(p)
  /\ \E kind \in {"single", "stream"}, force \in BOOLEAN :
       /\ (IF force THEN "force" ELSE "ingest") \in AdminOps
       /\ worker' = [worker EXCEPT ![w] = Start(kind, force, p, 0)]
  /\ ops' = ops + 1
  /\ UNCHANGED <<file, queue, db, vectors, admin, faults>>

-----------------------------------------------------------------------------
(* The pipeline.                                                           *)

(* What a session has loaded of a row is gone when it commits: the objects *)
(* of the ORM are held by nobody.                                          *)
Goto(w, pc)  == worker' = [worker EXCEPT ![w] =
                     [@ EXCEPT !.pc = pc, !.loaded = FALSE, !.seen = NoRow]]
Release(w)   == worker' = [worker EXCEPT ![w] = Idle]

(* record_entry reads the row and then writes, with PostgreSQL after what  *)
(* others have committed in between.                                       *)
Records(w) == worker[w].pc \in {"mark", "finish", "failed"}
LoadRow(w) ==
  /\ ~Serialised /\ Records(w) /\ ~worker[w].loaded
  /\ worker' = [worker EXCEPT ![w] =
                  [@ EXCEPT !.loaded = TRUE, !.seen = manifest[worker[w].path]]]
  /\ UNCHANGED <<file, queue, db, vectors, admin, ops, faults>>
MayRecord(w) == Records(w) /\ DbFree(w) /\ (Serialised \/ worker[w].loaded)

(* The ORM inserts a row, or updates the columns that differ from what was *)
(* read.  An insert of a row that is there by now fails, and so does the   *)
(* update of one that is gone.                                             *)
Old(w) == IF Serialised THEN manifest[worker[w].path] ELSE worker[w].seen
Conflict(w) == (Old(w).status = "none") # (manifest[worker[w].path].status = "none")
Merge(old, new, now) ==
  Row(IF new.status = old.status THEN now.status ELSE new.status,
      IF new.hash = old.hash THEN now.hash ELSE new.hash,
      IF new.mtime = old.mtime THEN now.mtime ELSE new.mtime)
Put(w, row) == manifest' = [manifest EXCEPT ![worker[w].path] = Merge(Old(w), row, @)]

(* record_entry: the row takes the hash and the modification time that     *)
(* should_process returned.                                                *)
RecordAsIs(w, status) ==
  ~Conflict(w) /\ Put(w, Row(status, worker[w].hash, file[worker[w].path].mtime))
Record(w, status) ==
  ~Conflict(w) /\ Put(w, Row(status, worker[w].hash, worker[w].mtime))

(* process_file returns "skipped", or goes on when the caller forces it,   *)
(* with the hash of the row and the modification time of the file.         *)
SkipOrForce(w, hash, mtime) ==
  IF worker[w].force
  THEN worker' = [worker EXCEPT ![w] =
                       [@ EXCEPT !.pc = "mark", !.hash = hash, !.mtime = mtime,
                                 !.loaded = FALSE, !.seen = NoRow]]
  ELSE Release(w)

(* The rows for which should_process hashes the file.                      *)
HashesUnlocked(row, t) == row.status \in {"none", "failed"} \/ row.mtime # t
HashesChanged(row, t)  == \/ row.status = "none"
                          \/ row.status # "processing" /\ row.mtime # t
MustHash(row, t) == \/ row.status \in {"none", "failed"}
                    \/ row.status # "processing" /\ row.mtime # t

(* should_process up to the read of the file: the modification time and    *)
(* the row, and the verdicts that need no hash.                            *)
Look(w) ==
  /\ worker[w].pc = "look"
  /\ DbFree(w)
  /\ LET p   == worker[w].path
         row == manifest[p]
         t   == file[p].mtime
     IN  IF ~Exists(p)
         THEN Release(w)
         ELSE IF MustHash(row, t)
              THEN worker' = [worker EXCEPT ![w] =
                                  [@ EXCEPT !.pc = "claim", !.seen = row, !.mtime = t,
                                            !.loaded = TRUE]]
              ELSE SkipOrForce(w, row.hash, t)
  /\ UNCHANGED <<file, queue, db, vectors, admin, ops, faults>>

(* A task that ends with an exception is sent again, max_retries times.    *)
ResendAlways(w) ==
  IF worker[w].kind = "task"
  THEN queue' = queue \cup {[path |-> worker[w].path, attempt |-> worker[w].attempt + 1]}
  ELSE UNCHANGED queue
Resend(w) ==
  IF worker[w].kind = "task" /\ worker[w].attempt < MaxRetries
  THEN queue' = queue \cup {[path |-> worker[w].path, attempt |-> worker[w].attempt + 1]}
  ELSE UNCHANGED queue

(* The rest of should_process: hash the file, look for a finished entry    *)
(* with that hash, write the row.                                          *)
Duplicate(w, h) ==
  \E q \in Paths : /\ manifest[q].status = "done"
                   /\ manifest[q].hash = h
                   /\ worker[w].seen.status # "none" => q # worker[w].path

(* The file is gone and open() raises; or the write of record_entry does.  *)
ClaimRaises(w) ==
  /\ worker[w].pc = "claim"
  /\ ~Exists(worker[w].path) \/ Conflict(w)
  /\ Release(w) /\ Resend(w)
  /\ UNCHANGED <<file, db, vectors, admin, ops, faults>>

Claim(w) ==
  /\ worker[w].pc = "claim"
  /\ Exists(worker[w].path)
  /\ LET p    == worker[w].path
         h    == file[p].content
         seen == worker[w].seen
         new  == seen.status \in {"none", "failed"} \/ h # seen.hash
     IN  \/ /\ ~new                                    \* touched, not changed
            /\ UNCHANGED manifest
            /\ SkipOrForce(w, h, worker[w].mtime)
         \/ /\ new /\ Duplicate(w, h) /\ ~Conflict(w)
            /\ Put(w, Row("skipped_duplicate", h, worker[w].mtime))
            /\ SkipOrForce(w, h, worker[w].mtime)
         \/ /\ new /\ ~Duplicate(w, h) /\ ~Conflict(w)
            /\ Put(w, Row("processing", h, worker[w].mtime))
            /\ worker' = [worker EXCEPT ![w] =
                            [@ EXCEPT !.pc = "mark", !.hash = h,
                                      !.loaded = FALSE, !.seen = NoRow]]
  /\ UNCHANGED <<file, queue, docs, nextDoc, embedded, vectors, admin, ops, faults>>

(* process_file records "processing" once more before its try block.       *)
Mark(w) ==
  /\ worker[w].pc = "mark"
  /\ MayRecord(w)
  /\ Record(w, "processing")
  /\ Goto(w, "extract")
  /\ UNCHANGED <<file, queue, docs, nextDoc, embedded, vectors, admin, ops, faults>>

(* The except block of process_file rolls back and records the failure.    *)
OnlyRollBack(w) ==
  /\ worker[w].pc = "failed"
  /\ MayRecord(w)
  /\ Release(w)
  /\ UNCHANGED <<file, queue, db, vectors, admin, ops, faults>>
RecordFailed(w) ==
  /\ worker[w].pc = "failed"
  /\ MayRecord(w)
  /\ Record(w, "failed")
  /\ Release(w)
  /\ UNCHANGED <<file, queue, docs, nextDoc, embedded, vectors, admin, ops, faults>>

(* The write of record_entry raises: in the try block for "done", outside  *)
(* of it for the others.                                                   *)
RecordRaises(w) ==
  /\ MayRecord(w) /\ Conflict(w)
  /\ \/ /\ worker[w].pc = "finish"
        /\ Goto(w, "failed")
        /\ UNCHANGED queue
     \/ /\ worker[w].pc # "finish"
        /\ Release(w) /\ Resend(w)
  /\ UNCHANGED <<file, db, vectors, admin, ops, faults>>

(* The text is extracted in a thread; a missing file raises.               *)
Extract(w) ==
  /\ worker[w].pc = "extract"
  /\ DbFree(w)
  /\ LET c == file[worker[w].path].content
     IN  \/ /\ c # NoContent
            /\ worker' = [worker EXCEPT ![w] = [@ EXCEPT !.pc = "save", !.content = c]]
         \/ c = NoContent /\ Goto(w, "failed")
  /\ UNCHANGED <<file, queue, db, vectors, admin, ops, faults>>

(* The document and its chunks are committed.                              *)
Save(w) ==
  /\ worker[w].pc = "save"
  /\ DbFree(w)
  /\ docs' = docs \cup {[id |-> nextDoc, path |-> worker[w].path,
                         content |-> worker[w].content, claim |-> worker[w].mtime]}
  /\ nextDoc' = nextDoc + 1
  /\ worker' = [worker EXCEPT ![w] =
                  [@ EXCEPT !.doc = nextDoc,
                            !.pc = IF worker[w].kind = "stream" THEN "embed" ELSE "finish"]]
  /\ UNCHANGED <<file, queue, manifest, embedded, vectors, admin, ops, faults>>

(* The row becomes "done".  The stream has then ended; the others still    *)
(* have to index the document.                                             *)
Finish(w) ==
  /\ worker[w].pc = "finish"
  /\ MayRecord(w)
  /\ Record(w, "done")
  /\ IF worker[w].kind = "stream" THEN Release(w) ELSE Goto(w, "embed")
  /\ UNCHANGED <<file, queue, docs, nextDoc, embedded, vectors, admin, ops, faults>>

(* The chunks are embedded and their embedding_ref committed; the tags of  *)
(* the call, which the task commits before, are left out.  When the        *)
(* document was deleted meanwhile, the task finds no chunk and returns; a  *)
(* session that holds the chunks raises: the stream's, and with PostgreSQL *)
(* that of a task which had read them.                                     *)
Saved(w) == \E d \in docs : d.id = worker[w].doc
EmbedUncommitted(w) ==
  /\ worker[w].pc = "embed"
  /\ Goto(w, "upsert")
  /\ UNCHANGED <<file, queue, db, vectors, admin, ops, faults>>
Embed(w) ==
  /\ worker[w].pc = "embed"
  /\ DbFree(w)
  /\ \/ /\ Saved(w)
        /\ embedded' = embedded \cup {worker[w].doc}
        /\ Goto(w, "upsert")
        /\ UNCHANGED queue
     \/ /\ ~Saved(w) /\ worker[w].kind # "stream"
        /\ Release(w)
        /\ UNCHANGED embedded
        /\ UNCHANGED queue \/ (~Serialised /\ Resend(w))
     \/ /\ ~Saved(w) /\ worker[w].kind = "stream"
        /\ Goto(w, "failed")
        /\ UNCHANGED <<queue, embedded>>
  /\ UNCHANGED <<file, manifest, docs, nextDoc, vectors, admin, ops, faults>>

(* The vectors are written to Qdrant, outside any transaction.             *)
Upsert(w) ==
  /\ worker[w].pc = "upsert"
  /\ vectors' = vectors \cup {worker[w].doc}
  /\ IF worker[w].kind = "stream" THEN Goto(w, "finish") ELSE Release(w)
  /\ UNCHANGED <<file, queue, db, admin, ops, faults>>

Step(w) == \/ Look(w) \/ ClaimRaises(w) \/ Claim(w) \/ LoadRow(w) \/ Mark(w)
           \/ Extract(w) \/ Save(w) \/ Finish(w) \/ RecordFailed(w) \/ RecordRaises(w)
           \/ Embed(w) \/ Upsert(w)

-----------------------------------------------------------------------------
(* Failures.                                                               *)

Fault(kind) == kind \in Faults /\ faults < MaxFaults /\ faults' = faults + 1

(* An exception inside the try block.  "extract" faults hit before the     *)
(* document is committed, "record" faults after: the write of "done", and  *)
(* the stream's embedder and Qdrant.                                       *)
InTry(w) == \/ worker[w].pc \in {"extract", "save", "finish"}
            \/ worker[w].pc \in {"embed", "upsert"} /\ worker[w].kind = "stream"
Fail(w) ==
  /\ InTry(w)
  /\ Fault(IF worker[w].pc \in {"extract", "save"} THEN "extract" ELSE "record")
  /\ Goto(w, "failed")
  /\ UNCHANGED <<file, queue, db, vectors, admin, ops>>

(* An exception that leaves process_file or the task: the database stays   *)
(* locked for 60 s, the embedder or Qdrant fails, the failure itself       *)
(* cannot be recorded.                                                     *)
Raise(w) ==
  /\ Busy(w)
  /\ Fault("raise")
  /\ Resend(w)
  /\ Release(w)
  /\ UNCHANGED <<file, db, vectors, admin, ops>>

(* The process is killed.  With acks_late the broker delivers the message  *)
(* of a lost host again; a lost child of a live host acknowledges it.  A   *)
(* closed stream ends the same way.                                        *)
Crash(w) ==
  /\ Busy(w)
  /\ Fault("crash")
  /\ Release(w)
  /\ \/ UNCHANGED queue
     \/ /\ worker[w].kind = "task"
        /\ queue' = queue \cup {[path |-> worker[w].path, attempt |-> worker[w].attempt]}
  /\ UNCHANGED <<file, db, vectors, admin, ops>>

-----------------------------------------------------------------------------
(* Administration calls.                                                   *)

(* Calls that take more than one step do not overlap.                      *)
Op(name) == /\ name \in AdminOps
            /\ ops < MaxOps /\ ops' = ops + 1
            /\ admin.op = "none"
            /\ \A v \in Workers : ~Locks(v)

(* A deletion reads the documents, and deletes their vectors; where Qdrant *)
(* fails it leaves them and goes on.                                       *)
DeletePoints(op, gone) ==
  /\ Op(op)
  /\ admin' = Call(op, gone, NoRows)
  /\ \/ /\ vectors' = vectors \ {d.id : d \in gone}
        /\ UNCHANGED faults
     \/ /\ Fault("qdrant")
        /\ \E left \in (SUBSET gone) \ {{}} : vectors' = vectors \ {d.id : d \in gone \ left}
  /\ UNCHANGED <<file, queue, db, worker>>

(* delete_document_cascade, batch_delete_documents, purge_corpus; and      *)
(* force_refetch_folder, which takes everything of the folder.             *)
Delete       == \E gone \in (SUBSET docs) \ {{}} : DeletePoints("delete", gone)
ForceRefetch == DeletePoints("refetch", docs)

(* Their rows are deleted and committed; a refetch then scans the folder.  *)
DeleteRows ==
  /\ admin.op \in {"delete", "refetch"}
  /\ LET gone == admin.gone
         rows == IF admin.op = "refetch" THEN Paths ELSE {d.path : d \in gone}
     IN  /\ docs' = docs \ gone
         /\ embedded' = embedded \ {d.id : d \in gone}
         /\ manifest' = [p \in Paths |-> IF p \in rows THEN NoRow ELSE manifest[p]]
  /\ IF admin.op = "refetch" THEN Enqueue({p \in Paths : Exists(p)}) ELSE UNCHANGED queue
  /\ admin' = NoCall
  /\ UNCHANGED <<file, nextDoc, vectors, worker, ops, faults>>

(* verify_manifest_integrity reads all rows, compares each with its file,  *)
(* and rewrites every status; a file that cannot be read is "failed".      *)
Audit ==
  /\ Op("audit")
  /\ admin' = Call("audit", {}, manifest)
  /\ UNCHANGED <<file, queue, db, vectors, worker, faults>>

Verdict(p, unread) ==
  IF ~Exists(p) THEN "missing"
  ELSE IF p \in unread THEN "failed"
  ELSE IF file[p].content = admin.rows[p].hash THEN "indexed" ELSE "changed"
Audited == {p \in Paths : admin.rows[p].status # "none"}

(* The update of a row that is gone fails, and with it the whole audit.    *)
WriteAudit(unread) ==
  /\ admin.op = "audit"
  /\ \/ /\ unread = {}
        /\ UNCHANGED faults
     \/ /\ unread # {} /\ unread \subseteq Audited
        /\ Fault("read")
  /\ manifest' =
       IF \E p \in Audited : /\ manifest[p].status = "none"
                             /\ Verdict(p, unread) # admin.rows[p].status
       THEN manifest
       ELSE [p \in Paths |->
               IF p \notin Audited THEN manifest[p]
               ELSE LET old == admin.rows[p]
                    IN  Merge(old, [old EXCEPT !.status = Verdict(p, unread)], manifest[p])]
  /\ admin' = NoCall
  /\ UNCHANGED <<file, queue, docs, nextDoc, embedded, vectors, worker, ops>>

(* A call under way ends with an exception or the server.                  *)
AbandonCall ==
  /\ admin.op # "none"
  /\ Fault("raise") \/ Fault("crash")
  /\ admin' = NoCall
  /\ UNCHANGED <<file, queue, db, vectors, worker, ops>>

(* clear_all_failed_files; delete_single_failed_file takes any row.        *)
Forget(ps) ==
  /\ manifest' = [p \in Paths |-> IF p \in ps THEN NoRow ELSE manifest[p]]
  /\ UNCHANGED <<file, queue, docs, nextDoc, embedded, vectors, worker, admin, faults>>
ClearFailed == Op("clear") /\ Forget({p \in Paths : manifest[p].status = "failed"})
Dismiss(p)  == Op("dismiss") /\ manifest[p].status # "none" /\ Forget({p})

-----------------------------------------------------------------------------
Environment == \E p \in Paths : WriteFile(p) \/ RemoveFile(p) \/ Scan(p) \/ Dismiss(p)
AdminStep   == DeleteRows \/ \E unread \in SUBSET Paths : WriteAudit(unread)
Admin       == Delete \/ ForceRefetch \/ Audit \/ AdminStep \/ AbandonCall \/ ClearFailed

Next == \/ Environment
        \/ Admin
        \/ \E w \in Workers : \/ Step(w) \/ Fail(w) \/ Raise(w) \/ Crash(w)
                              \/ \E p \in Paths : Take(w, p) \/ StartApi(w, p)

Spec == Init /\ [][Next]_vars

(* A worker that is not killed goes on, and so does a call; a transaction  *)
(* that waits for the database gets it in the end (busy_timeout), and no   *)
(* message of the broker's queue waits for ever while workers become free. *)
FairSpec == /\ Spec
            /\ \A w \in Workers : SF_vars(Step(w))
            /\ WF_vars(AdminStep)
            /\ \A p \in Paths : SF_vars(\E w \in Celery : Take(w, p))

(* Somebody keeps scanning the folders.                                    *)
RescanSpec == FairSpec /\ \A p \in Paths : WF_vars(Scan(p))

-----------------------------------------------------------------------------
(* Properties.                                                             *)

(* Every variable keeps its type, at every step of every pipeline.         *)
TypeOK ==
  /\ file \in [Paths -> [content : Hashes, mtime : Nat]]
  /\ queue \subseteq Messages
  /\ manifest \in [Paths -> Rows]
  /\ docs \subseteq Documents
  /\ nextDoc \in Nat
  /\ embedded \subseteq Nat /\ vectors \subseteq Nat
  /\ worker \in [Workers -> Work \cup {Idle}]
  /\ admin \in [op : {"none"} \cup ({"delete", "refetch", "audit"} \cap AdminOps),
                gone : SUBSET Documents, rows : [Paths -> Rows]]
  /\ ops \in Nat /\ faults \in Nat

(* A row that says "done" for the file as it is now (same modification     *)
(* time) tells the truth: that content is in a document.  should_process   *)
(* answers "unchanged" on the strength of it.  Deletions aside, it holds   *)
(* on SQLite in every interleaving, with every failure and audit.  (With   *)
(* PostgreSQL a record_entry that writes the columns it found changed may  *)
(* complete another one's row.)                                            *)
Stored(p) == \E d \in docs : d.path = p /\ d.content = file[p].content
DoneIsCurrent ==
  \A p \in Paths :
    manifest[p].status = "done" /\ manifest[p].mtime = file[p].mtime => Stored(p)

(* The pipelines that have claimed a path and not yet closed the claim.    *)
Owns(w) == InTry(w) \/ worker[w].pc \in {"mark", "failed"}

(* The "processing" status is a lock: while a pipeline works on a path, no *)
(* other one does.                                                         *)
SingleOwner ==
  \A v, w \in Workers :
    Owns(v) /\ Owns(w) /\ worker[v].path = worker[w].path => v = w

(* A version of a file (its modification time when it was claimed) gives   *)
(* at most one document, whatever is retried, redelivered or cleared.      *)
OneDocumentPerVersion ==
  \A d, e \in docs : d.path = e.path /\ d.claim = e.claim => d = e

(* While no process dies and no exception leaves the pipeline, a row that  *)
(* says "processing" has a pipeline working on it.                         *)
ProcessingIsOwned ==
  \A p \in Paths : manifest[p].status = "processing" =>
    \E w \in Workers : Owns(w) /\ worker[w].path = p

(* Every file that is left alone is in the end finished, or skipped as the *)
(* copy of a finished one, whatever failed on the way.                     *)
Settled(p) ==
  Exists(p) => /\ manifest[p].status \in {"done", "skipped_duplicate"}
               /\ manifest[p].hash = file[p].content
EventuallySettled == \A p \in Paths : <>[]Settled(p)

(* A document whose vectors are in Qdrant has its embedding_ref committed: *)
(* the repair script, which indexes the chunks without one, never indexes  *)
(* a document twice, whatever is purged or ingested meanwhile.             *)
IndexedIsEmbedded == \A d \in docs : d.id \in vectors => d.id \in embedded

(* What the documentation promises, and the code does not do.              *)

(* Every file written under a watchdog observer is in the end ingested     *)
(* without anybody asking for a scan ("watchdog events + reconciliation    *)
(* automatically indexes new and updated documents").                      *)
EventsSuffice == \A p \in Paths : <>[](file[p].mtime > 0 => Settled(p))

(* A file that is skipped as a duplicate has its content in the index once *)
(* the pipelines rest ("Duplicate file content already indexed").          *)
Quiet == queue = {} /\ \A w \in Workers : ~Busy(w)
DuplicateIsIndexed ==
  Quiet => \A p \in Paths : manifest[p].status = "skipped_duplicate" =>
             \E d \in docs : d.content = manifest[p].hash /\ d.id \in vectors

(* A finished file is in the vector store once the pipelines rest.         *)
DoneIsIndexed ==
  Quiet => \A p \in Paths : manifest[p].status = "done" =>
             \E d \in docs : d.path = p /\ d.id \in vectors

(* An edited file that is finished again has only its new content in the   *)
(* corpus ("updates edited documents").                                    *)
EditedIsReplaced ==
  Quiet => \A p \in Paths :
             manifest[p].status = "done" /\ manifest[p].mtime = file[p].mtime =>
               \A d \in docs : d.path = p => d.content = file[p].content

(* Deleting a document leaves none of its vectors behind.                  *)
NoOrphanVectors == vectors \subseteq {d.id : d \in docs}

(* A deleted document can be ingested again by a scan: its file has no row *)
(* that says "done".                                                       *)
DoneHasDocument ==
  \A p \in Paths : manifest[p].status = "done" => \E d \in docs : d.path = p

=============================================================================
