--------------------------- MODULE IngestionProofs ---------------------------
(* What Ingestion guarantees for every set of files, workers and bounds.   *)
EXTENDS IngestionInvariants, TLAPS

(* A pipeline that is not idle has a complete record.                      *)
LEMMA BusyWork ==
  ASSUME TypeOK, NEW w \in Workers, worker[w].pc # "idle"
  PROVE  worker[w] \in Work
BY DEF TypeOK, Idle

(* A step, or a failure, is one of a pipeline that is busy.                *)
LEMMA StepBusy ==
  ASSUME TypeOK, NEW w \in Workers, Step(w) \/ Fail(w) \/ Raise(w) \/ Crash(w)
  PROVE  /\ worker[w] \in Work /\ worker[w].pc # "idle"
         /\ worker[w].path \in Paths /\ worker[w].pc \in Pcs
         /\ worker[w].hash \in Hashes /\ worker[w].mtime \in Nat
<1>1. worker[w].pc # "idle"
  BY DEF Step, Look, ClaimRaises, Claim, LoadRow, Mark, Extract, Save, Finish, RecordFailed,
     RecordRaises, MayRecord, Records, Embed, Upsert, Fail, InTry, Raise, Crash, Busy
<1> QED
  BY <1>1, BusyWork DEF Work

(* What a pipeline records about its path is a row.                        *)
LEMMA PutType ==
  ASSUME TypeOK, NEW w \in Workers, worker[w] \in Work, NEW status \in Statuses,
         NEW hash \in Hashes, Put(w, Row(status, hash, worker[w].mtime))
  PROVE  manifest' \in [Paths -> Rows]
<1>1. worker[w].path \in Paths /\ worker[w].mtime \in Nat
  BY DEF Work
<1>2. manifest[worker[w].path] \in Rows
  BY <1>1 DEF TypeOK
<1>3. Merge(Old(w), Row(status, hash, worker[w].mtime), manifest[worker[w].path]) \in Rows
  BY <1>1, <1>2 DEF Merge, Row, Rows
<1> QED
  BY <1>3 DEF TypeOK, Put

LEMMA RecordType ==
  ASSUME TypeOK, NEW w \in Workers, worker[w] \in Work,
         NEW status \in Statuses, Record(w, status)
  PROVE  manifest' \in [Paths -> Rows]
BY PutType DEF Record, Work

(* With SQLite nobody writes between the read and the write of a           *)
(* transaction: the row takes everything that is recorded.                 *)
LEMMA PutAll ==
  ASSUME Serialised, TypeOK, NEW w \in Workers, worker[w].path \in Paths,
         NEW status, NEW hash, NEW mtime, Put(w, Row(status, hash, mtime))
  PROVE  manifest' = [manifest EXCEPT ![worker[w].path] = Row(status, hash, mtime)]
<1> DEFINE now == manifest[worker[w].path]
           new == Row(status, hash, mtime)
<1>1. new.status = status /\ new.hash = hash /\ new.mtime = mtime
  BY DEF Row
<1>2. Merge(now, new, now) = Row(status, hash, mtime)
  BY <1>1 DEF Merge
<1> HIDE DEF new
<1>3. Old(w) = now
  BY DEF Old
<1> QED
  BY <1>2, <1>3 DEF Put, TypeOK, new

(* What Goto does to its pipeline.                                         *)
LEMMA GotoWork ==
  ASSUME TypeOK, NEW w \in Workers, worker[w] \in Work, NEW pc \in Pcs, Goto(w, pc)
  PROVE  /\ worker'[w] \in Work
         /\ worker'[w].pc = pc /\ worker'[w].loaded = FALSE
         /\ worker'[w].path = worker[w].path /\ worker'[w].kind = worker[w].kind
         /\ worker'[w].force = worker[w].force /\ worker'[w].mtime = worker[w].mtime
         /\ worker'[w].doc = worker[w].doc
<1>1. NoRow \in Rows
  BY DEF NoRow, Rows, Statuses, Hashes
<1>2. worker'[w] = [worker[w] EXCEPT !.pc = pc, !.loaded = FALSE, !.seen = NoRow]
  BY DEF Goto, TypeOK
<1> QED
  BY <1>1, <1>2 DEF Work

LEMMA GotoType ==
  ASSUME TypeOK, NEW w \in Workers, worker[w] \in Work, NEW pc \in Pcs, Goto(w, pc)
  PROVE  worker' \in [Workers -> Work \cup {Idle}]
<1>1. [worker[w] EXCEPT !.pc = pc, !.loaded = FALSE, !.seen = NoRow] \in Work
  BY DEF NoRow, Rows, Statuses, Hashes, Work
<1> QED
  BY <1>1 DEF TypeOK, Goto

LEMMA SetType ==
  ASSUME TypeOK, NEW w \in Workers, NEW r \in Work,
         worker' = [worker EXCEPT ![w] = r]
  PROVE  worker' \in [Workers -> Work \cup {Idle}]
BY DEF TypeOK

LEMMA ReleaseType ==
  ASSUME TypeOK, NEW w \in Workers, Release(w)
  PROVE  worker' \in [Workers -> Work \cup {Idle}]
BY DEF TypeOK, Release

LEMMA SkipOrForceType ==
  ASSUME TypeOK, NEW w \in Workers, worker[w] \in Work,
         NEW hash \in Hashes, NEW mtime \in Nat, SkipOrForce(w, hash, mtime)
  PROVE  worker' \in [Workers -> Work \cup {Idle}]
<1>1. [worker[w] EXCEPT !.pc = "mark", !.hash = hash, !.mtime = mtime,
                        !.loaded = FALSE, !.seen = NoRow] \in Work
  BY DEF Work, Pcs, NoRow, Rows, Statuses, Hashes
<1> QED
  BY <1>1, SetType, ReleaseType DEF SkipOrForce

LEMMA ResendType ==
  ASSUME TypeOK, NEW w \in Workers, worker[w] \in Work, Resend(w)
  PROVE  queue' \subseteq Messages
<1>1. worker[w].path \in Paths /\ worker[w].attempt \in 0 .. MaxRetries
  BY DEF Work
<1>2. worker[w].attempt < MaxRetries => worker[w].attempt + 1 \in 0 .. MaxRetries
  BY <1>1, ConstantsOK
<1> QED
  BY <1>1, <1>2 DEF TypeOK, Resend, Messages

(* The administration calls that take two steps.                           *)
LEMMA CallType ==
  ASSUME TypeOK, NEW op \in {"delete", "refetch", "audit"} \cap AdminOps,
         NEW gone \in SUBSET docs, NEW rows \in [Paths -> Rows], admin' = Call(op, gone, rows)
  PROVE  admin' \in [op : {"none"} \cup ({"delete", "refetch", "audit"} \cap AdminOps),
                     gone : SUBSET Documents, rows : [Paths -> Rows]]
BY DEF TypeOK, Call

LEMMA NoCallType ==
  /\ NoRows \in [Paths -> Rows]
  /\ NoCall \in [op : {"none"} \cup ({"delete", "refetch", "audit"} \cap AdminOps),
                 gone : SUBSET Documents, rows : [Paths -> Rows]]
BY DEF NoCall, Call, NoRows, NoRow, Rows, Statuses, Hashes

(* Type correctness of the pipelines, the administration calls and the     *)
(* failures.                                                               *)
LEMMA TypeNext == TypeOK /\ HasContent /\ [Next]_vars => TypeOK'
<1> SUFFICES ASSUME TypeOK, HasContent, [Next]_vars PROVE TypeOK'
  OBVIOUS
<1> USE ConstantsOK DEF TypeOK, db
<1>1. ASSUME NEW p \in Paths, WriteFile(p) PROVE TypeOK'
  BY <1>1 DEF WriteFile, Enqueue, Messages, Hashes
<1>2. ASSUME NEW p \in Paths, RemoveFile(p) PROVE TypeOK'
  BY <1>2 DEF RemoveFile, Hashes
<1>3. ASSUME NEW p \in Paths, Scan(p) PROVE TypeOK'
  BY <1>3 DEF Scan, Enqueue, Messages
<1>4. ASSUME NEW p \in Paths, Dismiss(p) PROVE TypeOK'
  BY <1>4 DEF Dismiss, Forget, Op, NoRow, Rows, Statuses, Hashes
<1>5. ASSUME NEW op \in {"delete", "refetch"}, NEW gone \in SUBSET docs, DeletePoints(op, gone)
      PROVE  TypeOK'
  <2>1. op \in {"delete", "refetch", "audit"} \cap AdminOps
    BY <1>5 DEF DeletePoints, Op
  <2>2. /\ admin' \in [op : {"none"} \cup ({"delete", "refetch", "audit"} \cap AdminOps),
                       gone : SUBSET Documents, rows : [Paths -> Rows]]
    BY <1>5, <2>1, CallType, NoCallType DEF DeletePoints
  <2>3. vectors' \subseteq Nat
    <3>1. vectors' \subseteq vectors
      BY <1>5 DEF DeletePoints
    <3> QED
      BY <3>1
  <2>4. faults' \in Nat
    BY <1>5 DEF DeletePoints, Fault
  <2> QED
    BY <1>5, <2>2, <2>3, <2>4 DEF DeletePoints, Op
<1>6. CASE AdminStep \/ AbandonCall
  <2>1. CASE DeleteRows
    <3>1. manifest' \in [Paths -> Rows]
      BY <2>1 DEF DeleteRows, NoRow, Rows, Statuses, Hashes
    <3>2. queue' \subseteq Messages
      BY <2>1 DEF DeleteRows, Enqueue, Messages
    <3> QED
      BY <2>1, <3>1, <3>2, NoCallType DEF DeleteRows
  <2>2. ASSUME NEW unread \in SUBSET Paths, WriteAudit(unread) PROVE TypeOK'
    <3>1. faults' \in Nat
      BY <2>2 DEF WriteAudit, Fault
    <3>2. ASSUME NEW p \in Paths
          PROVE  Merge(admin.rows[p], [admin.rows[p] EXCEPT !.status = Verdict(p, unread)], manifest[p])
                   \in Rows
      <4>1. admin.rows[p] \in Rows /\ manifest[p] \in Rows /\ Verdict(p, unread) \in Statuses
        BY DEF Verdict, Statuses
      <4> HIDE DEF TypeOK
      <4> QED
        BY <4>1 DEF Merge, Row, Rows
    <3>3. manifest' \in [Paths -> Rows]
      BY <2>2, <3>2 DEF WriteAudit
    <3> QED
      BY <2>2, <3>1, <3>3, NoCallType DEF WriteAudit
  <2>3. CASE AbandonCall
    BY <2>3, NoCallType DEF AbandonCall, Fault
  <2> QED
    BY <1>6, <2>1, <2>2, <2>3 DEF AdminStep
<1>7. ASSUME Audit PROVE TypeOK'
  <2>1. "audit" \in {"delete", "refetch", "audit"} \cap AdminOps
    BY <1>7 DEF Audit, Op
  <2>2. admin' \in [op : {"none"} \cup ({"delete", "refetch", "audit"} \cap AdminOps),
                    gone : SUBSET Documents, rows : [Paths -> Rows]]
    BY <1>7, <2>1, CallType DEF Audit
  <2> QED
    BY <1>7, <2>2 DEF Audit, Op
<1>8. ASSUME ClearFailed PROVE TypeOK'
  BY <1>8 DEF ClearFailed, Forget, Op, NoRow, Rows, Statuses, Hashes
<1>9. ASSUME NEW w \in Workers, NEW p \in Paths, Take(w, p) PROVE TypeOK'
  BY <1>9 DEF Take, Start, Work, Kinds, Pcs, Messages, NoRow, Rows, Statuses, Hashes
<1>10. ASSUME NEW w \in Workers, NEW p \in Paths, StartApi(w, p) PROVE TypeOK'
  BY <1>10 DEF StartApi, Start, Work, Kinds, Pcs, NoRow, Rows, Statuses, Hashes
<1>11. ASSUME NEW w \in Workers, Step(w) \/ Fail(w) \/ Raise(w) \/ Crash(w) PROVE TypeOK'
  <2>1. worker[w] \in Work /\ worker[w].path \in Paths /\ worker[w].mtime \in Nat
    BY <1>11, StepBusy
  <2> USE <2>1
  <2>2. CASE Look(w)
    <3> DEFINE p == worker[w].path
    <3>1. p \in Paths /\ manifest[p] \in Rows /\ file[p].mtime \in Nat
      OBVIOUS
    <3>2. [worker[w] EXCEPT !.pc = "claim", !.seen = manifest[p], !.mtime = file[p].mtime,
                            !.loaded = TRUE] \in Work
      BY <3>1 DEF Work, Pcs
    <3>3. manifest[p].hash \in Hashes
      BY <3>1 DEF Rows
    <3>4. worker' \in [Workers -> Work \cup {Idle}]
      BY <2>2, <3>1, <3>2, <3>3, SetType, SkipOrForceType, ReleaseType DEF Look
    <3> QED
      BY <2>2, <3>4 DEF Look
  <2>3. CASE ClaimRaises(w)
    BY <2>3, ReleaseType, ResendType DEF ClaimRaises
  <2>4. CASE Claim(w)
    <3> DEFINE p == worker[w].path
               h == file[p].content
    <3>1. p \in Paths /\ h \in Hashes
      OBVIOUS
    <3>2. [worker[w] EXCEPT !.pc = "mark", !.hash = h, !.loaded = FALSE, !.seen = NoRow] \in Work
      BY <3>1 DEF Work, Pcs, NoRow, Rows, Statuses, Hashes
    <3>3. worker' \in [Workers -> Work \cup {Idle}]
      BY <2>4, <3>1, <3>2, SetType, SkipOrForceType DEF Claim
    <3>4. manifest' \in [Paths -> Rows]
      BY <2>4, <3>1, PutType DEF Claim, Statuses
    <3> QED
      BY <2>4, <3>3, <3>4 DEF Claim
  <2>5. CASE Mark(w)
    <3>1. manifest' \in [Paths -> Rows]
      BY <2>5, RecordType DEF Mark, Statuses
    <3> QED
      BY <2>5, <3>1, GotoType DEF Mark, Pcs
  <2>6. CASE Extract(w)
    <3> DEFINE c == file[worker[w].path].content
    <3>1. [worker[w] EXCEPT !.pc = "save", !.content = c] \in Work
      BY DEF Work, Pcs
    <3>2. worker' \in [Workers -> Work \cup {Idle}]
      BY <2>6, <3>1, SetType, GotoType DEF Extract, Pcs
    <3> QED
      BY <2>6, <3>2 DEF Extract
  <2>7. CASE Save(w)
    <3>1. [id |-> nextDoc, path |-> worker[w].path,
           content |-> worker[w].content, claim |-> worker[w].mtime] \in Documents
      BY <2>7 DEF Save, HasContent, Documents
    <3>2. [worker[w] EXCEPT !.doc = nextDoc,
             !.pc = IF worker[w].kind = "stream" THEN "embed" ELSE "finish"] \in Work
      BY DEF Work, Pcs
    <3>3. worker' \in [Workers -> Work \cup {Idle}]
      BY <2>7, <3>2, SetType DEF Save
    <3> QED
      BY <2>7, <3>1, <3>3 DEF Save
  <2>8. CASE Finish(w)
    <3>1. manifest' \in [Paths -> Rows]
      BY <2>8, RecordType DEF Finish, Statuses
    <3> QED
      BY <2>8, <3>1, GotoType, ReleaseType DEF Finish, Pcs
  <2>9. CASE Embed(w)
    <3>1. worker' \in [Workers -> Work \cup {Idle}]
      BY <2>9, GotoType, ReleaseType DEF Embed, Pcs
    <3>2. embedded' \subseteq Nat
      BY <2>9 DEF Embed, Work
    <3>3. queue' \subseteq Messages
      BY <2>9, ResendType DEF Embed
    <3> QED
      BY <2>9, <3>1, <3>2, <3>3 DEF Embed
  <2>10. CASE Upsert(w)
    BY <2>10, GotoType, ReleaseType DEF Upsert, Pcs, Work
  <2>11. CASE Fail(w)
    BY <2>11, GotoType DEF Fail, Fault, Pcs
  <2>12. CASE Raise(w)
    BY <2>12, ReleaseType, ResendType DEF Raise, Fault
  <2>13. CASE Crash(w)
    <3>1. queue' \subseteq Messages
      <4>1. CASE UNCHANGED queue
        BY <4>1
      <4>2. CASE worker[w].kind = "task"
                 /\ queue' = queue \cup {[path |-> worker[w].path,
                                          attempt |-> worker[w].attempt]}
        BY <4>2 DEF Messages, Work, Rows, Hashes, Pcs, Idle
      <4> QED
        BY <2>13, <4>1, <4>2 DEF Crash
    <3> QED
      BY <2>13, <3>1, ReleaseType DEF Crash, Fault
  <2>14. CASE LoadRow(w)
    <3>1. [worker[w] EXCEPT !.loaded = TRUE, !.seen = manifest[worker[w].path]] \in Work
      BY DEF Work
    <3> QED
      BY <2>14, <3>1, SetType DEF LoadRow
  <2>15. CASE RecordFailed(w)
    <3>1. manifest' \in [Paths -> Rows]
      BY <2>15, RecordType DEF RecordFailed, Statuses
    <3> QED
      BY <2>15, <3>1, ReleaseType DEF RecordFailed
  <2>16. CASE RecordRaises(w)
    <3>1. worker' \in [Workers -> Work \cup {Idle}] /\ queue' \subseteq Messages
      BY <2>16, GotoType, ReleaseType, ResendType DEF RecordRaises, Pcs
    <3> QED
      BY <2>16, <3>1 DEF RecordRaises
  <2> QED
    BY <1>11, <2>2, <2>3, <2>4, <2>5, <2>6, <2>7, <2>8, <2>9, <2>10, <2>11, <2>12, <2>13,
       <2>14, <2>15, <2>16 DEF Step
<1>12. CASE UNCHANGED vars
  BY <1>12 DEF vars
<1> QED
  BY <1>1, <1>2, <1>3, <1>4, <1>5, <1>6, <1>7, <1>8, <1>9, <1>10, <1>11, <1>12
     DEF Next, Environment, Admin, Delete, ForceRefetch

(* What a step of a pipeline or a failure leaves alone: the disk, and the  *)
(* other pipelines.                                                        *)
LEMMA StepFrame ==
  ASSUME TypeOK, NEW w \in Workers, Step(w) \/ Fail(w) \/ Raise(w) \/ Crash(w)
  PROVE  /\ file' = file
         /\ \A v \in Workers \ {w} : worker'[v] = worker[v]
         /\ docs \subseteq docs'
<1> USE DEF TypeOK, db
<1>1. CASE Look(w)
  BY <1>1 DEF Look, SkipOrForce, Release
<1>2. CASE ClaimRaises(w)
  BY <1>2 DEF ClaimRaises, Release
<1>3. CASE Claim(w)
  BY <1>3 DEF Claim, SkipOrForce, Release
<1>4. CASE Mark(w)
  BY <1>4 DEF Mark, Goto
<1>5. CASE Extract(w)
  BY <1>5 DEF Extract, Goto
<1>6. CASE Save(w)
  BY <1>6 DEF Save
<1>7. CASE Finish(w)
  BY <1>7 DEF Finish, Goto, Release
<1>8. CASE Embed(w)
  BY <1>8 DEF Embed, Goto, Release
<1>9. CASE Upsert(w)
  BY <1>9 DEF Upsert, Goto, Release
<1>10. CASE Fail(w) \/ Raise(w) \/ Crash(w)
  BY <1>10 DEF Fail, Goto, Raise, Crash, Release
<1>11. CASE LoadRow(w) \/ RecordFailed(w) \/ RecordRaises(w)
  BY <1>11 DEF LoadRow, RecordFailed, RecordRaises, Goto, Release
<1> QED
  BY <1>1, <1>2, <1>3, <1>4, <1>5, <1>6, <1>7, <1>8, <1>9, <1>10, <1>11 DEF Step

(* What a step of a pipeline does to the rows: it puts at most the row of  *)
(* its path, with the version the pipeline has claimed.                    *)
LEMMA StepRow ==
  ASSUME TypeOK, NEW w \in Workers, Step(w) \/ Fail(w) \/ Raise(w) \/ Crash(w)
  PROVE  \/ manifest' = manifest
         \/ \E status \in {"processing", "done", "failed", "skipped_duplicate"},
               hash \in Hashes :
              /\ Put(w, Row(status, hash, worker[w].mtime))
              /\ status = "done" => worker[w].pc = "finish"
<1> USE DEF TypeOK, db
<1>0. worker[w].hash \in Hashes /\ file[worker[w].path].content \in Hashes
  BY StepBusy
<1>1. CASE Look(w) \/ ClaimRaises(w) \/ Save(w) \/ Upsert(w) \/ Raise(w) \/ Crash(w)
  BY <1>1 DEF Look, ClaimRaises, Save, Upsert, Raise, Crash
<1>2. CASE Claim(w)
  BY <1>0, <1>2 DEF Claim
<1>3. CASE Mark(w)
  BY <1>0, <1>3 DEF Mark, Record
<1>4. CASE RecordFailed(w)
  BY <1>0, <1>4 DEF RecordFailed, Record
<1>5. CASE Finish(w)
  BY <1>0, <1>5 DEF Finish, Record
<1>6. CASE Extract(w) \/ Embed(w) \/ Fail(w) \/ LoadRow(w) \/ RecordRaises(w)
  BY <1>6 DEF Extract, Embed, Fail, LoadRow, RecordRaises
<1> QED
  BY <1>1, <1>2, <1>3, <1>4, <1>5, <1>6 DEF Step

(* With SQLite the row takes all of it.                                    *)
LEMMA StepRowAll ==
  ASSUME Serialised, TypeOK, NEW w \in Workers, Step(w) \/ Fail(w) \/ Raise(w) \/ Crash(w)
  PROVE  \/ manifest' = manifest
         \/ \E status \in {"processing", "done", "failed", "skipped_duplicate"},
               hash \in Hashes :
              /\ manifest' = [manifest EXCEPT ![worker[w].path] =
                                Row(status, hash, worker[w].mtime)]
              /\ status = "done" => worker[w].pc = "finish"
BY StepBusy, StepRow, PutAll

(* What a step does to its pipeline: it ends, or goes on with the version  *)
(* it looked at; a text to save was just read from the disk; a claim to    *)
(* close has its document.                                                 *)
LEMMA StepWork ==
  ASSUME TypeOK, TypeOK', NEW w \in Workers, Step(w) \/ Fail(w) \/ Raise(w) \/ Crash(w)
  PROVE  \/ worker'[w] = Idle
         \/ /\ worker'[w] \in Work
            /\ worker[w].pc # "idle"
            /\ worker'[w].path = worker[w].path
            /\ worker'[w].kind = worker[w].kind
            /\ worker'[w].force = worker[w].force
            /\ \/ /\ worker[w].pc = "look" /\ worker'[w].pc \in {"claim", "mark"}
                  /\ worker'[w].mtime = file[worker[w].path].mtime
               \/ /\ worker[w].pc # "look" /\ worker'[w].pc \notin {"look", "claim"}
                  /\ worker'[w].mtime = worker[w].mtime
            /\ worker'[w].pc = "save" =>
                 /\ worker[w].pc = "extract"
                 /\ worker'[w].content = file[worker[w].path].content
                 /\ worker'[w].content \in Contents
            /\ Closing(w)' =>
                 \/ Closing(w)
                 \/ /\ worker[w].pc = "save"
                    /\ \E d \in docs' : /\ d.path = worker[w].path
                                        /\ d.content = worker[w].content
<1> USE DEF Closing
<1>0. /\ worker[w] \in Work
      /\ worker[w].path \in Paths /\ worker[w].pc \in Pcs
      /\ DOMAIN worker = Workers
      /\ worker'[w] \in Work \cup {Idle}
  BY StepBusy DEF TypeOK
<1>1. CASE Look(w)
  <2> DEFINE p == worker[w].path
  <2>1. CASE worker' = [worker EXCEPT ![w] = Idle]
    BY <1>0, <2>1
  <2>2. CASE worker' = [worker EXCEPT ![w] = [@ EXCEPT !.pc = "claim", !.seen = manifest[p],
                                                      !.mtime = file[p].mtime, !.loaded = TRUE]]
    <3>1. worker'[w] = [worker[w] EXCEPT !.pc = "claim", !.seen = manifest[p],
                                         !.mtime = file[p].mtime, !.loaded = TRUE]
      BY <1>0, <2>2
    <3> QED
      BY <1>0, <1>1, <3>1 DEF Look, Work, Idle
  <2>3. CASE worker' = [worker EXCEPT ![w] = [@ EXCEPT !.pc = "mark", !.hash = manifest[p].hash,
                                                      !.mtime = file[p].mtime,
                                                      !.loaded = FALSE, !.seen = NoRow]]
    <3>1. worker'[w] = [worker[w] EXCEPT !.pc = "mark", !.hash = manifest[p].hash,
                                         !.mtime = file[p].mtime,
                                         !.loaded = FALSE, !.seen = NoRow]
      BY <1>0, <2>3
    <3> QED
      BY <1>0, <1>1, <3>1 DEF Look, Work, Idle
  <2> QED
    BY <1>1, <2>1, <2>2, <2>3 DEF Look, SkipOrForce, Release
<1>2. CASE ClaimRaises(w)
  BY <1>0, <1>2 DEF ClaimRaises, Release
<1>3. CASE Claim(w)
  <2> DEFINE h == file[worker[w].path].content
  <2>1. CASE worker' = [worker EXCEPT ![w] = Idle]
    BY <1>0, <2>1
  <2>2. CASE worker' = [worker EXCEPT ![w] = [@ EXCEPT !.pc = "mark", !.hash = h,
                                                      !.mtime = worker[w].mtime,
                                                      !.loaded = FALSE, !.seen = NoRow]]
    <3>1. worker'[w] = [worker[w] EXCEPT !.pc = "mark", !.hash = h, !.mtime = worker[w].mtime,
                                         !.loaded = FALSE, !.seen = NoRow]
      BY <1>0, <2>2
    <3> QED
      BY <1>0, <1>3, <3>1 DEF Claim, Work, Idle
  <2>3. CASE worker' = [worker EXCEPT ![w] = [@ EXCEPT !.pc = "mark", !.hash = h,
                                                      !.loaded = FALSE, !.seen = NoRow]]
    <3>1. worker'[w] = [worker[w] EXCEPT !.pc = "mark", !.hash = h,
                                         !.loaded = FALSE, !.seen = NoRow]
      BY <1>0, <2>3
    <3> QED
      BY <1>0, <1>3, <3>1 DEF Claim, Work, Idle
  <2> QED
    BY <1>3, <2>1, <2>2, <2>3 DEF Claim, SkipOrForce, Release
<1>4. CASE Mark(w)
  BY <1>0, <1>4, GotoWork DEF Mark, Pcs
<1>5. CASE Extract(w)
  <2> DEFINE c == file[worker[w].path].content
  <2>1. CASE Goto(w, "failed")
    BY <1>0, <1>5, <2>1, GotoWork DEF Extract, Pcs
  <2>2. CASE /\ c # NoContent
             /\ worker' = [worker EXCEPT ![w] = [@ EXCEPT !.pc = "save", !.content = c]]
    <3>1. worker'[w] = [worker[w] EXCEPT !.pc = "save", !.content = c]
      BY <1>0, <2>2
    <3>2. c \in Contents
      BY <1>0, <2>2 DEF Hashes, TypeOK
    <3> QED
      BY <1>0, <1>5, <3>1, <3>2 DEF Extract, Work, Idle
  <2> QED
    BY <1>5, <2>1, <2>2 DEF Extract
<1>6. CASE Save(w)
  <2>1. worker'[w] = [worker[w] EXCEPT !.doc = nextDoc,
                        !.pc = IF worker[w].kind = "stream" THEN "embed" ELSE "finish"]
    BY <1>0, <1>6 DEF Save
  <2>2. \E d \in docs' : d.path = worker[w].path /\ d.content = worker[w].content
    <3> DEFINE d == [id |-> nextDoc, path |-> worker[w].path,
                     content |-> worker[w].content, claim |-> worker[w].mtime]
    <3>1. d \in docs'
      BY <1>6 DEF Save
    <3>2. d.path = worker[w].path /\ d.content = worker[w].content
      OBVIOUS
    <3> QED
      BY <3>1, <3>2
  <2>3. /\ worker'[w].path = worker[w].path /\ worker'[w].kind = worker[w].kind
        /\ worker'[w].force = worker[w].force /\ worker'[w].mtime = worker[w].mtime
        /\ worker'[w].pc \in {"embed", "finish"}
    BY <1>0, <2>1 DEF Work
  <2> QED
    BY <1>0, <1>6, <2>2, <2>3 DEF Save, Idle
<1>7. CASE Finish(w)
  BY <1>0, <1>7, GotoWork DEF Finish, Release, Pcs
<1>8. CASE Embed(w)
  BY <1>0, <1>8, GotoWork DEF Embed, Release, Pcs
<1>9. CASE Upsert(w)
  BY <1>0, <1>9, GotoWork DEF Upsert, Release, Pcs
<1>10. CASE Fail(w)
  BY <1>0, <1>10, GotoWork DEF Fail, InTry, Pcs
<1>11. CASE Raise(w) \/ Crash(w) \/ RecordFailed(w)
  BY <1>0, <1>11 DEF Raise, Crash, RecordFailed, Release
<1>12. CASE RecordRaises(w)
  BY <1>0, <1>12, GotoWork DEF RecordRaises, MayRecord, Records, Release, Pcs
<1>13. CASE LoadRow(w)
  <2>1. worker'[w] = [worker[w] EXCEPT !.loaded = TRUE, !.seen = manifest[worker[w].path]]
    BY <1>0, <1>13 DEF LoadRow
  <2>2. worker[w].pc \in {"mark", "finish", "failed"}
    BY <1>13 DEF LoadRow, Records
  <2> QED
    BY <1>0, <2>1, <2>2 DEF Work
<1> QED
  BY <1>1, <1>2, <1>3, <1>4, <1>5, <1>6, <1>7, <1>8, <1>9, <1>10, <1>11, <1>12, <1>13 DEF Step

(* A pipeline starts idle-handed: no version, no text, no document.        *)
LEMMA StartFrame ==
  ASSUME TypeOK, NEW w \in Workers, NEW p \in Paths, Take(w, p) \/ StartApi(w, p)
  PROVE  /\ file' = file /\ manifest' = manifest /\ docs' = docs
         /\ \A v \in Workers \ {w} : worker'[v] = worker[v]
         /\ worker'[w].pc = "look" /\ worker'[w].mtime = 0 /\ worker'[w].path = p
<1>1. CASE Take(w, p)
  BY <1>1 DEF Take, TypeOK, Start, db
<1>2. CASE StartApi(w, p)
  BY <1>2 DEF StartApi, TypeOK, Start, db
<1> QED
  BY <1>1, <1>2

(* The administration calls that delete nothing only rewrite rows, and     *)
(* make none of them "done": an audit's update keeps what it found there.  *)
Keeps == Audit \/ (\E unread \in SUBSET Paths : WriteAudit(unread)) \/ AbandonCall
         \/ ClearFailed \/ (\E q \in Paths : Dismiss(q))
LEMMA AdminRows ==
  ASSUME TypeOK, Keeps
  PROVE  /\ file' = file /\ docs' = docs /\ worker' = worker
         /\ \A p \in Paths :
              /\ manifest'[p].mtime \in {0, manifest[p].mtime}
              /\ manifest'[p].status = "done" => manifest'[p] = manifest[p]
              /\ manifest'[p].status = "processing" => manifest[p].status = "processing"
<1>1. CASE Audit \/ AbandonCall
  BY <1>1 DEF Audit, AbandonCall, TypeOK, db
<1>2. ASSUME NEW unread, WriteAudit(unread)
      PROVE  /\ docs' = docs /\ worker' = worker /\ file' = file
             /\ \A p \in Paths :
                  /\ manifest'[p].mtime \in {0, manifest[p].mtime}
                  /\ manifest'[p].status = "done" => manifest'[p] = manifest[p]
                  /\ manifest'[p].status = "processing" => manifest[p].status = "processing"
  <2>1. docs' = docs /\ worker' = worker /\ file' = file
    BY <1>2 DEF WriteAudit
  <2>2. ASSUME NEW p \in Paths
        PROVE  /\ manifest'[p].mtime = manifest[p].mtime
               /\ manifest'[p].status = "done" => manifest'[p] = manifest[p]
               /\ manifest'[p].status = "processing" => manifest[p].status = "processing"
    <3> DEFINE old == admin.rows[p]
               now == manifest[p]
               new == [old EXCEPT !.status = Verdict(p, unread)]
    <3>1. old \in Rows /\ now \in Rows
      BY DEF TypeOK
    <3>2. Verdict(p, unread) \notin {"done", "processing"}
      BY DEF Verdict
    <3>3. /\ new.status = Verdict(p, unread) /\ new.hash = old.hash /\ new.mtime = old.mtime
      BY <3>1 DEF Rows
    <3>4. /\ Merge(old, new, now).mtime = now.mtime /\ Merge(old, new, now).hash = now.hash
          /\ Merge(old, new, now).status \in {now.status, Verdict(p, unread)}
      BY <3>3 DEF Merge, Row
    <3>5. manifest'[p] = now \/ manifest'[p] = Merge(old, new, now)
      BY <1>2 DEF WriteAudit
    <3>6. Merge(old, new, now) \in Rows
      BY <3>1, <3>3, <3>4 DEF Merge, Row, Rows, Verdict, Statuses
    <3>7. Merge(old, new, now).status = now.status => Merge(old, new, now) = now
      BY <3>1, <3>4, <3>6 DEF Rows
    <3> QED
      BY <3>2, <3>4, <3>5, <3>7
  <2> QED
    BY <2>1, <2>2
<1>3. ASSUME NEW ps, Forget(ps)
      PROVE  /\ docs' = docs /\ worker' = worker /\ file' = file
             /\ \A p \in Paths :
                  /\ manifest'[p].mtime \in {0, manifest[p].mtime}
                  /\ manifest'[p].status = "done" => manifest'[p] = manifest[p]
                  /\ manifest'[p].status = "processing" => manifest[p].status = "processing"
  BY <1>3 DEF Forget, NoRow, TypeOK
<1> QED
  BY <1>1, <1>2, <1>3 DEF Keeps, ClearFailed, Dismiss

(* No administration call touches the pipelines.                           *)
LEMMA AdminFrame ==
  ASSUME Environment \/ Admin PROVE worker' = worker
BY DEF Environment, WriteFile, RemoveFile, Scan, Dismiss, Forget, Admin, Delete, ForceRefetch,
   DeletePoints, AdminStep, DeleteRows, WriteAudit, AbandonCall, Audit, ClearFailed

LEMMA ContentNext ==
  ASSUME TypeOK, TypeOK', HasContent, [Next]_vars
  PROVE  HasContent'
<1> USE DEF HasContent
<1>1. CASE \/ Environment \/ Admin \/ UNCHANGED vars
  BY <1>1, AdminFrame DEF vars
<1>2. ASSUME NEW w \in Workers, NEW p \in Paths, Take(w, p) \/ StartApi(w, p)
      PROVE  HasContent'
  BY <1>2, StartFrame
<1>3. ASSUME NEW w \in Workers, Step(w) \/ Fail(w) \/ Raise(w) \/ Crash(w)
      PROVE  HasContent'
  BY <1>3, StepFrame, StepWork DEF Idle
<1> QED
  BY <1>1, <1>2, <1>3 DEF Next

(* Every variable keeps its type, for any files, workers, databases,       *)
(* failures and administration calls.                                      *)
THEOREM TypeCorrect == Spec => []TypeOK
<1>1. Init => TypeOK /\ HasContent
  BY ConstantsOK, NoCallType DEF Init, TypeOK, HasContent, Idle, NoRow, Rows, Statuses, Hashes
<1>2. TypeOK /\ HasContent /\ [Next]_vars => TypeOK' /\ HasContent'
  BY TypeNext, ContentNext
<1> QED
  BY <1>1, <1>2, PTL DEF Spec

NothingDeleted == AdminOps \cap {"delete", "refetch"} = {}

(* CurrentInv is inductive.  A change of a file makes every version seen   *)
(* before an old one; the steps that matter are the extraction, which      *)
(* reads the text of a version no newer than it claims, the commit of the  *)
(* document, and the row that becomes "done" after it.                     *)
LEMMA CurrentNext ==
  ASSUME NothingDeleted, Serialised, TypeOK, TypeOK', CurrentInv, [Next]_vars
  PROVE  CurrentInv'
<1> USE DEF CurrentInv, HasContent, ClaimInPast, RowInPast, SavePending, ClosePending,
            DoneIsCurrent, Current, Busy
<1>1. ASSUME NEW p \in Paths, WriteFile(p) \/ RemoveFile(p) PROVE CurrentInv'
  <2>1. /\ manifest' = manifest /\ docs' = docs /\ worker' = worker
        /\ \A q \in Paths : file'[q] = file[q] \/ file'[q].mtime > file[q].mtime
    BY <1>1 DEF WriteFile, RemoveFile, TypeOK, db
  <2>2. \A w \in Workers : worker[w].pc # "idle" =>
          worker[w].path \in Paths /\ worker[w].mtime \in Nat
    BY BusyWork DEF Work
  <2>3. \A q \in Paths : manifest[q].mtime \in Nat /\ file[q].mtime \in Nat
    BY DEF TypeOK, Rows
  <2>4. \A q \in Paths : file'[q].mtime \in Nat
    BY DEF TypeOK
  <2>5. HasContent' /\ ClaimInPast' /\ RowInPast'
    BY <2>1, <2>2, <2>3, <2>4
  <2>6. SavePending' /\ ClosePending'
    BY <2>1, <2>2, <2>3, <2>4 DEF Closing, Stored
  <2>7. DoneIsCurrent'
    BY <2>1, <2>3, <2>4 DEF Stored
  <2> QED
    BY <2>5, <2>6, <2>7
<1>2. CASE (\E p \in Paths : Scan(p)) \/ UNCHANGED vars
  <2>1. UNCHANGED <<file, manifest, docs, worker>>
    BY <1>2 DEF Scan, vars, db
  <2> QED
    BY <2>1 DEF Closing, Stored
<1>3. CASE Keeps
  <2>1. \A q \in Paths : file[q].mtime \in Nat
    BY DEF TypeOK
  <2> QED
    BY <1>3, <2>1, AdminRows DEF Closing, Stored
<1>4. CASE Delete \/ ForceRefetch \/ DeleteRows
  BY <1>4 DEF Delete, ForceRefetch, DeletePoints, DeleteRows, Op, NothingDeleted, TypeOK
<1>5. ASSUME NEW w \in Workers, NEW p \in Paths, Take(w, p) \/ StartApi(w, p)
      PROVE  CurrentInv'
  <2>1. \A q \in Paths : file[q].mtime \in Nat
    BY DEF TypeOK
  <2> QED
    BY <1>5, <2>1, StartFrame DEF Closing, Stored
<1>6. ASSUME NEW w \in Workers, Step(w) \/ Fail(w) \/ Raise(w) \/ Crash(w)
      PROVE  CurrentInv'
  <2> DEFINE p == worker[w].path
  <2>0. worker[w] \in Work /\ p \in Paths /\ worker[w].pc # "idle"
    BY <1>6, StepBusy
  <2>1. /\ file' = file /\ docs \subseteq docs'
        /\ \A v \in Workers \ {w} : worker'[v] = worker[v]
    BY <1>6, StepFrame
  <2>2. \A q \in Paths : file[q].mtime \in Nat /\ (Stored(q) => Stored(q)')
    BY <2>1 DEF TypeOK, Stored
  <2>3. HasContent' /\ ClaimInPast' /\ SavePending'
    BY <1>6, <2>0, <2>1, <2>2, StepWork DEF Idle
  <2>4. ClosePending'
    <3>1. ASSUME NEW v \in Workers, v # w, Closing(v)', Current(v)'
          PROVE  Stored(worker[v].path)'
      <4>1. Closing(v) /\ Current(v) /\ worker'[v] = worker[v]
        BY <2>1, <3>1 DEF Closing
      <4>2. worker[v].path \in Paths
        BY <4>1, BusyWork DEF Closing, Work
      <4> QED
        BY <2>2, <4>1, <4>2
    <3>2. ASSUME Closing(w)', Current(w)' PROVE Stored(worker[w].path)'
      <4>1. /\ worker'[w].path = p
            /\ worker'[w].mtime = worker[w].mtime
        BY <1>6, <2>0, <3>2, StepWork DEF Closing, Idle
      <4>2. Current(w)
        BY <2>1, <3>2, <4>1
      <4>3. CASE Closing(w)
        BY <2>0, <2>2, <4>1, <4>2, <4>3
      <4>4. CASE /\ worker[w].pc = "save"
                 /\ \E d \in docs' : d.path = p /\ d.content = worker[w].content
        BY <2>1, <4>1, <4>2, <4>4 DEF Stored
      <4> QED
        BY <1>6, <2>0, <3>2, <4>3, <4>4, StepWork DEF Closing, Idle
    <3> QED
      BY <3>1, <3>2
  <2>5. RowInPast' /\ DoneIsCurrent'
    <3>1. CASE manifest' = manifest
      BY <2>1, <2>2, <3>1
    <3>2. ASSUME NEW status, NEW hash,
                 manifest' = [manifest EXCEPT ![p] = Row(status, hash, worker[w].mtime)],
                 status = "done" => worker[w].pc = "finish"
          PROVE  RowInPast' /\ DoneIsCurrent'
      <4>1. manifest'[p] = Row(status, hash, worker[w].mtime)
        BY <2>0, <3>2 DEF TypeOK
      <4>2. \A q \in Paths \ {p} : manifest'[q] = manifest[q]
        BY <3>2 DEF TypeOK
      <4>3. manifest'[p].mtime = worker[w].mtime /\ manifest'[p].status = status
        BY <4>1 DEF Row
      <4>4. RowInPast'
        BY <2>0, <2>1, <3>2, <4>2, <4>3
      <4>5. ASSUME NEW q \in Paths, manifest'[q].status = "done",
                   manifest'[q].mtime = file'[q].mtime
            PROVE  Stored(q)
        <5>1. CASE q = p
          BY <2>0, <2>1, <3>2, <4>3, <4>5, <5>1 DEF Closing
        <5>2. CASE q # p
          BY <2>1, <4>2, <4>5, <5>2
        <5> QED
          BY <5>1, <5>2
      <4> QED
        BY <2>2, <4>4, <4>5
    <3> QED
      BY <1>6, <3>1, <3>2, StepRowAll
  <2> QED
    BY <2>3, <2>4, <2>5
<1> QED
  BY <1>1, <1>2, <1>3, <1>4, <1>5, <1>6 DEF Next, Environment, Admin, AdminStep, Keeps

(* When nothing is deleted, on SQLite, a row that says "done" for the file *)
(* as it is now has that text in a document: for any number of workers and *)
(* files, with every failure, retry, forced ingestion, audit and dismissal.*)
(* (record_entry writes the columns it found changed: without SQLite's     *)
(* BEGIN IMMEDIATE two of them can complete each other's row.)             *)
THEOREM DoneIsTrue == ASSUME NothingDeleted, Serialised PROVE Spec => []DoneIsCurrent
<1>1. Init => CurrentInv
  BY DEF Init, CurrentInv, HasContent, ClaimInPast, RowInPast, SavePending, ClosePending,
     Closing, DoneIsCurrent, Busy, Idle, NoRow
<1>2. TypeOK /\ TypeOK' /\ CurrentInv /\ [Next]_vars => CurrentInv'
  BY CurrentNext
<1>3. CurrentInv => DoneIsCurrent
  BY DEF CurrentInv
<1> QED
  BY <1>1, <1>2, <1>3, TypeCorrect, PTL DEF Spec

-----------------------------------------------------------------------------
(* SQLite, without forced ingestions and manual changes of the rows.       *)

Locked == Serialised /\ AdminOps \subseteq {"ingest", "clear"}

(* How a step of an unforced pipeline uses the database: it is alone when  *)
(* it opens a transaction that lasts and when it writes a row; it claims   *)
(* only what it has just read; it writes rows it owns, or claims.          *)
Claims(w) == \E hash \in Hashes :
  manifest' = [manifest EXCEPT ![worker[w].path] = Row("processing", hash, worker[w].mtime)]
LEMMA StepLock ==
  ASSUME Serialised, TypeOK, TypeOK', NEW w \in Workers, worker[w].force = FALSE,
         Step(w) \/ Fail(w) \/ Raise(w) \/ Crash(w)
  PROVE  /\ worker'[w].pc \in {"claim", "save"} => DbFree(w)
         /\ manifest' # manifest => DbFree(w) \/ worker[w].pc = "claim"
         /\ manifest' # manifest => Owns(w) \/ worker[w].pc = "claim"
         /\ worker'[w].pc = "claim" =>
              /\ manifest' = manifest
              /\ worker'[w].seen = manifest[worker[w].path]
              /\ worker'[w].seen.status # "processing"
         /\ Owns(w)' => \/ Owns(w) /\ (manifest' = manifest \/ Claims(w))
                        \/ worker[w].pc = "claim" /\ Claims(w)
<1> USE DEF Owns, InTry
<1>0. /\ worker[w] \in Work
      /\ worker[w].path \in Paths /\ worker[w].pc \in Pcs
      /\ worker[w].hash \in Hashes /\ file[worker[w].path].content \in Hashes
      /\ DOMAIN worker = Workers
  BY StepBusy DEF TypeOK
<1>1. CASE Look(w)
  <2> DEFINE p == worker[w].path
  <2>1. CASE worker' = [worker EXCEPT ![w] = Idle]
    BY <1>0, <1>1, <2>1 DEF Look, Idle, db
  <2>2. CASE /\ MustHash(manifest[p], file[p].mtime)
             /\ worker' = [worker EXCEPT ![w] = [@ EXCEPT !.pc = "claim", !.seen = manifest[p],
                                                         !.mtime = file[p].mtime,
                                                         !.loaded = TRUE]]
    <3>1. worker'[w] = [worker[w] EXCEPT !.pc = "claim", !.seen = manifest[p],
                                         !.mtime = file[p].mtime, !.loaded = TRUE]
      BY <1>0, <2>2
    <3>2. worker'[w].pc = "claim" /\ worker'[w].seen = manifest[p]
      BY <1>0, <3>1 DEF Work
    <3> QED
      BY <1>1, <2>2, <3>2 DEF Look, MustHash, db
  <2> QED
    BY <1>1, <2>1, <2>2 DEF Look, SkipOrForce, Release
<1>2. CASE ClaimRaises(w)
  BY <1>0, <1>2 DEF ClaimRaises, Release, Idle, db
<1>3. CASE Claim(w)
  <2> DEFINE h == file[worker[w].path].content
  <2>1. CASE worker' = [worker EXCEPT ![w] = Idle]
    BY <1>0, <1>3, <2>1 DEF Claim, Idle
  <2>2. CASE /\ Put(w, Row("processing", h, worker[w].mtime))
             /\ worker' = [worker EXCEPT ![w] = [@ EXCEPT !.pc = "mark", !.hash = h,
                                                         !.loaded = FALSE, !.seen = NoRow]]
    <3>1. worker'[w] = [worker[w] EXCEPT !.pc = "mark", !.hash = h,
                                         !.loaded = FALSE, !.seen = NoRow]
      BY <1>0, <2>2
    <3>2. worker'[w].pc = "mark"
      BY <1>0, <3>1 DEF Work
    <3>3. Claims(w)
      BY <1>0, <2>2, PutAll DEF Claims
    <3> QED
      BY <1>3, <3>2, <3>3 DEF Claim
  <2> QED
    BY <1>3, <2>1, <2>2 DEF Claim, SkipOrForce, Release
<1>4. CASE Mark(w)
  <2>1. worker'[w].pc = "extract"
    BY <1>0, <1>4, GotoWork DEF Mark, Pcs
  <2>2. Claims(w)
    BY <1>0, <1>4, PutAll DEF Mark, Record, Claims
  <2> QED
    BY <1>4, <2>1, <2>2 DEF Mark, MayRecord
<1>5. CASE Extract(w)
  <2>1. CASE Goto(w, "failed")
    BY <1>0, <1>5, <2>1, GotoWork DEF Extract, Pcs, db
  <2>2. CASE worker' = [worker EXCEPT ![w] =
                          [@ EXCEPT !.pc = "save", !.content = file[worker[w].path].content]]
    <3>1. worker'[w] = [worker[w] EXCEPT !.pc = "save", !.content = file[worker[w].path].content]
      BY <1>0, <2>2
    <3>2. worker'[w].pc = "save"
      BY <1>0, <3>1 DEF Work
    <3> QED
      BY <1>5, <3>2 DEF Extract, db
  <2> QED
    BY <1>5, <2>1, <2>2 DEF Extract
<1>6. CASE Save(w)
  <2>1. worker'[w] = [worker[w] EXCEPT !.doc = nextDoc,
                        !.pc = IF worker[w].kind = "stream" THEN "embed" ELSE "finish"]
    BY <1>0, <1>6 DEF Save
  <2>2. worker'[w].pc \in {"embed", "finish"}
    BY <1>0, <2>1 DEF Work
  <2> QED
    BY <1>6, <2>2 DEF Save
<1>7. CASE Finish(w)
  <2>1. worker'[w] = Idle \/ (worker'[w].pc = "embed" /\ worker'[w].kind # "stream")
    BY <1>0, <1>7, GotoWork DEF Finish, Release, Pcs
  <2> QED
    BY <1>7, <2>1 DEF Finish, MayRecord, Idle
<1>8. CASE Embed(w)
  <2>1. /\ manifest' = manifest /\ worker[w].pc = "embed"
        /\ worker'[w] = Idle \/ (worker'[w].pc \in {"upsert", "failed"}
                               /\ worker'[w].kind = worker[w].kind
                               /\ (worker'[w].pc = "failed" => worker[w].kind = "stream"))
    BY <1>0, <1>8, GotoWork DEF Embed, Release, Pcs
  <2> QED
    BY <2>1 DEF Idle
<1>9. CASE Upsert(w)
  <2>1. /\ manifest' = manifest /\ worker[w].pc = "upsert"
        /\ worker'[w] = Idle \/ (worker'[w].pc = "finish" /\ worker[w].kind = "stream")
    BY <1>0, <1>9, GotoWork DEF Upsert, Release, Pcs, db
  <2> QED
    BY <2>1 DEF Idle
<1>10. CASE Fail(w)
  BY <1>0, <1>10, GotoWork DEF Fail, Pcs, db
<1>11. CASE Raise(w) \/ Crash(w)
  BY <1>0, <1>11 DEF Raise, Crash, Release, Idle, db
<1>12. CASE RecordFailed(w)
  BY <1>0, <1>12 DEF RecordFailed, MayRecord, Release, Idle
<1>13. CASE LoadRow(w)
  BY <1>13 DEF LoadRow
<1>14. CASE RecordRaises(w)
  BY <1>14 DEF RecordRaises, Conflict, Old
<1> QED
  BY <1>1, <1>2, <1>3, <1>4, <1>5, <1>6, <1>7, <1>8, <1>9, <1>10, <1>11, <1>12, <1>13, <1>14
     DEF Step

(* ClearFailed is the only administration call left: it waits for the      *)
(* database and takes no row that anybody is processing.                   *)
LEMMA LockedAdmin ==
  ASSUME Locked, TypeOK, Admin \/ (\E q \in Paths : Dismiss(q))
  PROVE  /\ ClearFailed
         /\ file' = file /\ docs' = docs /\ worker' = worker
         /\ \A w \in Workers : ~Locks(w)
         /\ \A p \in Paths : \/ manifest'[p] = manifest[p]
                             \/ manifest[p].status = "failed" /\ manifest'[p] = NoRow
<1>0. admin.op = "none"
  BY DEF TypeOK, Locked
<1>1. ClearFailed
  BY <1>0 DEF Admin, Delete, ForceRefetch, DeletePoints, AdminStep, DeleteRows, WriteAudit,
     AbandonCall, Audit, Dismiss, Op, Locked
<1> QED
  BY <1>1 DEF ClearFailed, Forget, Op, TypeOK

(* OwnerInv is inductive: a pipeline becomes the owner of a path in the    *)
(* transaction in which it saw that nobody is processing the path.         *)
LEMMA OwnerNext ==
  ASSUME Locked, TypeOK, TypeOK', OwnerInv, [Next]_vars
  PROVE  OwnerInv'
<1> USE DEF OwnerInv, NoForce, OneTransaction, SeenIsRow, OwnerHasRow, SingleOwner, Busy
<1>1. CASE (\E p \in Paths : WriteFile(p) \/ RemoveFile(p) \/ Scan(p)) \/ UNCHANGED vars
  <2>1. manifest' = manifest /\ worker' = worker
    BY <1>1 DEF WriteFile, RemoveFile, Scan, vars, db
  <2> QED
    BY <2>1 DEF Owns, InTry
<1>2. CASE Admin \/ (\E q \in Paths : Dismiss(q))
  <2>1. /\ worker' = worker
        /\ \A w \in Workers : worker[w].pc # "claim"
        /\ \A p \in Paths : manifest[p].status = "processing" => manifest'[p] = manifest[p]
    BY <1>2, LockedAdmin DEF Locks, Locked
  <2>2. \A w \in Workers : Owns(w) => worker[w].path \in Paths
    BY BusyWork DEF Owns, InTry, Work
  <2>3. \A w \in Workers : Owns(w)' <=> Owns(w)
    BY <2>1 DEF Owns, InTry
  <2> QED
    BY <2>1, <2>2, <2>3
<1>3. ASSUME NEW w \in Workers, NEW p \in Paths, Take(w, p) \/ StartApi(w, p)
      PROVE  OwnerInv'
  <2>1. worker'[w].force = FALSE
    BY <1>3 DEF Take, StartApi, Start, Locked, TypeOK
  <2> QED
    BY <1>3, <2>1, StartFrame DEF Owns, InTry
<1>4. ASSUME NEW w \in Workers, Step(w) \/ Fail(w) \/ Raise(w) \/ Crash(w)
      PROVE  OwnerInv'
  <2> DEFINE p == worker[w].path
  <2>0. /\ worker[w] \in Work /\ p \in Paths
        /\ worker[w].pc # "idle" /\ worker[w].force = FALSE
    BY <1>4, StepBusy
  <2>1. \A v \in Workers \ {w} : worker'[v] = worker[v]
    BY <1>4, StepFrame
  <2>2. \A v \in Workers \ {w} : Owns(v)' <=> Owns(v)
    BY <2>1 DEF Owns, InTry
  <2>3. worker'[w] = Idle \/ (worker'[w].path = p /\ worker'[w].force = FALSE)
    BY <1>4, <2>0, StepWork
  <2>4. manifest' # manifest => Owns(w) \/ worker[w].pc = "claim"
    BY <1>4, <2>0, StepLock DEF Locked
  <2>5. \A q \in Paths \ {p} : manifest'[q] = manifest[q]
    BY <1>4, StepRow DEF TypeOK, Put
  <2>6. Claims(w) => /\ manifest'[p].status = "processing"
                     /\ manifest'[p].mtime = worker[w].mtime
    BY <2>0 DEF Claims, Row, TypeOK
  <2>7. Owns(w)' => \/ Owns(w) /\ (manifest' = manifest \/ Claims(w))
                    \/ worker[w].pc = "claim" /\ Claims(w)
    BY <1>4, <2>0, StepLock DEF Locked
  <2>8. NoForce'
    BY <2>1, <2>3 DEF Idle
  <2>9. OneTransaction'
    <3>1. worker'[w].pc \in {"claim", "save"} =>
            \A v \in Workers \ {w} : worker[v].pc \notin {"claim", "save"}
      BY <1>4, <2>0, StepLock DEF DbFree, Locks, Locked
    <3> QED
      BY <2>1, <3>1
  <2>10. SeenIsRow'
    <3>1. worker'[w].pc = "claim" => /\ worker'[w].seen = manifest'[worker'[w].path]
                                     /\ worker'[w].seen.status # "processing"
      <4>1. worker'[w].pc = "claim" => worker'[w].path = p
        BY <2>3 DEF Idle
      <4>2. worker'[w].pc = "claim" => /\ manifest' = manifest
                                       /\ worker'[w].seen = manifest[p]
                                       /\ worker'[w].seen.status # "processing"
        BY <1>4, <2>0, StepLock DEF Locked
      <4> QED
        BY <4>1, <4>2
    <3>2. ASSUME NEW v \in Workers \ {w}, worker'[v].pc = "claim"
          PROVE  manifest' = manifest
      <4>1. worker[v].pc = "claim"
        BY <2>1, <3>2
      <4>2. ~DbFree(w) /\ worker[w].pc # "claim"
        BY <4>1 DEF DbFree, Locks, Locked
      <4> QED
        BY <1>4, <2>0, <4>2, StepLock DEF Locked
    <3> QED
      BY <2>1, <3>1, <3>2
  <2>11. \A v \in Workers \ {w} : Owns(v) =>
           manifest' = manifest \/ worker[v].path # p
    BY <2>0, <2>4
  <2>12. OwnerHasRow'
    <3>1. Owns(w)' => /\ manifest'[p].status = "processing"
                      /\ manifest'[p].mtime = worker[w].mtime
      BY <2>0, <2>6, <2>7
    <3>2. Owns(w)' => worker'[w].path = p /\ worker'[w].mtime = worker[w].mtime
      <4>1. Owns(w)' => worker[w].pc # "look" /\ worker'[w].pc # "idle"
        BY <2>7 DEF Owns, InTry
      <4> QED
        BY <1>4, <2>0, <4>1, StepWork DEF Idle
    <3>3. ASSUME NEW v \in Workers \ {w}, Owns(v)
          PROVE  manifest'[worker[v].path] = manifest[worker[v].path]
      <4>1. worker[v].path \in Paths
        BY <3>3, BusyWork DEF Owns, InTry, Work
      <4> QED
        BY <2>5, <2>11, <3>3, <4>1
    <3> QED
      BY <2>1, <2>2, <3>1, <3>2, <3>3
  <2>13. SingleOwner'
    <3>1. ASSUME NEW v \in Workers \ {w}, Owns(v), Owns(w)' PROVE worker[v].path # p
      BY <2>0, <2>7, <3>1
    <3>2. Owns(w)' => worker'[w].path = p
      BY <2>3 DEF Owns, InTry, Idle
    <3> QED
      BY <2>1, <2>2, <3>1, <3>2
  <2> QED
    BY <2>8, <2>9, <2>10, <2>12, <2>13
<1> QED
  BY <1>1, <1>2, <1>3, <1>4 DEF Next, Environment

(* "processing" is a lock: with SQLite no two pipelines work on a path,    *)
(* whatever fails, is retried, delivered again or cleared, as long as      *)
(* there are no forced ingestions, deletions, refetches, audits and        *)
(* dismissals.                                                             *)
THEOREM OneOwner == ASSUME Locked PROVE Spec => []SingleOwner
<1>1. Init => OwnerInv
  BY DEF Init, OwnerInv, NoForce, OneTransaction, SeenIsRow, OwnerHasRow, SingleOwner,
     Owns, InTry, Busy, Idle
<1>2. TypeOK /\ TypeOK' /\ OwnerInv /\ [Next]_vars => OwnerInv'
  BY OwnerNext
<1>3. OwnerInv => SingleOwner
  BY DEF OwnerInv
<1> QED
  BY <1>1, <1>2, <1>3, TypeCorrect, PTL DEF Spec

-----------------------------------------------------------------------------
(* One document per version: in addition, nothing raises between the       *)
(* commit of a document and the row that says "done": neither the last     *)
(* record_entry nor the embedder and the Qdrant of a stream.               *)

NoLateFailure == "record" \notin Faults

(* A document that is added carries the version its pipeline has claimed;  *)
(* a pipeline that is going to add one has just found that its path must   *)
(* be hashed; a row becomes anything else than "processing" or "done" only *)
(* by a pipeline that has committed no document.                           *)
NewDoc(w, d) == d.path = worker[w].path /\ d.claim = worker[w].mtime
LEMMA StepVersion ==
  ASSUME Serialised, NoLateFailure, TypeOK, TypeOK', SavedInv,
         NEW w \in Workers, worker[w].force = FALSE,
         Step(w) \/ Fail(w) \/ Raise(w) \/ Crash(w)
  PROVE  /\ \/ docs' = docs
            \/ /\ worker[w].pc = "save" /\ worker'[w].pc \in {"finish", "embed"}
               /\ manifest' = manifest
               /\ \E d : docs' = docs \cup {d} /\ NewDoc(w, d)
         /\ Unsaved(w)' => \/ Unsaved(w)
                           \/ /\ worker[w].pc = "look"
                              /\ MustHash(manifest[worker[w].path], file[worker[w].path].mtime)
         /\ worker'[w].pc \in {"finish", "embed", "upsert"} => Saved(w)'
         /\ \/ manifest' = manifest
            \/ Unsaved(w)
            \/ manifest'[worker[w].path].status \in {"processing", "done"}
<1> USE DEF Unsaved
<1>0. /\ worker[w] \in Work
      /\ worker[w].path \in Paths /\ worker[w].pc \in Pcs
      /\ DOMAIN worker = Workers
  BY StepBusy DEF TypeOK
<1>1. CASE Look(w)
  <2> DEFINE p == worker[w].path
  <2>0. docs' = docs /\ manifest' = manifest /\ worker[w].pc = "look"
    BY <1>1 DEF Look, db
  <2>1. CASE worker' = [worker EXCEPT ![w] = Idle]
    BY <1>0, <2>0, <2>1 DEF Idle
  <2>2. CASE /\ MustHash(manifest[p], file[p].mtime)
             /\ worker' = [worker EXCEPT ![w] = [@ EXCEPT !.pc = "claim", !.seen = manifest[p],
                                                         !.mtime = file[p].mtime,
                                                         !.loaded = TRUE]]
    <3>1. worker'[w] = [worker[w] EXCEPT !.pc = "claim", !.seen = manifest[p],
                                         !.mtime = file[p].mtime, !.loaded = TRUE]
      BY <1>0, <2>2
    <3>2. worker'[w].pc = "claim"
      BY <1>0, <3>1 DEF Work
    <3> QED
      BY <2>0, <2>2, <3>2
  <2> QED
    BY <1>1, <2>1, <2>2 DEF Look, SkipOrForce, Release
<1>2. CASE ClaimRaises(w)
  BY <1>0, <1>2 DEF ClaimRaises, Release, Idle, db
<1>3. CASE Claim(w)
  <2>1. worker'[w].pc \in {"idle", "mark"}
    <3>1. CASE worker' = [worker EXCEPT ![w] = Idle]
      BY <1>0, <3>1 DEF Idle
    <3>2. CASE worker' = [worker EXCEPT ![w] =
                            [@ EXCEPT !.pc = "mark", !.hash = file[worker[w].path].content,
                                      !.loaded = FALSE, !.seen = NoRow]]
      BY <1>0, <3>2 DEF Work
    <3> QED
      BY <1>3, <3>1, <3>2 DEF Claim, SkipOrForce, Release
  <2> QED
    BY <1>3, <2>1 DEF Claim
<1>4. CASE Mark(w)
  <2>1. worker'[w].pc = "extract"
    BY <1>0, <1>4, GotoWork DEF Mark, Pcs
  <2> QED
    BY <1>4, <2>1 DEF Mark
<1>5. CASE Extract(w)
  <2>1. worker'[w].pc \in {"failed", "save"}
    <3>1. CASE Goto(w, "failed")
      BY <1>0, <3>1, GotoWork DEF Pcs
    <3>2. CASE worker' = [worker EXCEPT ![w] =
                            [@ EXCEPT !.pc = "save", !.content = file[worker[w].path].content]]
      BY <1>0, <3>2 DEF Work
    <3> QED
      BY <1>5, <3>1, <3>2 DEF Extract
  <2> QED
    BY <1>5, <2>1 DEF Extract, db
<1>6. CASE Save(w)
  <2> DEFINE d == [id |-> nextDoc, path |-> worker[w].path,
                   content |-> worker[w].content, claim |-> worker[w].mtime]
  <2>0. worker'[w] = [worker[w] EXCEPT !.doc = nextDoc,
                        !.pc = IF worker[w].kind = "stream" THEN "embed" ELSE "finish"]
    BY <1>0, <1>6 DEF Save
  <2>1. worker'[w].pc \in {"finish", "embed"} /\ worker'[w].doc = nextDoc
    BY <1>0, <2>0 DEF Work
  <2>2. docs' = docs \cup {d} /\ manifest' = manifest
    BY <1>6 DEF Save
  <2>3. Saved(w)'
    <3>1. d \in docs' /\ d.id = nextDoc
      BY <2>2
    <3> QED
      BY <2>1, <3>1 DEF Saved
  <2>4. NewDoc(w, d)
    BY DEF NewDoc
  <2>5. worker[w].pc = "save"
    BY <1>6 DEF Save
  <2> HIDE DEF d
  <2> QED
    BY <2>1, <2>2, <2>3, <2>4, <2>5
<1>7. CASE Finish(w)
  <2>1. /\ worker[w].pc = "finish" /\ docs' = docs
        /\ manifest' = [manifest EXCEPT ![worker[w].path] =
                          Row("done", worker[w].hash, worker[w].mtime)]
    BY <1>0, <1>7, PutAll DEF Finish, Record
  <2>2. manifest'[worker[w].path].status = "done"
    BY <1>0, <2>1 DEF Row, TypeOK
  <2>3. \/ worker'[w] = Idle
        \/ worker'[w].pc = "embed" /\ worker'[w].doc = worker[w].doc
    BY <1>0, <1>7, GotoWork DEF Finish, Release, Pcs
  <2>4. Saved(w)
    BY <2>1 DEF SavedInv
  <2> QED
    BY <2>1, <2>2, <2>3, <2>4 DEF Saved, Idle
<1>8. CASE Embed(w)
  <2>1. worker[w].pc = "embed" /\ Saved(w)
    BY <1>8 DEF Embed, SavedInv
  <2>2. docs' = docs /\ manifest' = manifest
    BY <1>8, <2>1 DEF Embed
  <2>3. worker'[w].pc = "upsert" /\ worker'[w].doc = worker[w].doc
    BY <1>0, <1>8, <2>1, GotoWork DEF Embed, Pcs
  <2> QED
    BY <2>1, <2>2, <2>3 DEF Saved
<1>9. CASE Upsert(w)
  <2>1. /\ worker[w].pc = "upsert" /\ docs' = docs /\ manifest' = manifest
        /\ \/ worker'[w] = Idle
           \/ worker'[w].pc = "finish" /\ worker'[w].doc = worker[w].doc
    BY <1>0, <1>9, GotoWork DEF Upsert, Release, Pcs, db
  <2>2. Saved(w)
    BY <2>1 DEF SavedInv
  <2> QED
    BY <2>1, <2>2 DEF Saved, Idle
<1>10. CASE Fail(w)
  <2>1. worker[w].pc \in {"extract", "save"}
    BY <1>10 DEF Fail, Fault, NoLateFailure
  <2>2. worker'[w].pc = "failed"
    BY <1>0, <1>10, GotoWork DEF Fail, Pcs
  <2> QED
    BY <1>10, <2>1, <2>2 DEF Fail, db
<1>11. CASE Raise(w) \/ Crash(w)
  BY <1>0, <1>11 DEF Raise, Crash, Release, Idle, db
<1>12. CASE RecordFailed(w)
  BY <1>0, <1>12 DEF RecordFailed, Release, Idle
<1>13. CASE LoadRow(w)
  BY <1>13 DEF LoadRow
<1>14. CASE RecordRaises(w)
  BY <1>14 DEF RecordRaises, Conflict, Old
<1> QED
  BY <1>1, <1>2, <1>3, <1>4, <1>5, <1>6, <1>7, <1>8, <1>9, <1>10, <1>11, <1>12, <1>13, <1>14
     DEF Step

(* VersionInv is inductive.  The step that matters is Look: a file is only *)
(* hashed when no document was made from its current version.              *)
LEMMA VersionNext ==
  ASSUME Locked, NoLateFailure, TypeOK, TypeOK', ClaimInPast, OwnerInv, VersionInv, [Next]_vars
  PROVE  VersionInv'
<1> USE DEF VersionInv, NewVersion, VersionInRow, SavedInv, OneDocumentPerVersion
<1>0. /\ \A d \in docs : d.path \in Paths /\ d.claim \in Nat
      /\ \A q \in Paths : file[q].mtime \in Nat /\ manifest[q].mtime \in Nat
      /\ \A v \in Workers : worker[v].pc # "idle" =>
           worker[v].path \in Paths /\ worker[v].mtime \in Nat
  BY BusyWork DEF TypeOK, Rows, Work, Documents
<1>1. ASSUME NEW p \in Paths, WriteFile(p) \/ RemoveFile(p) PROVE VersionInv'
  <2>1. /\ manifest' = manifest /\ docs' = docs /\ worker' = worker
        /\ \A q \in Paths : /\ file'[q].mtime \in Nat
                            /\ file'[q] = file[q] \/ file'[q].mtime > file[q].mtime
    BY <1>1 DEF WriteFile, RemoveFile, TypeOK, db
  <2> QED
    BY <1>0, <2>1 DEF Unsaved, Saved
<1>2. CASE (\E p \in Paths : Scan(p)) \/ UNCHANGED vars
  <2>1. UNCHANGED <<file, manifest, docs, worker>>
    BY <1>2 DEF Scan, vars, db
  <2> QED
    BY <2>1 DEF Unsaved, Saved
<1>3. CASE Admin \/ (\E q \in Paths : Dismiss(q))
  <2>1. /\ file' = file /\ docs' = docs /\ worker' = worker
        /\ \A q \in Paths : manifest[q].status # "failed" => manifest'[q] = manifest[q]
    BY <1>3, LockedAdmin
  <2> QED
    BY <1>0, <2>1 DEF Unsaved, Saved
<1>4. ASSUME NEW w \in Workers, NEW p \in Paths, Take(w, p) \/ StartApi(w, p)
      PROVE  VersionInv'
  BY <1>4, StartFrame DEF Unsaved, Saved
<1>5. ASSUME NEW w \in Workers, Step(w) \/ Fail(w) \/ Raise(w) \/ Crash(w)
      PROVE  VersionInv'
  <2> DEFINE p == worker[w].path
  <2>0. /\ worker[w] \in Work /\ p \in Paths
        /\ worker[w].pc # "idle" /\ worker[w].force = FALSE
        /\ worker[w].mtime \in Nat /\ worker[w].mtime <= file[p].mtime
    BY <1>5, StepBusy DEF OwnerInv, NoForce, Busy, ClaimInPast
  <2>1. file' = file /\ \A v \in Workers \ {w} : worker'[v] = worker[v]
    BY <1>5, StepFrame
  <2>2. \A q \in Paths \ {p} : manifest'[q] = manifest[q]
    BY <1>5, StepRow DEF TypeOK, Put
  <2>3. CASE docs' = docs
    <3>1. OneDocumentPerVersion'
      BY <2>3
    <3>2. SavedInv'
      <4>1. worker'[w].pc \in {"finish", "embed", "upsert"} => Saved(w)'
        BY <1>5, <2>0, StepVersion DEF Locked
      <4>2. ASSUME NEW v \in Workers \ {w}, worker'[v].pc \in {"finish", "embed", "upsert"}
            PROVE  Saved(v)'
        BY <2>1, <2>3, <4>2 DEF Saved
      <4> QED
        BY <4>1, <4>2
    <3>3. NewVersion'
      <4>1. ASSUME Unsaved(w)', NEW d \in docs, d.path = p
            PROVE  /\ worker'[w].path = p
                   /\ d.claim < worker'[w].mtime
        <5>1. worker'[w].path = p
          BY <1>5, <2>0, <4>1, StepWork DEF Unsaved, Idle
        <5>2. CASE Unsaved(w)
          BY <1>5, <2>0, <4>1, <5>1, <5>2, StepWork DEF Unsaved, Idle
        <5>3. CASE worker[w].pc = "look" /\ MustHash(manifest[p], file[p].mtime)
          <6>1. worker'[w].mtime = file[p].mtime
            BY <1>5, <2>0, <4>1, <5>3, StepWork DEF Unsaved, Idle
          <6>2. d.claim # file[p].mtime
            BY <4>1, <5>3 DEF MustHash
          <6> QED
            BY <1>0, <4>1, <5>1, <6>1, <6>2
        <5> QED
          BY <1>5, <2>0, <4>1, <5>2, <5>3, StepVersion DEF Locked
      <4>2. \A v \in Workers \ {w} : Unsaved(v)' <=> Unsaved(v)
        BY <2>1 DEF Unsaved
      <4>3. Unsaved(w)' => worker'[w].path = p
        BY <1>5, <2>0, StepWork DEF Unsaved, Idle
      <4> QED
        BY <2>1, <2>3, <4>1, <4>2, <4>3
    <3>4. VersionInRow'
      <4>1. CASE manifest' = manifest
        BY <2>1, <2>3, <4>1
      <4>2. CASE Unsaved(w)
        <5>1. \A d \in docs : d.path = p => d.claim # file[p].mtime
          BY <1>0, <2>0, <4>2
        <5> QED
          BY <1>0, <2>1, <2>2, <2>3, <5>1
      <4>3. CASE /\ manifest' # manifest /\ ~Unsaved(w)
                 /\ manifest'[p].status \in {"processing", "done"}
        <5>1. Owns(w)
          BY <1>5, <2>0, <4>3, StepLock DEF Unsaved, Locked
        <5>2. manifest'[p].mtime = worker[w].mtime
          <6>1. PICK status, hash :
                  manifest' = [manifest EXCEPT ![p] = Row(status, hash, worker[w].mtime)]
            BY <1>5, <4>3, StepRowAll DEF Locked
          <6> QED
            BY <2>0, <6>1 DEF TypeOK, Row
        <5>3. manifest'[p].mtime = manifest[p].mtime
          BY <5>1, <5>2 DEF OwnerInv, OwnerHasRow
        <5> QED
          BY <1>0, <2>1, <2>2, <2>3, <4>3, <5>3
      <4> QED
        BY <1>5, <2>0, <4>1, <4>2, <4>3, StepVersion DEF Locked
    <3> QED
      BY <3>1, <3>2, <3>3, <3>4
  <2>4. ASSUME worker[w].pc = "save", worker'[w].pc \in {"finish", "embed"},
               manifest' = manifest, NEW d, docs' = docs \cup {d}, NewDoc(w, d)
        PROVE  VersionInv'
    <3>1. /\ d.path = p /\ d.claim = worker[w].mtime
          /\ \A e \in docs : e.path = p => e.claim < d.claim
      BY <2>4 DEF NewDoc, Unsaved
    <3>2. OneDocumentPerVersion'
      BY <1>0, <2>0, <2>4, <3>1
    <3>3. SavedInv'
      <4>1. worker'[w].pc \in {"finish", "embed", "upsert"} => Saved(w)'
        BY <1>5, <2>0, StepVersion DEF Locked
      <4>2. ASSUME NEW v \in Workers \ {w} PROVE Saved(v) => Saved(v)'
        BY <2>1, <2>4, <4>2 DEF Saved
      <4> QED
        BY <2>1, <4>1, <4>2
    <3>4. NewVersion'
      <4>1. ~Unsaved(w)'
        BY <2>4 DEF Unsaved
      <4>2. ASSUME NEW v \in Workers \ {w}, Unsaved(v) PROVE worker[v].path # p
        <5>1. Owns(w)
          BY <2>4 DEF Owns, InTry
        <5>2. worker[v].pc # "claim"
          BY <2>4 DEF OwnerInv, OneTransaction
        <5>3. Owns(v)
          BY <4>2, <5>2 DEF Unsaved, Owns, InTry
        <5> QED
          BY <5>1, <5>3 DEF OwnerInv, SingleOwner
      <4>3. \A v \in Workers \ {w} : Unsaved(v)' <=> Unsaved(v)
        BY <2>1 DEF Unsaved
      <4> QED
        BY <2>1, <2>4, <3>1, <4>1, <4>2, <4>3
    <3>5. VersionInRow'
      <4>1. Owns(w)
        BY <2>4 DEF Owns, InTry
      <4>2. manifest[p].status = "processing" /\ manifest[p].mtime = worker[w].mtime
        BY <4>1 DEF OwnerInv, OwnerHasRow
      <4> QED
        BY <1>0, <2>0, <2>1, <2>4, <3>1, <4>2
    <3> QED
      BY <3>2, <3>3, <3>4, <3>5
  <2> QED
    BY <1>5, <2>0, <2>3, <2>4, StepVersion DEF Locked
<1> QED
  BY <1>1, <1>2, <1>3, <1>4, <1>5 DEF Next, Environment

(* With SQLite a version of a file gives at most one document, in every    *)
(* interleaving of tasks, API pipelines, edits, scans, retries, crashes    *)
(* and cleared failures, when nothing raises between the commit of a       *)
(* document and its "done" row (the last record_entry; a stream's embedder *)
(* and Qdrant) and there are no forced ingestions, deletions, refetches,   *)
(* audits and dismissals.                                                  *)
THEOREM OneDocument ==
  ASSUME Locked, NoLateFailure PROVE Spec => []OneDocumentPerVersion
<1>1. Init => CurrentInv /\ OwnerInv /\ VersionInv
  BY DEF Init, CurrentInv, HasContent, ClaimInPast, RowInPast, SavePending, ClosePending,
     Closing, DoneIsCurrent, OwnerInv, NoForce, OneTransaction, SeenIsRow, OwnerHasRow,
     SingleOwner, Owns, InTry, Busy, Idle, NoRow, VersionInv, NewVersion, VersionInRow,
     Unsaved, SavedInv, OneDocumentPerVersion
<1>2. NothingDeleted /\ Serialised
  BY DEF NothingDeleted, Locked
<1>3. /\ TypeOK /\ TypeOK' /\ CurrentInv /\ OwnerInv /\ VersionInv /\ [Next]_vars
      => CurrentInv' /\ OwnerInv' /\ VersionInv'
  BY <1>2, CurrentNext, OwnerNext, VersionNext DEF CurrentInv
<1>4. VersionInv => OneDocumentPerVersion
  BY DEF VersionInv
<1> QED
  BY <1>1, <1>3, <1>4, TypeCorrect, PTL DEF Spec

-----------------------------------------------------------------------------
(* Whatever is called and whatever fails, on both databases.               *)

(* What a step of a pipeline does to the index: it saves a document with a *)
(* new identifier, writes the vectors of its document, or does neither and *)
(* writes them next only after the references are committed.               *)
LEMMA StepIndex ==
  ASSUME TypeOK, TypeOK', NEW w \in Workers, Step(w) \/ Fail(w) \/ Raise(w) \/ Crash(w)
  PROVE  \/ /\ UNCHANGED <<docs, nextDoc, vectors, admin>> /\ embedded \subseteq embedded'
            /\ PastSave(w)' => PastSave(w) /\ worker'[w].doc = worker[w].doc
            /\ worker'[w].pc = "upsert" => worker'[w].doc \in embedded'
         \/ /\ worker'[w].pc # "upsert" /\ worker'[w].doc = nextDoc
            /\ \E d : docs' = docs \cup {d} /\ d.id = nextDoc
            /\ nextDoc' = nextDoc + 1 /\ UNCHANGED <<embedded, vectors, admin>>
         \/ /\ worker[w].pc = "upsert" /\ vectors' = vectors \cup {worker[w].doc}
            /\ PastSave(w)' => worker'[w].doc = worker[w].doc
            /\ worker'[w].pc # "upsert" /\ UNCHANGED <<docs, nextDoc, embedded, admin>>
<1>0. worker[w] \in Work /\ worker[w].pc \in Pcs /\ DOMAIN worker = Workers
  BY StepBusy DEF TypeOK
<1>1. ASSUME worker'[w].pc \in {"idle", "claim", "mark", "extract", "save", "failed"},
             UNCHANGED <<docs, nextDoc, vectors, embedded, admin>>
      PROVE  /\ ~PastSave(w)' /\ worker'[w].pc # "upsert"
             /\ UNCHANGED <<docs, nextDoc, vectors, admin>> /\ embedded \subseteq embedded'
  BY <1>1 DEF PastSave
<1>2. Idle.pc = "idle"
  BY DEF Idle
<1>3. CASE Look(w)
  <2>1. UNCHANGED <<docs, nextDoc, vectors, embedded, admin>>
    BY <1>3 DEF Look, db
  <2>2. worker'[w] = Idle \/ worker'[w].pc \in {"claim", "mark"}
    BY <1>3, StepWork DEF Look
  <2> QED
    BY <1>1, <1>2, <2>1, <2>2
<1>4. CASE Claim(w)
  <2>1. UNCHANGED <<docs, nextDoc, vectors, embedded, admin>>
    BY <1>4 DEF Claim
  <2>2. CASE worker' = [worker EXCEPT ![w] = Idle]
    BY <1>0, <1>1, <1>2, <2>1, <2>2
  <2>3. CASE worker' = [worker EXCEPT ![w] =
                          [@ EXCEPT !.pc = "mark", !.hash = file[worker[w].path].content,
                                    !.loaded = FALSE, !.seen = NoRow]]
    <3>1. worker'[w].pc = "mark"
      BY <1>0, <2>3 DEF Work
    <3> QED
      BY <1>1, <2>1, <3>1
  <2> QED
    BY <1>4, <2>2, <2>3 DEF Claim, SkipOrForce, Release
<1>5. CASE ClaimRaises(w) \/ Raise(w) \/ Crash(w) \/ RecordFailed(w)
  <2>1. worker'[w] = Idle
    BY <1>0, <1>5 DEF ClaimRaises, Raise, Crash, RecordFailed, Release
  <2>2. UNCHANGED <<docs, nextDoc, vectors, embedded, admin>>
    BY <1>5 DEF ClaimRaises, Raise, Crash, RecordFailed, db
  <2> QED
    BY <1>1, <1>2, <2>1, <2>2
<1>6. CASE Mark(w) \/ Fail(w)
  <2>1. worker'[w].pc \in {"extract", "failed"}
    BY <1>0, <1>6, GotoWork DEF Mark, Fail, Pcs
  <2> QED
    BY <1>1, <1>6, <2>1 DEF Mark, Fail, db
<1>7. CASE Extract(w)
  <2>1. UNCHANGED <<docs, nextDoc, vectors, embedded, admin>>
    BY <1>7 DEF Extract, db
  <2>2. CASE Goto(w, "failed")
    BY <1>0, <1>1, <2>1, <2>2, GotoWork DEF Pcs
  <2>3. CASE worker' = [worker EXCEPT ![w] =
                          [@ EXCEPT !.pc = "save", !.content = file[worker[w].path].content]]
    <3>1. worker'[w].pc = "save"
      BY <1>0, <2>3 DEF Work
    <3> QED
      BY <1>1, <2>1, <3>1
  <2> QED
    BY <1>7, <2>2, <2>3 DEF Extract
<1>8. CASE Save(w)
  <2> DEFINE d == [id |-> nextDoc, path |-> worker[w].path,
                   content |-> worker[w].content, claim |-> worker[w].mtime]
  <2>0. worker'[w] = [worker[w] EXCEPT !.doc = nextDoc,
                        !.pc = IF worker[w].kind = "stream" THEN "embed" ELSE "finish"]
    BY <1>0, <1>8 DEF Save
  <2>1. docs' = docs \cup {d} /\ d.id = nextDoc
    BY <1>8 DEF Save
  <2>2. worker'[w].pc # "upsert" /\ worker'[w].doc = nextDoc
    BY <1>0, <2>0 DEF Work
  <2>3. nextDoc' = nextDoc + 1 /\ UNCHANGED <<embedded, vectors, admin>>
    BY <1>8 DEF Save
  <2> HIDE DEF d
  <2> QED
    BY <2>1, <2>2, <2>3
<1>9. CASE Finish(w)
  <2>1. \/ worker'[w] = Idle
        \/ worker'[w].pc = "embed" /\ worker'[w].doc = worker[w].doc
    BY <1>0, <1>9, GotoWork DEF Finish, Release, Pcs
  <2> QED
    BY <1>1, <1>2, <1>9, <2>1 DEF Finish, PastSave
<1>10. CASE Embed(w)
  <2>1. CASE Goto(w, "upsert") /\ embedded' = embedded \cup {worker[w].doc}
    <3>1. worker'[w].pc = "upsert" /\ worker'[w].doc = worker[w].doc
      BY <1>0, <2>1, GotoWork DEF Pcs
    <3> QED
      BY <1>10, <2>1, <3>1 DEF Embed, PastSave
  <2>2. CASE (Release(w) \/ Goto(w, "failed")) /\ UNCHANGED embedded
    <3>1. worker'[w].pc \in {"idle", "failed"}
      BY <1>0, <1>2, <2>2, GotoWork DEF Release, Pcs
    <3> QED
      BY <1>1, <1>10, <2>2, <3>1 DEF Embed
  <2> QED
    BY <1>10, <2>1, <2>2 DEF Embed
<1>11. CASE Upsert(w)
  <2>1. \/ worker'[w] = Idle
        \/ worker'[w].pc = "finish" /\ worker'[w].doc = worker[w].doc
    BY <1>0, <1>11, GotoWork DEF Upsert, Release, Pcs
  <2>2. worker'[w].pc # "upsert" /\ (PastSave(w)' => worker'[w].doc = worker[w].doc)
    BY <2>1 DEF Idle, PastSave
  <2> QED
    BY <1>11, <2>2 DEF Upsert, db
<1>12. CASE LoadRow(w)
  <2>1. worker'[w] = [worker[w] EXCEPT !.loaded = TRUE, !.seen = manifest[worker[w].path]]
    BY <1>0, <1>12 DEF LoadRow
  <2>2. worker'[w].pc = worker[w].pc /\ worker'[w].doc = worker[w].doc
    BY <1>0, <2>1 DEF Work
  <2> QED
    BY <1>12, <2>2 DEF LoadRow, Records, PastSave, db
<1>13. CASE RecordRaises(w)
  <2>1. worker'[w].pc \in {"idle", "failed"}
    BY <1>0, <1>2, <1>13, GotoWork DEF RecordRaises, Release, Pcs
  <2> QED
    BY <1>1, <1>13, <2>1 DEF RecordRaises, db
<1> QED
  BY <1>3, <1>4, <1>5, <1>6, <1>7, <1>8, <1>9, <1>10, <1>11, <1>12, <1>13 DEF Step

(* The deletion of rows forgets documents: what is left of the index is of *)
(* the documents that are left, since no two have the same identifier.     *)
LEMMA DeleteIndex ==
  ASSUME IndexInv, DeleteRows
  PROVE  IndexInv'
<1> DEFINE gone == admin.gone
<1>1. /\ docs' = docs \ gone
      /\ embedded' = embedded \ {d.id : d \in gone}
      /\ UNCHANGED <<vectors, nextDoc, worker>>
      /\ gone \subseteq docs
  BY DEF DeleteRows, IndexInv, GoneInv
<1>2. \A d \in docs' : d.id \notin {e.id : e \in gone}
  BY <1>1 DEF IndexInv, IdsDiffer
<1>3. IdsInPast' /\ IdsDiffer'
  BY <1>1 DEF IndexInv, IdsInPast, IdsDiffer, PastSave
<1>4. UpsertPending'
  <2> SUFFICES ASSUME NEW w \in Workers, worker[w].pc = "upsert", NEW d \in docs', d.id = worker[w].doc
               PROVE  worker[w].doc \in embedded'
    BY <1>1 DEF UpsertPending, Saved
  <2>1. worker[w].doc \in embedded
    BY <1>1 DEF IndexInv, UpsertPending, Saved
  <2> QED
    BY <1>1, <1>2, <2>1
<1>5. IndexedIsEmbedded'
  BY <1>1, <1>2 DEF IndexInv, IndexedIsEmbedded
<1>6. GoneInv'
  BY DEF DeleteRows, GoneInv, NoCall, Call
<1> QED
  BY <1>3, <1>4, <1>5, <1>6 DEF IndexInv

LEMMA IndexNext ==
  ASSUME TypeOK, TypeOK', IndexInv, [Next]_vars PROVE IndexInv'
<1>0. docs \subseteq [id : Nat, path : Paths, content : Contents, claim : Nat] /\ nextDoc \in Nat
  BY DEF TypeOK, Documents
<1>1. ASSUME UNCHANGED <<docs, nextDoc, embedded, worker>>, vectors' \subseteq vectors,
             admin'.gone \subseteq docs
      PROVE  IndexInv'
  BY <1>1 DEF IndexInv, IdsInPast, IdsDiffer, GoneInv, UpsertPending, IndexedIsEmbedded, Saved,
              PastSave
<1>2. CASE Environment \/ Audit \/ AbandonCall \/ ClearFailed \/ UNCHANGED vars
           \/ \E unread \in SUBSET Paths : WriteAudit(unread)
  <2>1. UNCHANGED <<docs, nextDoc, embedded, worker, vectors>>
    BY <1>2 DEF Environment, WriteFile, RemoveFile, Scan, Dismiss, Forget, Audit, WriteAudit,
                AbandonCall, ClearFailed, vars, db
  <2>2. admin' = admin \/ admin'.gone = {}
    <3>1. CASE Environment \/ ClearFailed \/ UNCHANGED vars
      BY <3>1 DEF Environment, WriteFile, RemoveFile, Scan, Dismiss, Forget, ClearFailed, vars
    <3>2. \A op, rows : Call(op, {}, rows).gone = {}
      BY DEF Call
    <3>3. CASE Audit \/ AbandonCall \/ \E unread \in SUBSET Paths : WriteAudit(unread)
      <4>1. \E op, rows : admin' = Call(op, {}, rows)
        BY <3>3 DEF Audit, WriteAudit, AbandonCall, NoCall
      <4> QED
        BY <3>2, <4>1
    <3> QED
      BY <1>2, <3>1, <3>3
  <2> QED
    BY <1>1, <2>1, <2>2 DEF IndexInv, GoneInv
<1>3. CASE Delete \/ ForceRefetch
  <2>1. PICK op, gone : gone \in SUBSET docs /\ DeletePoints(op, gone)
    BY <1>3 DEF Delete, ForceRefetch
  <2>2. UNCHANGED <<docs, nextDoc, embedded, worker>> /\ vectors' \subseteq vectors
    BY <2>1 DEF DeletePoints, db
  <2>3. admin'.gone \subseteq docs
    BY <2>1 DEF DeletePoints, Call
  <2> QED
    BY <1>1, <2>2, <2>3
<1>4. ASSUME NEW w \in Workers, NEW p \in Paths, Take(w, p) \/ StartApi(w, p) PROVE IndexInv'
  <2>1. UNCHANGED <<docs, nextDoc, embedded, vectors, admin>>
    BY <1>4 DEF Take, StartApi, db
  <2>2. ~PastSave(w)' /\ worker'[w].pc # "upsert" /\ \A v \in Workers \ {w} : worker'[v] = worker[v]
    BY <1>4, StartFrame DEF PastSave
  <2> QED
    BY <2>1, <2>2 DEF IndexInv, IdsInPast, IdsDiffer, GoneInv, UpsertPending, IndexedIsEmbedded, Saved, PastSave
<1>5. ASSUME NEW w \in Workers, Step(w) \/ Fail(w) \/ Raise(w) \/ Crash(w) PROVE IndexInv'
  <2>0. /\ worker[w] \in Work
        /\ \A v \in Workers \ {w} : worker'[v] = worker[v]
    BY <1>5, StepBusy, StepFrame
  <2>1. CASE /\ UNCHANGED <<docs, nextDoc, vectors, admin>> /\ embedded \subseteq embedded'
             /\ PastSave(w)' => PastSave(w) /\ worker'[w].doc = worker[w].doc
             /\ worker'[w].pc = "upsert" => worker'[w].doc \in embedded'
    BY <2>0, <2>1
    DEF IndexInv, IdsInPast, IdsDiffer, GoneInv, UpsertPending, IndexedIsEmbedded, Saved, PastSave
  <2>2. ASSUME worker'[w].pc # "upsert", worker'[w].doc = nextDoc,
               NEW d, docs' = docs \cup {d}, d.id = nextDoc,
               nextDoc' = nextDoc + 1, UNCHANGED <<embedded, vectors, admin>>
        PROVE  IndexInv'
    <3>1. IdsInPast'
      <4>1. \A n \in Nat : n < nextDoc => n < nextDoc'
        BY <1>0, <2>2
      <4>2. nextDoc < nextDoc'
        BY <1>0, <2>2
      <4>3. \A v \in vectors : v \in Nat
        BY DEF TypeOK
      <4>4. ASSUME NEW v \in Workers \ {w}, PastSave(v)' PROVE worker'[v].doc < nextDoc'
        <5>1. PastSave(v) /\ worker'[v] = worker[v]
          BY <2>0, <4>4 DEF PastSave
        <5>2. worker[v] \in Work
          BY <5>1, BusyWork DEF PastSave
        <5> QED
          BY <4>1, <5>1, <5>2 DEF IndexInv, IdsInPast, Work
      <4> QED
        BY <1>0, <2>2, <4>1, <4>2, <4>3, <4>4 DEF IndexInv, IdsInPast
    <3>2. IdsDiffer'
      <4>1. \A e \in docs : e.id # nextDoc
        BY <1>0 DEF IndexInv, IdsInPast
      <4> QED
        BY <2>2, <4>1 DEF IndexInv, IdsDiffer
    <3>3. UpsertPending'
      <4> SUFFICES ASSUME NEW v \in Workers, worker'[v].pc = "upsert",
                          NEW e \in docs', e.id = worker'[v].doc
                   PROVE  worker'[v].doc \in embedded'
        BY DEF UpsertPending, Saved
      <4>1. v # w /\ worker'[v] = worker[v]
        BY <2>0, <2>2
      <4>2. worker[v].doc < nextDoc /\ worker[v].doc \in Nat
        <5>1. worker[v] \in Work
          BY <4>1, BusyWork
        <5> QED
          BY <4>1, <5>1 DEF IndexInv, IdsInPast, PastSave, Work
      <4>3. e \in docs
        BY <1>0, <2>2, <4>1, <4>2
      <4> QED
        BY <2>2, <4>1, <4>3 DEF IndexInv, UpsertPending, Saved
    <3>4. IndexedIsEmbedded'
      <4>1. nextDoc \notin vectors
        BY <1>0 DEF IndexInv, IdsInPast
      <4> QED
        BY <2>2, <4>1 DEF IndexInv, IndexedIsEmbedded
    <3> QED
      BY <2>2, <3>1, <3>2, <3>3, <3>4 DEF IndexInv, GoneInv
  <2>3. CASE /\ worker[w].pc = "upsert" /\ vectors' = vectors \cup {worker[w].doc}
             /\ PastSave(w)' => worker'[w].doc = worker[w].doc
             /\ worker'[w].pc # "upsert" /\ UNCHANGED <<docs, nextDoc, embedded, admin>>
    BY <2>0, <2>3
    DEF IndexInv, IdsInPast, IdsDiffer, GoneInv, UpsertPending, IndexedIsEmbedded, Saved, PastSave
  <2> QED
    BY <1>5, <2>1, <2>2, <2>3, StepIndex
<1>6. CASE DeleteRows
  BY <1>6, DeleteIndex
<1> QED
  BY <1>2, <1>3, <1>4, <1>5, <1>6 DEF Next, Admin, AdminStep

(* No document has vectors before its embedding_ref is committed, whatever *)
(* is purged, ingested again, retried or killed meanwhile, on SQLite and   *)
(* on PostgreSQL (workers/ingest_tasks.py, run_single_file_full_ingest).   *)
THEOREM IndexFollowsCommit == Spec => []IndexedIsEmbedded
<1>1. Init => IndexInv
  BY DEF Init, IndexInv, IdsInPast, IdsDiffer, GoneInv, UpsertPending, IndexedIsEmbedded,
     PastSave, Idle, NoCall, Call
<1>2. TypeOK /\ TypeOK' /\ IndexInv /\ [Next]_vars => IndexInv'
  BY IndexNext
<1>3. IndexInv => IndexedIsEmbedded
  BY DEF IndexInv
<1> QED
  BY <1>1, <1>2, <1>3, TypeCorrect, PTL DEF Spec

-----------------------------------------------------------------------------
(* A pipeline leaves its path only with a row that says how it ended.      *)
NothingDies == {"raise", "crash"} \cap Faults = {}

LEMMA StepOwned ==
  ASSUME NothingDies, TypeOK, TypeOK', NEW w \in Workers, Step(w) \/ Fail(w)
  PROVE  /\ \A q \in Paths : q # worker[w].path => manifest'[q] = manifest[q]
         /\ manifest'[worker[w].path].status = "processing" =>
              \/ Owns(w)' /\ worker'[w].path = worker[w].path /\ Fresh(w)'
              \/ manifest[worker[w].path].status = "processing" /\ ~(Owns(w) /\ Fresh(w))
<1> DEFINE p == worker[w].path
           Others == \A q \in Paths : q # p => manifest'[q] = manifest[q]
           Kept == Owns(w)' /\ worker'[w].path = p /\ Fresh(w)'
<1>0. /\ worker[w] \in Work /\ p \in Paths /\ worker[w].pc \in Pcs /\ DOMAIN worker = Workers
      /\ manifest \in [Paths -> Rows]
  BY StepBusy DEF TypeOK
<1>1. Others
  BY StepRow DEF Put, TypeOK
<1>2. ASSUME NEW pc \in {"mark", "extract", "save", "finish", "failed"}, Goto(w, pc) PROVE Kept
  BY <1>0, <1>2, GotoWork DEF Owns, InTry, Fresh, Pcs
(* What is put is "processing", or something else than what was read.      *)
<1>3. ASSUME NEW status \in {"done", "failed", "skipped_duplicate"}, NEW hash,
             Put(w, Row(status, hash, worker[w].mtime)), manifest'[p].status = "processing",
             Owns(w) => MayRecord(w)
      PROVE  manifest[p].status = "processing" /\ ~(Owns(w) /\ Fresh(w))
  <2> DEFINE new == Row(status, hash, worker[w].mtime)
  <2>1. manifest'[p] = Merge(Old(w), new, manifest[p])
    BY <1>0, <1>3 DEF Put
  <2>2. new.status = status
    BY DEF Row
  <2>3. manifest'[p].status = IF new.status = Old(w).status THEN manifest[p].status ELSE new.status
    BY <2>1 DEF Merge, Row
  <2>4. Old(w).status = status /\ manifest[p].status = "processing"
    BY <1>3, <2>2, <2>3
  <2>5. ASSUME Owns(w), Fresh(w) PROVE FALSE
    BY <1>3, <2>4, <2>5 DEF Old, Fresh, MayRecord
  <2> QED
    BY <2>4, <2>5
<1>4. CASE Look(w) \/ ClaimRaises(w)
  BY <1>1, <1>4 DEF Look, ClaimRaises, Owns, InTry, db
<1>5. CASE Claim(w)
  <2> DEFINE h == file[p].content
  <2>1. worker[w].pc = "claim" /\ ~Owns(w)
    BY <1>5 DEF Claim, Owns, InTry
  <2>2. CASE UNCHANGED manifest
    BY <1>1, <2>1, <2>2
  <2>3. CASE Put(w, Row("skipped_duplicate", h, worker[w].mtime))
    BY <1>1, <1>3, <2>1, <2>3
  <2>4. CASE worker' = [worker EXCEPT ![w] = [@ EXCEPT !.pc = "mark", !.hash = h,
                                                      !.loaded = FALSE, !.seen = NoRow]]
    <3>1. worker'[w] = [worker[w] EXCEPT !.pc = "mark", !.hash = h,
                                         !.loaded = FALSE, !.seen = NoRow]
      BY <1>0, <2>4
    <3>2. worker'[w].pc = "mark" /\ worker'[w].path = p /\ worker'[w].loaded = FALSE
      BY <1>0, <3>1 DEF Work
    <3>3. Kept
      BY <3>2 DEF Owns, Fresh
    <3> QED
      BY <1>1, <3>3
  <2> QED
    BY <1>5, <2>2, <2>3, <2>4 DEF Claim
<1>6. CASE Mark(w) \/ Fail(w)
  <2>1. Kept
    BY <1>2, <1>6 DEF Mark, Fail
  <2> QED
    BY <1>1, <2>1
<1>7. CASE RecordFailed(w)
  BY <1>0, <1>1, <1>3, <1>7 DEF RecordFailed, Record
<1>8. CASE Extract(w)
  <2>1. CASE Goto(w, "failed")
    BY <1>1, <1>2, <2>1
  <2>2. CASE /\ UNCHANGED manifest /\ worker[w].pc = "extract"
             /\ worker' = [worker EXCEPT ![w] = [@ EXCEPT !.pc = "save", !.content = file[p].content]]
    <3>1. worker'[w] = [worker[w] EXCEPT !.pc = "save", !.content = file[p].content]
      BY <1>0, <2>2
    <3>2. /\ worker'[w].pc = "save" /\ worker'[w].path = p
          /\ worker'[w].loaded = worker[w].loaded /\ worker'[w].seen = worker[w].seen
      BY <1>0, <3>1 DEF Work
    <3>3. Owns(w) /\ Owns(w)' /\ (Fresh(w) => Fresh(w)')
      BY <2>2, <3>2 DEF Owns, InTry, Fresh
    <3> QED
      BY <1>1, <2>2, <3>2, <3>3
  <2> QED
    BY <1>8, <2>1, <2>2 DEF Extract, db
<1>9. CASE Save(w)
  <2>1. worker'[w] = [worker[w] EXCEPT !.doc = nextDoc,
                        !.pc = IF worker[w].kind = "stream" THEN "embed" ELSE "finish"]
    BY <1>0, <1>9 DEF Save
  <2>2. /\ worker'[w].pc = (IF worker[w].kind = "stream" THEN "embed" ELSE "finish")
        /\ worker'[w].kind = worker[w].kind /\ worker'[w].path = p
        /\ worker'[w].loaded = worker[w].loaded /\ worker'[w].seen = worker[w].seen
    BY <1>0, <2>1 DEF Work
  <2>3. Owns(w)' /\ (Fresh(w) => Fresh(w)')
    BY <2>2 DEF Owns, InTry, Fresh
  <2> QED
    BY <1>1, <1>9, <2>2, <2>3 DEF Save
<1>10. CASE Finish(w)
  BY <1>0, <1>1, <1>3, <1>10 DEF Finish, Record
<1>11. CASE Embed(w)
  <2>1. manifest' = manifest /\ worker[w].pc = "embed"
    BY <1>11 DEF Embed
  <2>2. CASE worker[w].kind # "stream"
    BY <1>1, <2>1, <2>2 DEF Owns, InTry
  <2>3. CASE worker[w].kind = "stream" /\ Goto(w, "failed")
    BY <1>1, <1>2, <2>3
  <2>4. CASE worker[w].kind = "stream" /\ Goto(w, "upsert")
    <3>1. /\ worker'[w].pc = "upsert" /\ worker'[w].kind = "stream"
          /\ worker'[w].path = p /\ worker'[w].loaded = FALSE
      BY <1>0, <2>4, GotoWork DEF Pcs
    <3>2. Kept
      BY <3>1 DEF Owns, InTry, Fresh
    <3> QED
      BY <1>1, <3>2
  <2> QED
    BY <1>11, <2>2, <2>3, <2>4 DEF Embed
<1>12. CASE Upsert(w)
  <2>1. manifest' = manifest /\ worker[w].pc = "upsert"
    BY <1>12 DEF Upsert, db
  <2>2. CASE worker[w].kind # "stream"
    BY <1>1, <2>1, <2>2 DEF Owns, InTry
  <2>3. CASE worker[w].kind = "stream"
    BY <1>1, <1>2, <1>12, <2>3 DEF Upsert
  <2> QED
    BY <2>2, <2>3
<1>13. CASE LoadRow(w)
  <2>1. worker'[w] = [worker[w] EXCEPT !.loaded = TRUE, !.seen = manifest[p]]
    BY <1>0, <1>13 DEF LoadRow
  <2>2. /\ worker'[w].pc = worker[w].pc /\ worker'[w].kind = worker[w].kind
        /\ worker'[w].path = p /\ worker'[w].seen = manifest[p]
    BY <1>0, <2>1 DEF Work
  <2>3. manifest' = manifest /\ worker[w].pc \in {"mark", "finish", "failed"}
    BY <1>13 DEF LoadRow, Records, db
  <2>4. Owns(w)' /\ (manifest'[p].status = "processing" => Fresh(w)')
    BY <2>2, <2>3 DEF Owns, InTry, Fresh
  <2> QED
    BY <1>1, <2>2, <2>4
<1>14. CASE RecordRaises(w)
  <2>1. manifest' = manifest
    BY <1>14 DEF RecordRaises, db
  <2>2. CASE Goto(w, "failed")
    BY <1>1, <1>2, <2>2
  <2>3. CASE manifest[p].status = "processing" /\ Fresh(w)
    BY <1>14, <2>3 DEF RecordRaises, Conflict, Old, MayRecord, Fresh
  <2> QED
    BY <1>1, <1>14, <2>1, <2>2, <2>3 DEF RecordRaises
<1> QED
  BY <1>4, <1>5, <1>6, <1>7, <1>8, <1>9, <1>10, <1>11, <1>12, <1>13, <1>14 DEF Step

(* ProcessingInv is inductive: a pipeline whose last record leaves the     *)
(* "processing" of another one's claim had read a row older than it.       *)
LEMMA OwnedNext ==
  ASSUME NothingDies, TypeOK, TypeOK', ProcessingInv, [Next]_vars PROVE ProcessingInv'
<1>1. ASSUME worker' = worker,
             \A p \in Paths : manifest'[p].status = "processing" => manifest[p].status = "processing"
      PROVE  ProcessingInv'
  BY <1>1 DEF ProcessingInv, Owns, InTry, Fresh
<1>2. CASE Environment \/ Admin \/ UNCHANGED vars
  <2>1. worker' = worker
    BY <1>2, AdminFrame DEF vars
  <2>2. CASE Keeps
    BY <1>1, <2>2, AdminRows
  <2>3. CASE \/ \E p \in Paths : WriteFile(p) \/ RemoveFile(p) \/ Scan(p)
             \/ Delete \/ ForceRefetch \/ UNCHANGED vars
    <3>1. manifest' = manifest
      BY <2>3 DEF WriteFile, RemoveFile, Scan, Delete, ForceRefetch, DeletePoints, vars, db
    <3> QED
      BY <1>1, <2>1, <3>1
  <2>4. CASE DeleteRows
    <3>1. \A p \in Paths : manifest'[p].status = "processing" => manifest[p].status = "processing"
      BY <2>4 DEF DeleteRows, NoRow
    <3> QED
      BY <1>1, <2>1, <3>1
  <2> QED
    BY <1>2, <2>2, <2>3, <2>4 DEF Environment, Admin, AdminStep, Keeps
<1>3. ASSUME NEW w \in Workers, NEW p \in Paths, Take(w, p) \/ StartApi(w, p)
      PROVE  ProcessingInv'
  <2>1. ~Owns(w)
    BY <1>3 DEF Take, StartApi, Busy, Owns, InTry
  <2>2. manifest' = manifest /\ \A v \in Workers \ {w} : worker'[v] = worker[v]
    BY <1>3, StartFrame
  <2> QED
    BY <2>1, <2>2 DEF ProcessingInv, Owns, InTry, Fresh
<1>4. ASSUME NEW w \in Workers, Raise(w) \/ Crash(w) PROVE FALSE
  BY <1>4 DEF Raise, Crash, Fault, NothingDies
<1>5. ASSUME NEW w \in Workers, Step(w) \/ Fail(w) PROVE ProcessingInv'
  <2>1. \A v \in Workers \ {w} : worker'[v] = worker[v]
    BY <1>5, StepFrame
  <2>2. \A v \in Workers \ {w} : Owns(v) /\ Fresh(v) => Owns(v)' /\ Fresh(v)'
    BY <2>1 DEF Owns, InTry, Fresh
  <2> SUFFICES ASSUME NEW p \in Paths, manifest'[p].status = "processing"
               PROVE  \E v \in Workers : Owns(v)' /\ worker'[v].path = p /\ Fresh(v)'
    BY DEF ProcessingInv
  <2>3. CASE Owns(w)' /\ worker'[w].path = p /\ Fresh(w)'
    BY <2>3
  <2>4. CASE ~(Owns(w)' /\ worker'[w].path = p /\ Fresh(w)')
    <3>1. /\ manifest[p].status = "processing"
          /\ worker[w].path = p => ~(Owns(w) /\ Fresh(w))
      BY <1>5, <2>4, StepOwned
    <3>2. PICK v \in Workers : Owns(v) /\ worker[v].path = p /\ Fresh(v)
      BY <3>1 DEF ProcessingInv
    <3> QED
      BY <2>1, <2>2, <3>1, <3>2
  <2> QED
    BY <2>3, <2>4
<1> QED
  BY <1>2, <1>3, <1>4, <1>5 DEF Next

(* While no process dies and no exception leaves a pipeline, every row     *)
(* that says "processing" has a pipeline that will say how it ended, in    *)
(* every interleaving, with forced ingestions and on both databases        *)
(* (process_file).                                                         *)
THEOREM ProcessingHasOwner ==
  ASSUME NothingDies PROVE Spec => []ProcessingIsOwned
<1>1. Init => ProcessingInv
  BY DEF Init, ProcessingInv, NoRow
<1>2. TypeOK /\ TypeOK' /\ ProcessingInv /\ [Next]_vars => ProcessingInv'
  BY OwnedNext
<1>3. ProcessingInv => ProcessingIsOwned
  BY DEF ProcessingInv, ProcessingIsOwned
<1> QED
  BY <1>1, <1>2, <1>3, TypeCorrect, PTL DEF Spec
=============================================================================
