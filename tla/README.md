# RagAi, specified in TLA+

RagAi is a retrieval-augmented assistant for a university: files of watched
folders, uploads and the university's website are extracted, chunked, embedded
and indexed; students ask questions that are answered from the index. This
directory specifies the parts of it where several processes, threads or tasks
work on shared state and where a failure in the middle leaves something behind:
the ingestion pipeline, the keyword index, the web crawler, the way of a
question to its answer (cache, retrieval, GPU, conversations), the tiers of the
virtual file system, the administrator accounts and the migration to another
server. The modules are checked with TLC on small instances; every safety
property that a run checks is also proved for every value of the constants,
under the assumptions section 4 names.

All paths are relative to the repository (`src/`). `PROJECT.json` names, for
every definition of the modules, the lines it models.

## 1. Inventory

### The system

| component | state it keeps | operations |
|---|---|---|
| ingestion pipeline (`ingestion/`, `workers/`) | `manifest_entries` (one row per path: status, SHA-256, mtime), `documents`, `chunks` (with `embedding_ref`), the points in Qdrant, the broker's queue | `should_process`, `record_entry`, `process_file`, the Celery task with its retries, watchdog events, scans |
| governance API (`routers/admin_governance.py`, `routers/documents.py`) | the same tables | delete one, several or all documents, forced refetch, retry and clearing of failed files, integrity audit, streaming ingestion; clear the cache; optimise or reset the rules |
| keyword index (`rag/bm25_index.py`) | one corpus list and one BM25 model in the memory of each process, one lock | load, reload, build, add, search |
| crawl control (`scraper/crawler.py`, `scraper/scheduler.py`, `routers/scraper.py`) | `is_running`, `stop_requested` of the process; `web_scrape_jobs` | create, update, delete a job; run now; stop; the scheduler's check; a crawl |
| crawl of a page (`scraper/delta_detector.py`, `ingest_bridge.py`, `doc_downloader.py`, `storage_cleaner.py`) | `web_scrape_manifest`, documents, chunks, vectors, the download directory | conditional request, change detection, ingestion of pages and documents, single-URL request, sweep, purge |
| semantic cache (`core/cache.py`) | an exact tier in Redis or, without it, in a bounded map of the process; a bounded list of question vectors; the connection to Redis | get, set, get and set by similarity, clear, diagnostics |
| answer flow and feedback (`routers/ask.py`, `routers/chat.py`, `rag/chat_generator.py`, `rag/retriever.py`, `rag/crag.py`) | requests under way, the queue for the GPU and its threads, `chat_sessions`, `chat_messages` | ask, stream, complete, record in the background, rate, delete and purge sessions |
| self improvement (`rag/self_improver.py`) | the file of the prompt's rules, cycles under way | one cycle of three origins, reset |
| tiered context (`context/tiered_engine.py`, `routers/context.py`) | `context_tiers`, a cached tree, a debounced task | trigger, synchronise, read the tree, invalidate, answer an overview |
| administrator accounts (`routers/admin_auth.py`), authentication (`core/auth.py`) | `admin_users`, bearer tokens | log in, change the password, create, set the status, update, delete; authenticate and check the role |
| server migration (`routers/server_migration.py`) | the migration manager, `.env` and `.env.rollback`, the bindings of the process, two servers | start, copy, cancel, compare, cut over, roll back |
| rate limiter, backup and restore, notice scout, knowledge graph, settings, content guard, logs, extraction, user interfaces | counters, archives, or none | see 8 |

### How the components interact

* `watchdog` events and scans put a Celery message per path into the broker.
  A Celery worker (its own process, its own keyword index) runs the pipeline.
  The API server runs the same pipeline inside requests: *single* for retries
  of failed files, *stream* for the streaming ingestion.
* All of them meet in one database. On SQLite every transaction starts with
  `BEGIN IMMEDIATE` (`db/session.py:29`), so one process at a time is between
  its first statement and its commit; on PostgreSQL several are.
* After the database, the pipeline writes Qdrant and then the keyword index;
  no transaction covers the three.
* The crawler is one object of the API server. The scheduler and the endpoints
  start crawls as tasks of the event loop; a crawl hands downloads to the
  ingestion pipeline and pages to its own ingestion, and reloads the keyword
  index at its end.
* The keyword index is used by searches (threads that take no lock), by
  ingestions, by crawls and by the purge.
* A question asks the cache (the exact tier, then the semantic one), then
  searches Qdrant and the keyword index in two threads; the reranker takes the
  lock of the GPU, the generation waits in `gpu_async_lock` and its thread takes
  the lock of the GPU again. The answer is stored in the cache, and a background
  task records it in the session of the conversation. Ratings and deletions
  write the same rows.
* A deletion of documents removes points and rows (with their context tiers)
  and clears the cache; the keyword index keeps the chunks until it is reloaded.
* An ingestion in the API's process triggers the debounced synchronisation of
  the context tiers; readers of the tree, and administrators, synchronise too.
* The optimisation cycles read failed conversations, and the rules they keep
  are in every prompt that follows.
* A migration copies the database and Qdrant of the server in use while requests
  go on; the cutover rewrites `.env` and binds engine, Qdrant client, Redis and
  keyword index of the API's process to the target. The Celery worker is another
  process and stays where it is until it is restarted.

### What is hard

Steps of two pipelines on one path; retries and redeliveries of what has
already been done; a failure between "done" in one store and "done" in the
next; deletions under a running ingestion; state read before an `await` and
used after it; an index that is replaced while a search reads it by position; a
change detection that commits what it has *seen* before it is *stored*; a
process killed with a claim in a row; an answer that is stored after the clear
that should have removed it, or under a scope it was not made for; two locks
for one GPU, and streams that time out or lose their client while they hold or
await one; tasks that write back totals of a row they have read; two
optimisation cycles that cross; a debounce that takes a synchronisation under
way for one to come; a superadmin counted before another one is removed; a
process of which one part is bound to the old server and another to the new
one. `PROJECT.json` lists each hazard at its line, with the property that
watches it.

### What makes each component correct

* Ingestion: a path has one owner; a version of a file becomes one document;
  "done" is true of the file; a claim is taken back; every file is settled in
  the end; a vector is never written twice by the repair.
* Keyword index: a score belongs to its chunk; no search fails; a handed chunk
  is not lost; no caller waits for ever.
* Crawl control: one crawl at a time that a stop ends; "busy" and "running" are
  taken back; due jobs run.
* Crawl of a page: what the manifest has seen is stored; a page has one text; a
  text has its vectors; an entry has its document; crawls catch up with the web.
* Semantic cache: what was cleared is gone; an answer is served in its scope.
* Answers: every request, task and synchronisation ends, whoever holds or leaves
  the GPU.
* Conversations: the totals of a session are those of its messages. Rules: a
  prompt has the defaults or rules that were scored.
* Tiered context: what was ingested gets its tier; a reader misses only what is
  younger than the cache's time to live.
* Accounts: an active superadmin remains. Migration: a completed job has copied
  what was there and stayed; the parity report does not lie; the process uses
  one server; nobody is locked out by a cutover; a job ends.

## 2. Modules

| module | what | extends |
|---|---|---|
| `Ingestion` | pipeline, manifest, Celery, governance calls | |
| `IngestionInvariants` | the inductive invariants | `Ingestion` |
| `IngestionProofs` | the theorems | `IngestionInvariants`, `TLAPS` |
| `Subsequence` | the elements of a list at some of its positions | |
| `DataLemmas` | what `Subsequence` and sums over sets compute | `Subsequence`, `TLAPS` |
| `Bm25Index` | keyword index, its writers and its searches | `Subsequence` |
| `Bm25Proofs` | the theorems of the keyword index | `Bm25Index`, `DataLemmas` |
| `CrawlControl` | jobs, scheduler, requests, the life of a crawl | `OneCrawler` by `INSTANCE` |
| `OneCrawler` | what the crawler promises its callers | |
| `CrawlProofs` | the theorems of the crawl control | `CrawlControl`, `TLAPS` |
| `CrawlDelta` | what a crawl does with a URL, single requests, sweep, purge | |
| `CrawlDeltaProofs` | the theorems of the crawl of a page | `CrawlDelta`, `TLAPS` |
| `SemanticCache` | the two tiers of the cache and the connection to Redis | `Subsequence` |
| `Conversations` | sessions, messages, ratings; the rules and their cycles | |
| `TieredContext` | context tiers, their synchronisation, the cached tree | |
| `Answers` | the way of a question to its answer; deletions; restart | `SemanticCache`, `Conversations`, `TieredContext` |
| `AnswerProofs` | the theorems of cache, answers, conversations, rules and context | `Answers`, `DataLemmas` |
| `AdminAccounts` | accounts, requests on them, login | |
| `AdminProofs` | the theorems of the accounts | `AdminAccounts`, `TLAPS` |
| `Migration` | copy, parity, cutover, rollback, with the accounts and writers | `AdminAccounts` |
| `MigrationProofs` | the theorems of the migration | `Migration`, `AdminProofs` |
| `MC...` | instances and symmetry for TLC | each its module |

### Ingestion

A step of a pipeline is what it does between two points where another process
can act: a commit, a read of the file, a call of Qdrant. `worker[w].pc` is the
next one:

| pc | code | next |
|---|---|---|
| `look` | `should_process` up to the read of the file (`manifest.py:37`) | skipped, or `claim` |
| `claim` | hash, duplicate check, row (`manifest.py:49-105`) | skipped, or `mark` |
| `mark` | `record_entry("processing")` again, outside the try block (`pipeline.py:58`) | `extract` |
| `extract` | text in a thread (`pipeline.py:60`) | `save` |
| `save` | document and chunks committed (`pipeline.py:74-107`) | `finish` (stream: `embed`) |
| `finish` | row "done" (`pipeline.py:110`) | `embed` (stream: end) |
| `embed` | vectors computed, `embedding_ref` committed (`ingest_tasks.py:51-80`) | `upsert` |
| `upsert` | points written to Qdrant | end (stream: `finish`) |

* `record_entry` reads the row, then inserts it or updates the columns that
  differ from what it has read (the ORM's unit of work). On SQLite both happen
  under one lock; on PostgreSQL they are two steps: `LoadRow` and the `Merge` of
  `Record`, which may raise when the row has come or gone in between
  (`RecordRaises`). `should_process` does the same with the read of `look` and the
  write of `claim`.
* `MustHash` is the heart of change detection: a new or failed row is hashed,
  a `processing` row never, any other one when the mtime differs.
* With `Serialised` (SQLite) a pipeline at `claim` or `save` holds the write
  lock: `record_entry` refreshes the row it has committed, which opens the
  transaction the document is committed in, so that the lock is held during
  extraction. `Locks`/`DbFree` say who waits.
* Failures: `Fail` is an exception inside the try block (row "failed", the task
  ends normally), `Raise` one outside of it (the row stays as it is, Celery
  sends the task again), `Crash` kills the process (`acks_late`: the message may
  come back). A `Fail` of kind "extract" hits before the commit of the document,
  one of kind "record" after it: the record of "done", and the stream's embedder
  and Qdrant. `ClaimRaises` is the exception the code itself provokes.
* A deletion is its points (`Delete`, `ForceRefetch`: what Qdrant refuses stays,
  fault "qdrant"), then its rows (`DeleteRows`); an audit is its reads (`Audit`),
  then its commit (`WriteAudit`: a file that cannot be read is "failed", fault
  "read"). On SQLite the lock is held in between (`AdminLocks`). The pipelines go
  on beside them; two such calls do not overlap. Clearing and dismissal of failed
  rows are one transaction each. `Delete` covers the three deletions: any set of
  documents.
* A file is its content, which stands for its hash, and a modification time
  that grows by one with each change.

### Bm25Index

The corpus is the list `self.corpus`; `model` is the list the BM25 model was
built from (empty for `None`): score *i* is the score of `model[i]`. The corpus
is a Python list that is sometimes changed in place (`add_chunks`, `extend`)
and sometimes replaced (`build_index`, `reload_from_db`, `add_chunks` at the
limit); a rebuild that was handed the list itself sees the changes in place and
not the replacement. `live`, `Frozen` and `Assign` keep that difference.

A search looks at the attributes twice (`Check`, `Score`) and then at
`self.corpus` once per score (`Collect`); it takes no lock. `ensure_loaded`
checks, locks, checks again, loads and builds: `Ensure`, `Load`, `Install`,
`Model`. `reload_from_db` gives the lock back between `Reset` and `Load`. An error
of the database during a load is swallowed, the index stays as it was (`Load`);
at the start of the server it stays empty (`Init`).
Chunk identifiers are random GUIDs, hence numbers in any order; the load reads
them in descending order.

### CrawlControl and OneCrawler

All on one event loop: a step is what runs between two `await`s. A request is
`RequestRun` (reads `is_running`), `Lookup` (the job is read, the task
created); the scheduler `Check`, `Trigger`; a crawl task `Begin` (sets
`is_running`, clears `stop_requested`), `Claim` (status "running"), `Visit` once
per URL, `End` (finally: `is_running` false), `Close` (status "idle", next run).
A caller that created a task cannot act before the task has started (the loop
runs tasks in order), which is `launched`.

`OneCrawler` is what the callers are promised. The refinement maps the crawl
that may still visit a URL to `current` and `urls`, `stop_requested` to the
phase `stopping`, and the crawl's bookkeeping before and after to `idle`.

### CrawlDelta

The content of a URL is a version number; a hash is the version it was computed
from. A fetcher is the crawl or a single-URL request; its `pc` is the next
commit: `evaluate` (change detection, commits the new hash), then for a page
`page`, `commit`, `upsert`, for a document `pipeline` (`should_process`: unchanged,
claimed by another fetcher, a copy of another download, or claimed), `extract`
(the file is read and its chunks committed with the row "done"), `embed`,
`points`, and `record` (the entry, and the end of the file). `row` is the ingestion
manifest's row of a download; two downloads with one version are the same file, of
which the second one is a duplicate (`Twin`). The commit of the chunks and that of
the row are one step here, and so is the record of "processing": `Ingestion` has
their interleavings. A fetcher of a URL that another one is ingesting finds
"processing", is told "skipped", and its clean-up removes the file under the
first (`ingest_bridge.py:59`), whose extraction then fails. `FailPipeline` are the
failures: a refused statement, an extraction or commit before "done", embedder or
Qdrant after it.
`purged` counts the purges whose deletions are committed, so that a session that
read its entry before one writes nothing after it (`HasEntry`).
The purge is four steps because the code is four transactions: documents read,
vectors deleted, rows deleted, files deleted. All content of this module is
scraped, so a purge deletes all vectors, but those that Qdrant refuses to delete
(the code passes over it).

### SemanticCache

The state of `cache.py` and what each method does to it; `Answers` has the
callers. `memory` is the exact tier of the process in the order of use, `redis`
what Redis holds, `vectors` the semantic tier. `link` is `_init_attempted` and
`redis_client` together: `new`, `dialling` while the first caller awaits the
answer (the others find no client and use the memory), then `up` or `none`.
`Clear` empties the process at once and, with a connection, spawns a task
(`flushing`) of which nobody looks at the exception. `clears` and each entry's
`stored` say in which period between two clears it was stored; `missed` records
that a clear has not reached Redis. An entry that is too old is not `fresh`.

### Conversations

A task is a recording, a rating, a deletion or a purge: `new`, `write` (it has
read its rows and holds SQLite's lock, `writer`), `end`. The commit writes the
columns that have changed, with the values computed from the row that was read
(`seen`); a row with another key, or a second one with the same session, raises
and the task ends without effect (`Swallow` is any other such end). A message is
a question with its answer, hence two in `count`.

A cycle is `baseline` (its rules are being scored), then `candidate`, then
`Decide` keeps or drops the new rule by writing a whole list. `file` is
`system_prompt_rules.json`, empty when it is missing or torn by a crash, in which
case the defaults are `Active`. `scored` is a history of the lists that have
scored no worse than what they were made from.

### TieredContext

`proc` are the debounced task and the requests: `sleep` (the three seconds),
`lock` (waits for the synchronisation's lock), `write` (has read the documents),
and for readers of the tree `look`, `again` (after a synchronisation) and
`build`. A tree is stamped with the time at which its request began, which is
what the code does and what *TreeIsRecent* rests on. `owed` are the documents
that this process has ingested and that no synchronisation has failed: those
for which the trigger has promised something.

### Answers

A request is `look` (exact tier), `dial` (it is the one that connects to Redis),
`match` (semantic tier), `retrieve`, `rank`, `ranking`, `generate`, `queued`,
`generating`, `store`, `append` (the vector, after Redis has answered), `reply`,
`end`. `queue` is `gpu_async_lock` with its waiters in order; `worker` is the
generation thread of each request and `device` the holder of `gpu_lock`, which
the reranker takes as well. `TimeOut` lets a stream go on without its thread,
which keeps the device; `Abandon` is the client that leaves. `Judged` is the
gate: with evidence a grounded answer, without it a refusal or, for a question
that is not about the institution, an answer of the model alone. `Overview` is
the answer from the tiers: it cites the document of one of the tiers it finds, or
none, and it does not find them by the request's scope: a course by a *part* of
its name, a department by the beginning of its URI, and all tiers where these find
none (`Near`, `Overviewed`). Reading the tiers and finding the document of the one
that is cited are one step.
The deletion is points, then rows with their tiers and the clear; `Upload` and
`Uploaded` are an ingestion, `here` when it runs in this process.

### AdminAccounts

A request is authenticated (`get_current_user` in a session of its own), then
`lookup` (its target, and the checks of its handler), `count` when it could take
a superadmin away, `write` (the commit) or `verify` (a login, whose password is
checked in a thread). On SQLite `lock` is taken with the first statement and
released at the end; an engine made by a cutover has no listener that would take
it, which is `immediate`. `guarded` is a history: every process so far has locked
the source like that. A row has a key, so that a commit finds out that its target
was deleted and made again.

### Migration

A server is the database, Qdrant and Redis of one `.env`. The job is `bootstrap`,
`count`, `tables` and `fill` per table, `scroll` per batch of points, `audit` per
table; `kept` is what the source has held ever since the job began and `clean`
that nothing was written since. A job may name any server of `Targets`, the one in
use too: after a cutover to it nothing in the code is against it, and then
`BeginTable` empties the table that it goes on to read. A target is never the
first server: the URL of a target is always one of PostgreSQL
(`build_target_db_url`), so that a SQLite source cannot be one. The Qdrant client is synchronous, so that no
request moves during the scroll (`Blocked`). `bound` is `.env`, `.env.rollback`,
the settings, Qdrant's client, the server the keyword index was read from, and
the client of Redis with the connections being made. A cutover or rollback is
`Rewrite` (`.env` and settings), `dispose` (awaits the old engine, then the new
one and Qdrant), `redis` (awaits the close of the old client, then reads the
keyword index). `Named` are the settings that the source's `.env` has a line for and
`HasEnv` whether there is one: only then is it saved (`Saved`), and a setting that
the saved file does not name stays that of the target after a rollback
(`Restored`). `Raise` is a hot reload that raises: the old engine cannot be closed,
or, `late`, the new one is bound already, the old Qdrant client closed and no new
one made; a job that meets the closed client fails (`ScrollClosed`). `live` is the server of the engine; `worker` that of the Celery
worker. `Patient` is an operator who uses the buttons of the user interface,
which wait for a full parity and for the end of a switch.

## 3. Runs

Every run is a `.cfg` of the same name; deadlock is not checked because each
bounded instance stops when its calls, changes and failures are used up (in the
code nothing is left to do then, either).

| run | instance | shows |
|---|---|---|
| `ingestion_lock` | SQLite, a Celery worker and an API pipeline, two paths, two contents, one edit each, one retry, one administration call, one failure (an extraction or the commit of a document, an exception that leaves the pipeline, a killed process; none between the document's commit and "done") | types; *DoneIsCurrent*: a row "done" with the file's mtime has the file's content stored; *SingleOwner*: the status "processing" is a lock between processes; *OneDocumentPerVersion*: whatever is retried, redelivered, cleared |
| `ingestion_live` | one worker, failures inside the try block, scans that go on | *ProcessingIsOwned*; *EventuallySettled*: each file ends "done" or a copy, for the content it has |
| `ingestion_admin` | PostgreSQL, two calls of forced API ingestion, deletion, refetch, audit and dismissal under an unforced Celery task, with one failure: a killed process, a Qdrant that refuses a deletion, an unreadable file | *IndexedIsEmbedded*: a stored document with points in Qdrant has its `embedding_ref`, so the repair script never writes them twice |
| `ingestion_retry` | one worker, one exception after "done" | **violated**: *DoneIsIndexed*, see 6 |
| `bm25_add` | three threads: searches, additions, first load, rows that come and go | types; *SearchIsSound*, *NoSearchError*, *CorpusComplete* |
| `bm25_live` | two threads, every call: streams, purges, reloads too | *Aligned*: between two rebuilds the model is that of a beginning of the corpus; *CallsEnd*: nobody waits for the lock for ever |
| `crawl_scheduled` | two jobs, scheduler and stop requests, every failure | *ImplementsOneCrawler* (refinement of `OneCrawler`) |
| `crawl_requests` | one job, two requests beside the scheduler, exceptions in the crawl | types; *BusyHasCrawl*, *RunningHasCrawl*: the two flags that keep crawls away are taken back, even when crawls overlap; *ScheduledRuns*: a due job runs |
| `delta_crawl` | two pages that link in a cycle and to a document each, two versions (so that the documents may be the same file), three changes, a network error, a stop | types; *EntryIsStored*, *PageHasOneText*; *RecrawlSettles*: crawls catch up with a web that stops changing |
| `delta_requests` | PostgreSQL, a page and a document, a crawl beside two calls (single-URL request, sweep, purge, stop) and one failure of any kind | *TextIsIndexed*, *EntryHasDocument* |
| `migration` | SQLite source, an empty target or one with leftovers, two superadmins who remove each other, jobs to it (to the server in use too) with cancellation and a failing step, cutover, rollback, hot reloads that raise early or late, restart, writers in both processes; an `.env` that names database, Qdrant and Redis | types; *SuperadminRemains*; *OldRowsCopied*: what was there and stayed is on the target, if that is another server; *ParityIsEquality*: full parity is equality, not equal size; *OneServer*: between switches the process uses the server of `.env`, as far as that names its parts; *NewServerHasSuperadmin*: no switch locks everybody out, unless a hot reload has raised; *MigrationEnds* |
| `answers` | two requests of three kinds, two alike questions in two departments, a deletion, outages of Redis, a restart; two sessions with recordings, ratings and deletions; two cycles and a reset; two readers of the tree and two ingestions | types; *ScopeIsolated*: an answer other than an overview cites documents of the request's scope only, from wherever it comes; *ClearedIsGone*; *TotalsMatch*; *ActiveWasScored*; *TiersFollow*; *TreeIsRecent*; *RequestsEnd*: no request, task or synchronisation waits for ever |

### Bounds

* Two paths with two contents give every relation between two files (same,
  different, copy, edited copy); a third path adds no new comparison because
  `should_process` compares a row with a hash. One worker per kind gives every
  pair of pipelines; the theorems say it for any number.
* `MaxMtime = 1` lets a file change once after it was seen, which is what a
  stale read needs; `MaxRetries = 1` instead of 3 gives one retry of
  everything.
* Two or three chunks make every order of the identifiers in the corpus and in
  the listing; `MaxChunks` (300000 in the code) is above what the instance
  can hold in the passing runs, and 2 in the disagreement below.
* Two slots for crawls are enough for the overlap of two; two URLs for a stop in
  the middle of a crawl.
* Two versions and three changes let a URL change, change back and change
  again, and two documents be one file; two pages let a link be found later than
  its target changed.
* Two superadmins are the case of the guarantee: the last but one is removed.
  Two documents, of which the target may hold one that the source no longer
  has, are enough for a table of the same size and another content.
* `migration` and `answers` start each counter (calls, jobs, switches, writes,
  faults; questions, clears, tasks, edits, cycles, visits) so far from its bound
  as one of a few *budgets* says (`MCMigration`, `MCAnswers`). All of them
  together would be out of TLC's reach; the budgets combine what shares state.
  In `migration`: two administrators alone; one with a fault; one beside a whole
  migration and its switch; two writes and a fault beside one; a second job, a
  cutover and a rollback with one write and one fault. In `answers`: two
  requests beside each other; a request beside a deletion and a fault; two
  recordings with two edits of their sessions; a recording and a restart beside
  three cycles and resets; a deletion beside two visits of the context; a fault
  beside two.
* `MemoryMax = VectorMax = 1`: two answers fill each tier. Both questions are in
  one class, so that every lookup by similarity finds the other's answer.
  `TTL = MaxClock = 1`: a tree is young or too old.
* Counters (`ops`, `calls`, `updates`, `faults`, ...) bound the environment;
  nothing a property is about reads them, except *TextIsIndexed*, whose
  hypothesis is that nothing has failed.

### Fairness

* `Ingestion!FairSpec`: strong fairness of each pipeline's step, because a step
  that waits for SQLite's lock is enabled and disabled again while others hold
  it, and `busy_timeout` makes it try until it gets it; strong fairness of taking
  a path's messages, since the broker delivers each to some free worker.
  `RescanSpec` adds that somebody keeps asking for scans: the code has no timer
  for it, the manual tells administrators to do it, and without it the property
  fails (see *EventsSuffice* below).
* `Bm25Index!FairSpec`: a thread that can go on does. Weak fairness is enough:
  the calls are finite, so a lock stays free in the end.
* `CrawlControl!FairSpec`: the event loop runs each ready task; the scheduler
  wakes up every minute.
* `CrawlDelta!FairSpec`: the scheduler starts the job again and again, a crawl
  goes on. Nothing is assumed of web server, users, failures.
* `Migration!FairSpec`: the event loop runs the job and the requests that are
  under way. Nobody has to cancel, switch or write.
* `Answers!Fairness`: while some request, task, ingestion or synchronisation can
  go on the event loop runs one of them, and the machine one of the threads.
  That is weaker than fairness of each; it is enough because there are finitely
  many. No outage has to end, no client to leave or to stay.

## 4. Theorems

All are checked by TLAPS and hold for any sets and bounds of their module. An
assumption in a table is a hypothesis of the theorem, stated in the module: it
marks where the promise of the code ends. Each was dropped in turn, on the run of
its module with the constants changed, and TLC found the property violated (the
list is at the end of this section, the executions that contradict a promise in
section 6). Each inductive invariant was checked by TLC on the
run of its module before it was proved. The assumptions on constants
(`ConstantsOK`, `CacheConstants`, `ConversationConstants`, ...) say that the sets
are finite where the code lists them, that there is a question, a
session and a rule the optimiser proposes that is safe, and that bounds are
numbers.

`IngestionProofs`:

| theorem | assumption | statement |
|---|---|---|
| `TypeCorrect` | none | `Spec => []TypeOK` |
| `DoneIsTrue` | `NothingDeleted` (no call "delete" or "refetch") and `Serialised` (SQLite) | `Spec => []DoneIsCurrent`, with every failure, forced ingestion, audit and dismissal |
| `OneOwner` | `Locked` (SQLite; no forced ingestion, deletion, refetch, audit or dismissal) | `Spec => []SingleOwner` |
| `OneDocument` | `Locked` and `NoLateFailure` (nothing raises between the commit of a document and its "done" row: the last `record_entry`, and in a stream the embedder and Qdrant) | `Spec => []OneDocumentPerVersion` |
| `IndexFollowsCommit` | none | `Spec => []IndexedIsEmbedded`, with deletions under a pipeline, on both databases |
| `ProcessingHasOwner` | `NothingDies` (no exception leaves a pipeline, no process is killed) | `Spec => []ProcessingIsOwned` |

None of the invariants is inductive alone. *DoneIsCurrent* needs to know what a
pipeline will write: `CurrentInv` adds that a text extracted for the current
version is the current text (`SavePending`) and that between the commit and
"done" the document is there (`ClosePending`), which rests on modification
times never being ahead of the file (`ClaimInPast`, `RowInPast`), and on each
`record_entry` writing what it means to: without SQLite's lock it completes the
row of whoever committed since it read. *SingleOwner*
needs that the row read by a claimer cannot change before it claims
(`SeenIsRow`, from `OneTransaction`) and that an owner has its claim in the row
(`OwnerHasRow`): `OwnerInv`. *OneDocumentPerVersion* needs both that a
pipeline before its commit claims a version newer than every document of the
path (`NewVersion`) and that the row remembers the newest one (`VersionInRow`):
`VersionInv`. *IndexedIsEmbedded* survives a deletion under a running pipeline
because identifiers are not given twice (`IdsInPast`, `IdsDiffer`): a pipeline
that upserts points of a document which is gone makes none of them a stored
document's. `IndexInv` adds that before an upsert the references are committed
(`UpsertPending`), and that a deletion under way deletes documents which are
still there (`GoneInv`). *ProcessingIsOwned* is not inductive with PostgreSQL: a
pipeline that read the row before another one claimed it does not write a status
that it has found already. `ProcessingInv` says that one of the owners has not
read an older row (`Fresh`): when it ends, it finds that it has to change the
status.
Each is preserved action by action; the invariants are in a module of their own,
so that TLC can check them.

`Bm25Proofs`:

| theorem | assumption | statement |
|---|---|---|
| `TypeCorrect` | none | `Spec => []TypeOK` |
| `ScoresAligned` | the corpus stays below its limit | `Spec /\ []BelowLimit => []Aligned`, with additions, streams, purges, reloads and loads of any number of threads |
| `ScoresFitChunks` | `OnlyAdds` (no stream, purge, reload); below the limit | `Spec /\ []BelowLimit => []SearchIsSound` |
| `SearchesReturn` | the same | `Spec /\ []BelowLimit => []NoSearchError` |
| `NoChunkIsLost` | `NoCopies` (no stream, purge); below the limit | `Spec /\ []BelowLimit => []CorpusComplete`, with reloads |

*TypeOK* needs `Working`: who adds holds a chunk of the database. *Aligned* is
vacuous while a model is being built, so it needs to know that the model about
to appear fits: `Mutex` (one thread in `build_index`), `Building` (its list
begins the corpus, whatever is appended meanwhile without the lock) and
`LiveBuilds` (only a rebuild that has not copied its list shares it with the
index, so that no list changes under `build_index`). The searches need
`FirstModel`: without rebuilds a model is only built where there was none, so a
search that has scores has those of the model that is still there.
*CorpusComplete* needs `CompleteInv`: the list a load has read has every chunk
that was handed over (`LoadsAll`), which stays true until the list is installed
because additions wait for the lock that the load holds. That the list is not
cut off is `ListingComplete`: a descending list of as many chunks as there are
has them all. A stream or a purge rebuilds from a list that it copied without
the lock, and TLC finds the chunk it loses. `Effects` says once what each action
does to the threads; the preservation proofs rest on it.

`CrawlProofs`:

| theorem | assumption | statement |
|---|---|---|
| `TypeCorrect` | none | `Spec => []TypeOK` |
| `BusyCrawls` | `NoDatabaseFault` (no refused statement before the try block) | `Spec => []BusyHasCrawl`, with crashes, exceptions and overlapping crawls |
| `RunningCrawls` | `NoDatabaseFault`, `NoCrash` | `Spec => []RunningHasCrawl` |
| `OneCrawlAtATime` | `OnlyScheduler` (no user's requests) | `Spec => ImplementsOneCrawler`, with every failure, stop requests and restarts |

The first three are inductive with the types. The refinement is proved step by
step (`StepSimulation`) under `OneInv`: at most one crawl is between its launch
and the end of its loop, it holds `is_running` from its first step, and when the
scheduler has seen an idle crawler nothing has started since. With requests
beside the scheduler `OneInv` is what fails (*OneCrawl* in section 6).

`CrawlDeltaProofs`:

| theorem | assumption | statement |
|---|---|---|
| `TypeCorrect` | none | `Spec => []TypeOK` |
| `EntriesHaveDocuments` | none | `Spec => []EntryHasDocument`, with any purges, sweeps, crashes and any number of fetchers on one URL |
| `TextsAreIndexed` | none | `Spec => []TextIsIndexed` |
| `PagesAreReplaced` | `Alone` (no single-URL request, no purge) | `Spec => []PageHasOneText`, with every failure and sweeps |
| `SeenIsStored` | `Steady`: `Alone`, no sweep, nothing but requests of the crawler fails, ingestion is on | `Spec => []EntryIsStored` |

A purge may delete the document of an ingestion between its steps. `DeltaInv`
therefore says of each fetcher what it knows: the number of purges it has read
tells whether its entry is still there, and if it is, so is the document it has
stored (`JobOK`). `IndexInv` adds, until something fails or is purged, that a
text has its vectors or is the one whose fetcher is about to store them
(`Pending`: at `upsert`, `embed` or `points`), and that a purge which has not deleted any row has not disturbed a
text yet. For a crawl that is alone, `PageInv` says that the texts of a page
belong to the document of its entry (`TextOfEntry`) and that the transaction
which stores the new one deletes all there are (`PageJob`). `StoredInv` adds who
is responsible for a hash that is committed and not stored yet (`Seen`:
the fetcher at work on the URL, or the page was too short to be stored), that a
document belongs to one URL, so that no ingestion deletes the text of another
(`Owned`), that what is downloaded is what was hashed (`JobSees`), and of the
ingestion manifest that a row which is not being worked on tells the truth
(`RowStored`): what it has as done, or as the copy of something done, is stored.
*Stored* takes the text of another download with the same content (`Alike`), which
is all that a duplicate gets.

`AdminProofs`:

| theorem | assumption | statement |
|---|---|---|
| `AccountsTyped` | none | `AccountSpec => []AccountTypeOK`, on both databases |
| `SuperadminStays` | none (the property says `guarded`) | `AccountSpec => []SuperadminRemains` |

`AccountInv` is what makes the count and the commit one step on SQLite: a
request past its first statement holds the lock (`Holds`), so that the row it has
read is still the row (`SeenIsRow`) and the count it has made still holds
(`Counted`: there is an active superadmin besides its target). A deletion or a
demotion then leaves that one.

`MigrationProofs`:

| theorem | assumption | statement |
|---|---|---|
| `TypeCorrect` | none | `Spec => []TypeOK` |
| `SuperadminSurvives` | none (the property says `guarded`) | `Spec => []SuperadminRemains`, under jobs, switches, restarts |
| `OneServerBound` | `Calm`: `Patient`, and no fault "qdrant" or "dial" | `Spec => []OneServer`, for any `.env` of the source or none, with failing and killed jobs, failing switches, restarts; the property speaks of the parts that `.env` names |
| `CompletedIsCopied` | `Patient` | `Spec => []OldRowsCopied`, for jobs to another server than the one in use, with every failure, leftovers on the target, repeated jobs |
| `ReportIsRight` | `Patient`, no fault "qdrant", an `.env` that names Qdrant | `Spec => []ParityIsEquality`, with hot reloads that raise |
| `NewServerIsManned` | `Patient`, `OneTarget` (one target server) | `Spec => NewServerHasSuperadmin` (an action property), with jobs to the server in use too |

`MigrationInv` is `AccountInv` with the types of the rest: the copy only writes
accounts of the target and takes the lock as one more holder, so that what
`AdminProofs` says of a request is still true beside it. *OneServer* speaks of the
moments between switches; `ServerInv` says what a switch under way has done
already: `.env` and the settings it names agree, and with them the connections
being made (`Configured`); there is one switch (`OneSwitch`), it goes where the settings say,
and before its last step engine and Qdrant are there (`Following`); when there is
none, everything is (`Followed`).

`WholeInv` says that a patient operator does not switch under a job (`Stays`), and
that a job to another server (`Apart`) has copied what its step says (`Copied`;
with it `CopyInv`): what is kept is still at the source (`Stored`), the
tables before the current one are copied (`TablesCopied`), the one on its way was
read as a whole (`RowsRead`), and of the points those below the offset are on the
target (`PointsRead`). Of a job to the server in use nothing of the kind is true,
and *ParityIsEquality* compares that server with itself. `ParityInv` adds, of the
other jobs and as long as nothing is written, that what is kept is all there is (`Whole`), and with it that a copied table is the *same*
(`SameTables`): the copy empties the target's table first, and of a table that was
skipped because the source's is empty the counts tell. The comparison
of the points counts those of the Qdrant client, which is why a client that is
not the server's is excluded (`SameStore`: fault "qdrant", and a rollback to an
`.env` that does not name Qdrant). A client that a late exception has left closed
is not (`OneStore`): a job that finds it so ends before it reports (`Doomed`).
`BindingInv` says of the
time in which the process is on its first database (`AtHome`) that what a job has
copied of the accounts has a superadmin, and so has the server that `.env` names
while a switch is under way. The invariant is about the database that the process
started on, the only one whose requests are locked, hence `OneTarget`: with
one target it is the one that is copied, or the process has left it, which a job
from the target to itself presupposes (`Around`).

`AnswerProofs`:

| theorem | assumption | statement |
|---|---|---|
| `AnswersAreTyped` | none | `Spec => []TypeOK`, the bounds of the lists included |
| `ScopesStayIsolated` | none | `Spec => []ScopeIsolated` (answers other than overviews), with outages of Redis, clears, deletions, restarts |
| `ClearsAreComplete` | none | `Spec => []ClearedIsGone`, the same |
| `TotalsStayRight` | `Sqlite` | `Spec => []TotalsMatch`, for any recordings, ratings, deletions, purges and restarts |
| `ScoredRules` | none | `Spec => []ActiveWasScored`, for any cycles, resets, crashes |
| `TreeStaysRecent` | none | `Spec => []TreeIsRecent`, for any readers, synchronisations, deletions |
| `DocumentsGetTiers` | `Apart`: one writer at a time; no two documents share a URI | `Spec => []TiersFollow` |

`Answers` is large and each of these is about parts of it, so the proofs first
say, action by action, that a step of `Next` is one of a few moves of the part
and leaves the part alone otherwise (`RuleMove`, `ContextMove`, `ChatStep`).
*ScopeIsolated* and *ClearedIsGone* rest on the lists of the cache: each entry is
within the scope of its key and was stored since the last clear (`CacheInv`, a
type of the entries), which the eviction, the expiry and the move to the end keep
because they pick elements of the list (`PickedElements`). *TotalsMatch* is a
sum over the messages of a session: `LockInv` says that the row a task has read is
the row until it writes (`Holds`: SQLite's lock), that a message has one number
and belongs to a task that has ended, and that the row tallies (`Tally`); the
lemmas on `SumVotes` say what a message more, a message less or another rating
does to the sum. `RuleInv`: the rules on file, and those a cycle works on, are
scored, and a candidate is safe, so that the filter of `save_rules` writes back
exactly the list that was scored. `TreeInv`: a request that has read the tiers
misses only those stored since it began (`Truthful`), whoever invalidates the
cache meanwhile. `FollowInv`: what a synchronisation has read is what the
database holds until it commits (`Current`), and a tier goes only with its own
document.

`DataLemmas` has what the proofs about data rest on. The induction theorems of
the library take an operator as a parameter, which the provers cannot
instantiate; `SetInduction` is derived from the well-foundedness of the numbers
and takes the *set* of the numbers of which a fact holds. With it: a function
defined by recursion over a list exists (`PicksExist`) and picks exactly the
elements at the given positions (`PickedElements`); a sum over a finite set does
not depend on the order in which it is made (`SumsSwap`, `SumsAgree`), so that it
is the sum of the rest and of any one element (`VotesAdd`). For this the filters
of the models are written as `Picked` of positions and not with `SelectSeq`.

What TLC finds when a hypothesis is dropped:

| hypothesis | without it, in the run's module | property violated |
|---|---|---|
| `NothingDeleted` | an administrator's "delete" or "refetch" | *DoneIsCurrent* |
| `Serialised` | PostgreSQL, a forced ingestion beside a task | *DoneIsCurrent* |
| `Locked` | two pipelines on PostgreSQL; a forced ingestion, deletion, refetch, audit or dismissal beside a pipeline | *SingleOwner*, *OneDocumentPerVersion* |
| `NoLateFailure` | fault "record" | *OneDocumentPerVersion* |
| `NothingDies` | fault "raise" or "crash" | *ProcessingIsOwned* |
| the corpus below its limit | `MaxChunks = 2` | *Aligned*, *SearchIsSound*, *CorpusComplete* |
| `OnlyAdds` | a reload, stream or purge beside the searches | *SearchIsSound*, *NoSearchError* |
| `NoCopies` | a stream or purge beside an addition | *CorpusComplete* |
| `NoDatabaseFault`, `NoCrash` | fault "database", "crash" | *BusyHasCrawl*, *RunningHasCrawl* |
| `OnlyScheduler` | one user | *ImplementsOneCrawler* |
| `Alone` | a single-URL request or a purge, without any fault | *PageHasOneText* |
| `Steady` | a sweep, a purge, a fault other than a request's, ingestion switched off | *EntryIsStored* |
| a job to another server | two jobs, the second one to the server that the first was cut over to | *OldRowsCopied* without `job.target # job.source` |
| an `.env` that names Qdrant | `Named = {"database", "redis"}` | *ParityIsEquality*; *OneServer* without `"vectors" \in NamedBy(live)` |
| `Patient` | a cutover to a target whose job has not ended | *OldRowsCopied*, *ParityIsEquality*, *OneServer*, *NewServerHasSuperadmin* |
| no fault "qdrant", "dial" | that fault | *OneServer*, and with "qdrant" *ParityIsEquality* |
| `OneTarget` | two targets, one after the other | *NewServerHasSuperadmin* |
| `Sqlite` | PostgreSQL | *TotalsMatch* |
| `Apart` | two writers; two documents of one URI | *TiersFollow* |

Only model-checked: the liveness properties *EventuallySettled*, *CallsEnd*,
*ScheduledRuns*, *RecrawlSettles*, *RequestsEnd* and *MigrationEnds*. Their proofs
would need to reason about when a fair action is enabled, which this version of
TLAPS does not support.

## 5. Abstractions

* Text, chunking, tokens, scores, formats and logging are left out: a text is
  the version it was extracted from, a model the list it was built from.
* SHA-256 is the content (no collisions); embeddings always fit their chunk.
* Modification times differ between versions. Two edits within the clock's
  resolution are outside of the model; the code cannot see them either.
* The file is read twice by the code (hash, extraction) and twice in the model,
  so an edit in between is modelled; a read itself is atomic.
* Random identifiers never repeat, those of manifest rows included: a row that is
  deleted and made again is not taken for the old one by whoever read that.
* The tags that a caller of the Celery task may give, which it commits before the
  embedding, are left out. Calls of the governance API that take more than one
  step do not overlap each other.
* Crawl of a page: the commit of a download's chunks and the rows of its ingestion
  manifest are one step (module `Ingestion` has them one by one); the lock that
  SQLite holds while a download's chunks are embedded is left out.
* PostgreSQL is read committed with one row per statement; what the code writes
  in one commit is one step.
* Deleting a crawl job, which cascades to its manifest entries, is in
  `CrawlControl` and not in `CrawlDelta`.
* The order in which the scheduler meets several due jobs is not defined by the
  query; `Trigger` takes any.
* Answers: an answer is the set of documents it cites, a question its class of
  similar questions. What the rate limiter or the content guard refuses changes
  nothing modelled. Whether a text greets, asks for an overview, is about the
  institution or declines is a choice. The second retrieval of CRAG, with
  rewritten sub-queries, is left out: it has the scope of the first. The model
  is local (no hosted fallback) and the embedder on the CPU, as configured by
  default. A client that leaves is one step. One deletion runs at a time.
  Documents keep their department, course and title.
* Conversations: titles, texts and times are left out; of audit and security
  rows there is nothing a property is about.
* Tiered context: the texts of the tiers, the counts of folders and the vectors
  of the search over tiers are left out, and so are reads for one department.
  The commit of a synchronisation, the invalidation and the end of the request
  are one step. On SQLite a read takes the write lock, too (`MayBeginContext`).
  The tasks of conversations and the synchronisation touch different tables and
  have a lock each in the model. The loop of a Celery task ends before the three
  seconds of the debounce, so that a worker's trigger has no effect (`here`).
* Accounts: names, addresses and the strength of a password are a nondeterministic
  refusal (`Reject`); a password is the number of the call that set it.
* Migration: a server is a database, a Qdrant and a Redis, the one that an `.env`
  names or that the defaults give; a source that runs on Qdrant's local storage
  counts as such a server. Of the tables there are the
  accounts, which are copied first, and the documents; the vectors of a document
  are one point. The copy of Redis and of the object store is their setting. A
  crash in the middle of rewriting `.env` is not modelled. A source on PostgreSQL
  could be named as a target of its own process; the model keeps the first server
  out of the targets and has that case for every other server.

## 6. Where the code and its documentation disagree

One run shows a disagreement, a finding of `PROJECT.json`: `ingestion_retry`,
*DoneIsIndexed*. The manifest row becomes "done" before the chunks are embedded
and indexed. If the embedder or Qdrant raises, Celery retries the task as
configured, `should_process` finds the file unchanged, the retry returns
"skipped" and the document is never searchable.

Further disagreements are stated as properties, most of them under "What the
documentation promises" of their module, and are not runs of the project; TLC
finds each within minutes when it replaces the properties of the configuration
named, with the constants changed as given:

| property | configuration, changes | what the code does | what is promised |
|---|---|---|---|
| ProcessingIsOwned | IngestionLive, `Faults = {"crash"}` or `{"raise"}` | nothing takes back "processing" of a dead pipeline; every later scan passes the file over | `USER_MANUAL.md:458`, `manifest.py:46` |
| DoneIsCurrent | IngestionAdmin, `AdminOps = {"force"}`, `Faults = {}` | on PostgreSQL two `record_entry` of one path that cross write the columns each has found changed: the row says "done" with the newer modification time and the older text | `manifest.py:116` "Upsert a manifest entry for change detection" |
| EventuallySettled | IngestionLive, `AdminOps = {"audit"}` | an audit makes every row whose file has the recorded hash "indexed", also a failed one or one that is being processed: no scan hashes the file again, and a copy of it is not found to be one | `documents.py:301` "verifies SHA-256 integrity" |
| EditedIsReplaced | IngestionRetry, `Faults = {}` | the document of the former version stays in the corpus | `README.md:92` "updates edited documents" |
| DuplicateIsIndexed | IngestionLock, `Faults = {}` | a file is a duplicate of a row whose document is older, gone or not indexed | `pipeline.py:45` |
| NoOrphanVectors | IngestionAdmin | a deletion between commit and upsert leaves points in Qdrant | `admin_governance.py:535` |
| DoneHasDocument | IngestionAdmin | a deletion before `finish`: the row says "done", a scan does not bring the file back | `admin_governance.py:536` |
| EventsSuffice | IngestionLive with `FairSpec` | an event on a file under processing is skipped and not repeated | `docs/README.md:7` |
| SearchIsSound, Aligned | Bm25Add, Bm25Live, `MaxChunks = 2` | at the limit the corpus loses its head and the model does not: every score is read for another chunk | `bm25_index.py:136,149` |
| NoSearchError | Bm25Add with call "reload" | a reload empties model and corpus under a search; the exception becomes an empty result | `README.md:675` |
| CourseStays | Bm25Live | the purge rebuilds from a copy taken before a course chunk was added | `routers/scraper.py:510-512` |
| IndexedIsFound | Bm25Add | `add_chunks` does not rebuild the model: the chunk has no score until the next rebuild | `USER_MANUAL.md:952` |
| FoundIsStored | Bm25Live | deletions do not touch the index | `admin_governance.py:610` |
| ReloadIsComplete | Bm25Live, `Calls = {"stream", "reload"}` | a rebuild between the reset of a reload and its load leaves the index "loaded" with the rebuild's chunk only | `bm25_index.py:47` |
| OneCrawl | CrawlRequests | `is_running` is read before an `await` and set when the new task first runs: a request and the scheduler both pass the test | `scraper.py:187` "Crawler is already busy", `scheduler.py:74` "Run one job at a time" |
| StopHolds | CrawlRequests with `SPECIFICATION Spec` | a crawl that starts clears the stop given to another one | `USER_MANUAL.md:926`, `crawler.py:69` |
| BusyHasCrawl | CrawlRequests, `Faults = {"database"}` | a locked database before the try block ends the task with `is_running` set: 409 until the server restarts | `scraper.py:187`, `crawler.py:97` |
| ScheduledRuns | CrawlRequests, `Faults = {"crash"}` | the status "running" survives the restart; the scheduler passes the job over | `USER_MANUAL.md:993`, `scheduler.py:58` |
| EntryIsStored | CrawlDeltaCrawl, `Faults = {"embed"}` or `{"crash"}`; or one single-URL request; or call "sweep"; or `AutoIngest = {TRUE, FALSE}` | the new hash is committed before the content is ingested; what then fails, is overtaken or swept away is "unchanged" for ever | `README.md:89` |
| RowIsStored | CrawlDeltaRequests | the purge of the scraped data deletes the crawl manifest and leaves the ingestion manifest's rows of the downloads: the next crawl is told "already indexed", and they stay out of the corpus | `USER_MANUAL.md:1943` "manifest entries", `crawler.py:361` |
| PageHasOneText | CrawlDeltaRequests, `Calls = {"single"}` or `{"purge"}`, `Faults = {}`, `Short = {}` | two fetchers of one URL that both find no document make one each; a purge deletes every manifest entry but only the documents it had read before, so that the next crawl makes a second document of a page | `ingest_bridge.py:95` "Check if document already exists for this URL" |
| VectorsAreCurrent | CrawlDeltaCrawl | the vectors of a page's former chunks stay in Qdrant | `ingest_bridge.py:104` |
| RecrawlSettles | CrawlDeltaCrawl, `Validators = {p1}` | links are harvested from fetched pages only: a parent that answers 304 hides a child that changed | `README.md:89`, `crawler.py:394` |
| SuperadminRemains without `guarded` | Migration, `Sqlite = FALSE` | two superadmins who remove each other both count two: none is left | `USER_MANUAL.md:1375` "Last Superadmin Guarantee" |
| `live = Source => immediate` | Migration | the engine a rollback to SQLite makes has neither of the listeners of `session.py:15-31`: no `BEGIN IMMEDIATE`, no foreign keys, until the server is restarted | `USER_MANUAL.md:1974` "instant 1-click reversion" |
| NewServerHasSuperadmin, OldRowsCopied | Migration, `Patient = FALSE`, `Faults = {}` | only the button waits for parity (`MigrationTab.jsx:559`): the endpoint cuts over to a target whose job runs, failed or was cancelled, or that a second job names | `USER_MANUAL.md:1973` "Once parity is confirmed" |
| NewServerHasSuperadmin | Migration, two targets | the engine a cutover makes has no `BEGIN IMMEDIATE`: two requests on the first target each count two superadmins and remove one, and the second cutover binds the process to a server without one | `USER_MANUAL.md:1375` |
| NewServerHasSuperadmin without `~broken` | Migration, `Faults = {"dispose", "crash"}`, `MaxFaults = 2` | a cutover that raises while it disposes the old engine has rewritten `.env`; the next job empties the server that `.env` names, and a restart in the middle of it binds the process to a server without accounts | `USER_MANUAL.md:1375` |
| OldRowsCopied without `job.target # job.source` | Migration, `Faults = {}` | neither the endpoint nor the user interface keeps the server in use from being the target (`server_migration.py:184`, `MigrationTab.jsx`): after a cutover a second job to the same server empties each table (314) before it reads it, is completed, and reports full parity of the server with itself; accounts and documents are lost | `USER_MANUAL.md:1973` "100% Match" |
| OneServer without `"vectors" \in NamedBy(live)` | Migration, `Named = {"database", "redis"}`, `Faults = {}` | a rollback takes a setting that `.env.rollback` does not name from the settings of the process, which are the target's (942-948); the `.env` of `setup_ubuntu.sh:137`, `setup_windows.ps1:157` and `scripts/setup_environment.py:123` names no `VECTOR_STORE_HOST`: the database is back at the source and Qdrant stays at the target until a restart | `USER_MANUAL.md:1974` "instant 1-click reversion" |
| `live # Source => bound.rollback # None` | Migration, `HasEnv = FALSE`, `Faults = {}` | without an `.env` nothing is saved (801-804), and after the cutover there is nothing to roll back to | the same |
| OneServer without `~broken` | Migration | a hot reload that raises late has closed the old Qdrant client and made no new one; one that raises early leaves `.env` and settings at the target and the process at the source | `USER_MANUAL.md:1973` "atomically update" |
| OneServer | Migration, `Patient = FALSE`, `Faults = {}`, `Switchers = {k, l}` | a second switch begins while the first awaits the old engine: engine and Qdrant end on different servers | `USER_MANUAL.md:1973` "atomically update" |
| OneServer | Migration, `Faults = {"qdrant"}` | a new Qdrant that is not reached is replaced by the local storage, and the cutover reports success | `server_migration.py:876` "Hot-reloaded Qdrant client to new target cluster" |
| OneServer | Migration, `Faults = {"dial"}` | a connection to the old Redis that is answered after the cutover becomes the client | `server_migration.py:886` "connect to new target Redis" |
| ParityIsEquality | Migration, `Faults = {"qdrant"}` | a process whose Qdrant client is the local storage counts no points at the source, copies none, and reports parity with the target's empty collection | `USER_MANUAL.md:1973` "100% Match" |
| ParityIsEquality without `clean` | Migration | parity compares sizes: of what is written during the job, a row that goes and one that comes make up for each other | `USER_MANUAL.md:1973` "100% Match" |
| TotalsMatch | Answers, `Sqlite = FALSE` | two tasks of a session write totals computed from the same row | `ask.py:101` (`record_chat_interaction_bg`) |
| ScopeIsolated for overviews, too | Answers | the overview finds a course by a part of its name (`ilike`, 683-688: "CS10" finds "CS101"), a department by the beginning of its URI (611: "cs" finds "cse"), and where it finds none it looks without the department (715-716): it cites a document of another scope | `tiered_engine.py:683` "with department scoping", `tiered_engine.py:707` "department-scoped semantic_find" |
| entries of `memory` cite stored documents only, when nothing is being deleted | Answers | a request that retrieved before a deletion stores its answer after the clear | `admin_governance.py:590`, the clear after each deletion |
| TiersFollow | Answers, `OneWriter = FALSE` | a trigger during a synchronisation that has read the documents already does nothing: the document waits for the next ingestion | `pipeline.py:117` "Synchronize OpenViking tiered context for the newly ingested document (debounced)" |
| TiersFollow | Answers, `u2 = u1` | two documents of one title share a tier; the deletion of the one it names takes it from both | the same |

Seen while modelling, and not a property of any module:

* A stream caches what it has, also a partial text after a timeout or one that
  declines; only the JSON path looks. The offline text of a model that could not
  be loaded is cached for the time of an answer.
* A rating without message is given to the latest message of the session, and is
  lost when the answer is not recorded yet; two ratings of one message both
  count in the session's score.
* Redis keeps its entries when a clear finds it away, and serves them when it is
  back. Deleted documents stay in the keyword index, and in answers, until it
  is reloaded; they stay in the cached tree for up to five minutes. The tiers of
  departments and courses are never removed.
* A cycle that is rolled back writes the list it began with, over what another
  cycle accepted or a reset restored since.
* An overview's citation may be a URI instead of a document; it reads its document
  in two statements, and a deletion between them is an error 500.
* Documents of a Celery worker get their tiers with the next ingestion of the
  API's process or an administrator's synchronisation. A failed synchronisation
  is not repeated.
* A second cutover overwrites `.env.rollback`. The worker goes on writing to
  the old server until it is restarted. The cancellation looked for between
  batches of points cannot arrive, as the loop is blocked then.
* Two names are not defined where they are used: `List` in
  `api/scraper/doc_downloader.py:41` (line 4 imports `Optional` and `Tuple`), in an
  annotation that Python evaluates when it imports the module, which the crawler
  and `routers/scraper.py` do; and `urljoin` in `api/routers/scraper.py:426`, so
  that a single-URL request that meets a redirect ends with an exception. The
  models describe the code with both names imported.

## 7. Plan

Done: the survey; ingestion, keyword index, crawler; then the accounts, the
migration, the cache, the answers with conversations and rules, and the tiered
context; a theorem for every safety property of the runs. What is left, in this
order:

1. Composition of `Ingestion` and `Bm25Index`: from the row "done" to a search
   that finds it, in the two processes.
2. A restore of a backup under a running server.
3. The rate limiter with its fall-back from Redis to the process.

## 8. Not modelled

* The rate limiter: a counter per client and minute, in Redis or the process; a
  refused request changes nothing else.
* Backup and restore: planned, see 7.
* The notice scout: a process of its own that fetches pages and asks for a reload
  of the keyword index, which `Bm25Index` has.
* The visual knowledge graph: reads only.
* Extraction, OCR, chunking, tagging: functions of a file. Ranking, query
  rewriting, language models, embedding arithmetic: functions of texts.
* Authentication of students and by single sign-on, and the format of tokens.
* Settings, content guard, metrics, logs and health; user interfaces; one-shot
  scripts; the helpers of the crawler that only look at texts and robots files.

What remains of the implementation is mostly such code: text, formats, prompts,
and reports without a state of their own.

## 9. Running it

    tlc -workers 2 -config IngestionLock.cfg MCIngestion.tla
    tlc -workers 4 -config IngestionAdmin.cfg MCIngestion.tla       # about two minutes
    tlc -workers 4 -config CrawlDeltaRequests.cfg MCCrawlDelta.tla  # about two minutes
    tlc -workers 2 -config Answers.cfg MCAnswers.tla        # about two minutes
    tlc -workers 2 -config Migration.cfg MCMigration.tla    # about one minute
    tlapm IngestionProofs.tla   # likewise DataLemmas, Bm25Proofs, CrawlProofs,
                                # CrawlDeltaProofs, AdminProofs, MigrationProofs,
                                # AnswerProofs
