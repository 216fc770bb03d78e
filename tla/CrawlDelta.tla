------------------------------ MODULE CrawlDelta ------------------------------
(***************************************************************************)
(* What the crawler does with a URL: the change detection on the crawl     *)
(* manifest (delta_detector.py), the download and the ingestion of pages   *)
(* and documents (crawler.py _process_single_url, ingest_bridge.py), the   *)
(* same for one URL on request (routers/scraper.py crawl-single), the      *)
(* sweeps of the download directory and the purge of the scraped data.     *)
(*                                                                         *)
(* The content of a URL is a version number, 0 standing for none, and a    *)
(* hash is the version it was computed from: two documents of one version  *)
(* are the same file.  A text is the chunks of one version in the          *)
(* database, its vectors are those in Qdrant.  A step is what runs between *)
(* two commits or network calls; it takes place under SQLite's write lock  *)
(* or, with PostgreSQL, does not.  Which crawl runs is the subject of      *)
(* CrawlControl: here there is one.                                        *)
(***************************************************************************)
EXTENDS Naturals, FiniteSets

CONSTANTS
  Pages,       \* URLs of web pages
  Documents,   \* URLs of documents to download
  Links,       \* the URLs a page links to
  Seeds,       \* the seed URLs of the job
  Validators,  \* the URLs whose server sends ETag or Last-Modified
  Short,       \* the versions whose text is too short for a page
  Crawler,     \* the crawl
  Singles,     \* requests to crawl a single URL
  AutoIngest,  \* the values of auto_ingest in use
  Sqlite,      \* TRUE for SQLite, FALSE for PostgreSQL
  Calls,       \* the calls of the API that may happen
  Faults,      \* the kinds of failure that may happen
  MaxVersion,  \* bound on the versions of a URL
  MaxUpdates,  \* bound on the changes on the web server
  MaxCalls,    \* bound on the number of calls
  MaxFaults    \* bound on the number of failures

Urls     == Pages \cup Documents
Fetchers == {Crawler} \cup Singles
Versions == 1 .. MaxVersion

ASSUME ConstantsOK ==
  /\ Pages \cap Documents = {} /\ Seeds \subseteq Urls /\ Validators \subseteq Urls
  /\ Links \in [Pages -> SUBSET Urls]
  /\ Crawler \notin Singles
  /\ AutoIngest \subseteq BOOLEAN /\ Sqlite \in BOOLEAN
  /\ Calls \subseteq {"single", "stop", "sweep", "purge"}
  /\ Faults \subseteq {"network", "embed", "database", "crash"}
  /\ MaxVersion \in Nat \ {0} /\ Short \subseteq Versions
  /\ MaxUpdates \in Nat /\ MaxCalls \in Nat /\ MaxFaults \in Nat

VARIABLES
  server,    \* the version the web server has
  entry,     \* WebScrapeManifest
  texts,     \* the chunks in the database, by document
  docs,      \* the rows of documents
  vectors,   \* the points in Qdrant
  disk,      \* the downloaded files
  row,       \* the row of the ingestion manifest for a download
  nextDoc,   \* document identifiers are random: never one used before
  fetch,     \* the fetchers
  crawling,  \* the crawl loop is running
  todo,      \* its queue
  visited,   \* the URLs it has ever put there
  purge,     \* the purge of the scraped data
  purged,    \* the purges whose deletions are committed
  updates, calls, faults

counts == <<updates, calls, faults>>
store  == <<texts, docs, vectors, nextDoc>>
loop   == <<crawling, todo, visited>>
vars   == <<server, entry, store, disk, row, fetch, loop, purge, purged, counts>>

Statuses == {"none", "discovered", "modified", "skipped_unchanged", "skipped_empty",
             "ingested", "failed"}
Entries  == [hash : 0 .. MaxVersion, status : Statuses, doc : Nat]
NoEntry  == [hash |-> 0, status |-> "none", doc |-> 0]

Rows     == [hash : 0 .. MaxVersion,
             status : {"none", "processing", "done", "failed", "skipped_duplicate"}]
NoRow    == [hash |-> 0, status |-> "none"]

Texts    == [doc : Nat, url : Urls, version : Versions]
Text(doc, u, v) == [doc |-> doc, url |-> u, version |-> v]

(* doc: the document of the manifest entry as the session has read it, then *)
(* the one that is written; old: the chunks the transaction deletes;       *)
(* purged: which entry row it has read, a purge deletes them all.          *)
Jobs == [pc : {"evaluate", "page", "commit", "upsert",
               "pipeline", "extract", "embed", "points", "record"},
         url : Urls, version : Versions, force : BOOLEAN, auto : BOOLEAN,
         doc : Nat, old : SUBSET Texts, purged : Nat, result : Statuses]
Idle == [pc |-> "idle"]
Busy(f) == fetch[f].pc # "idle"

(* On SQLite a session holds the write lock from its first statement to    *)
(* its commit: crawl-single during its network request, both while a page  *)
(* is embedded or a download extracted.  (Also while a download is         *)
(* embedded, which is left out.)                                           *)
Holds(f) == \/ fetch[f].pc \in {"commit", "extract"}
            \/ fetch[f].pc = "evaluate" /\ f \in Singles
Free(f)  == Sqlite => \A g \in Fetchers \ {f} : ~Holds(g)

Init ==
  /\ server \in [Urls -> {1}]
  /\ entry = [u \in Urls |-> NoEntry]
  /\ texts = {} /\ docs = {} /\ vectors = {} /\ nextDoc = 1
  /\ disk = [u \in Documents |-> 0] /\ row = [u \in Documents |-> NoRow]
  /\ fetch = [f \in Fetchers |-> Idle]
  /\ crawling = FALSE /\ todo = {} /\ visited = {}
  /\ purge = [pc |-> "idle", docs |-> {}] /\ purged = 0
  /\ updates = 0 /\ calls = 0 /\ faults = 0

-----------------------------------------------------------------------------
(* Helpers.                                                                *)

Call(name)  == name \in Calls /\ calls < MaxCalls /\ calls' = calls + 1
Fault(kind) == kind \in Faults /\ faults < MaxFaults /\ faults' = faults + 1

Goto(f, pc) == fetch' = [fetch EXCEPT ![f].pc = pc]
Return(f)   == fetch' = [fetch EXCEPT ![f] = Idle]

(* The crawler puts the links of a page it has finished into its queue.    *)
Harvest(f, u) ==
  IF f = Crawler /\ u \in Pages
  THEN /\ todo' = todo \cup (Links[u] \ visited)
       /\ visited' = visited \cup Links[u]
       /\ UNCHANGED crawling
  ELSE UNCHANGED loop

Removed(u) == IF u \in Documents THEN [disk EXCEPT ![u] = 0] ELSE disk

(* A statement of this session on its entry; the row may be gone.          *)
HasEntry(f) == fetch[f].purged = purged
SetEntry(f, status, doc) ==
  entry' = IF HasEntry(f)
           THEN [entry EXCEPT ![fetch[f].url] = [@ EXCEPT !.status = status, !.doc = doc]]
           ELSE entry

-----------------------------------------------------------------------------
(* The web server.                                                         *)

Update(u) ==
  /\ updates < MaxUpdates /\ updates' = updates + 1
  /\ \E v \in Versions \ {server[u]} : server' = [server EXCEPT ![u] = v]
  /\ UNCHANGED <<entry, store, disk, row, fetch, loop, purge, purged, calls, faults>>

-----------------------------------------------------------------------------
(* The crawl loop.                                                         *)

StartCrawlRemembers ==
  /\ ~crawling
  /\ crawling' = TRUE /\ todo' = Seeds /\ visited' = visited \cup Seeds
  /\ UNCHANGED <<server, entry, store, disk, row, fetch, purge, purged, counts>>
StartCrawl ==
  /\ ~crawling
  /\ crawling' = TRUE /\ todo' = Seeds /\ visited' = Seeds
  /\ UNCHANGED <<server, entry, store, disk, row, fetch, purge, purged, counts>>

(* The end of the loop, with its sweep of the download directory.          *)
EndCrawl ==
  /\ crawling /\ todo = {} /\ ~Busy(Crawler)
  /\ crawling' = FALSE
  /\ disk' = [u \in Documents |-> 0]
  /\ UNCHANGED <<server, entry, store, row, fetch, todo, visited, purge, purged, counts>>

Stop ==
  /\ Call("stop") /\ crawling
  /\ todo' = {}
  /\ UNCHANGED <<server, entry, store, disk, row, fetch, crawling, visited, purge, purged,
                 updates, faults>>

-----------------------------------------------------------------------------
(* Fetching a URL.  The conditional headers are those of the manifest; a   *)
(* server that has sent a validator answers 304 to it.                     *)

NotModified(u, force) == u \in Validators /\ ~force /\ entry[u].hash = server[u]

Get(f, u, force, auto) ==
  /\ ~Busy(f) /\ Free(f)
  /\ IF NotModified(u, force)
     THEN UNCHANGED <<fetch, disk>>
     ELSE /\ fetch' = [fetch EXCEPT ![f] =
               [pc |-> "evaluate", url |-> u, version |-> server[u], force |-> force,
                auto |-> auto, doc |-> 0, old |-> {}, purged |-> purged, result |-> "none"]]
          /\ disk' = IF u \in Documents THEN [disk EXCEPT ![u] = server[u]] ELSE disk

CrawlNext(u) ==
  /\ crawling /\ u \in todo
  /\ \E auto \in AutoIngest : Get(Crawler, u, FALSE, auto)
  /\ todo' = todo \ {u}
  /\ UNCHANGED <<server, entry, store, row, crawling, visited, purge, purged, counts>>

CrawlSingle(f, u) ==
  /\ f \in Singles /\ Call("single")
  /\ \E auto \in AutoIngest, force \in (IF u \in Pages THEN BOOLEAN ELSE {FALSE}) :
       Get(f, u, force, auto)
  /\ UNCHANGED <<server, entry, store, row, loop, purge, purged, updates, faults>>

(* The request fails, or the server answers an error.                      *)
GetFails(u) ==
  /\ crawling /\ u \in todo /\ ~Busy(Crawler)
  /\ Fault("network")
  /\ todo' = todo \ {u}
  /\ UNCHANGED <<server, entry, store, disk, row, fetch, crawling, visited, purge, purged,
                 updates, calls>>

-----------------------------------------------------------------------------
(* evaluate_change and what the caller makes of it.  The new hash is       *)
(* committed here, before anything is ingested.                            *)

TooShort(f) == fetch[f].url \in Pages /\ fetch[f].version \in Short

Evaluate(f) ==
  /\ fetch[f].pc = "evaluate" /\ Free(f)
  /\ LET u == fetch[f].url
         v == fetch[f].version
         same == entry[u].hash = v
         ingest == /\ (~same \/ fetch[f].force) /\ fetch[f].auto
                   /\ f = Crawler => ~TooShort(f)
     IN  /\ entry' = [entry EXCEPT ![u] =
                IF same THEN [@ EXCEPT !.status = "skipped_unchanged"]
                ELSE [hash |-> v, doc |-> entry[u].doc,
                      status |-> IF entry[u].hash = 0 THEN "discovered" ELSE "modified"]]
         /\ IF ingest
            THEN /\ fetch' = [fetch EXCEPT ![f] =
                      [@ EXCEPT !.pc = IF u \in Pages THEN "page" ELSE "pipeline",
                                !.doc = entry[u].doc, !.purged = purged]]
                 /\ UNCHANGED <<disk, loop>>
            ELSE Return(f) /\ disk' = Removed(u) /\ Harvest(f, u)
  /\ UNCHANGED <<server, store, row, purge, purged, counts>>

-----------------------------------------------------------------------------
(* ingest_web_page: one transaction, then the vectors.                     *)

BeginPageAnew(f) ==
  /\ fetch[f].pc = "page" /\ Free(f)
  /\ fetch' = [fetch EXCEPT ![f] = [@ EXCEPT !.pc = "commit", !.doc = nextDoc]]
  /\ nextDoc' = nextDoc + 1
  /\ UNCHANGED <<server, entry, texts, docs, vectors, disk, row, loop, purge, purged, counts>>
BeginPage(f) ==
  /\ fetch[f].pc = "page" /\ Free(f)
  /\ IF TooShort(f)
     THEN /\ Return(f) /\ SetEntry(f, "skipped_empty", entry[fetch[f].url].doc)
          /\ UNCHANGED nextDoc
     ELSE LET known == fetch[f].doc \in docs
          IN  /\ fetch' = [fetch EXCEPT ![f] =
                   [@ EXCEPT !.pc = "commit",
                      !.doc = IF known THEN fetch[f].doc ELSE nextDoc,
                      !.old = IF known THEN {t \in texts : t.doc = fetch[f].doc} ELSE {}]]
              /\ nextDoc' = IF known THEN nextDoc ELSE nextDoc + 1
              /\ UNCHANGED entry
  /\ UNCHANGED <<server, texts, docs, vectors, disk, row, loop, purge, purged, counts>>

(* Its entry is gone: the commit fails, and so does the one of the         *)
(* exception handler.                                                      *)
CommitChunksOnly(f) ==
  /\ fetch[f].pc = "commit"
  /\ LET j == fetch[f]
     IN  /\ texts' = (texts \ j.old) \cup {Text(j.doc, j.url, j.version)}
         /\ SetEntry(f, "ingested", j.doc)
         /\ Goto(f, "upsert")
  /\ UNCHANGED <<server, docs, vectors, nextDoc, disk, row, loop, purge, purged, counts>>
CommitPage(f) ==
  /\ fetch[f].pc = "commit"
  /\ LET j == fetch[f]
     IN  IF HasEntry(f)
         THEN /\ texts' = (texts \ j.old) \cup {Text(j.doc, j.url, j.version)}
              /\ docs' = docs \cup {j.doc}
              /\ SetEntry(f, "ingested", j.doc)
              /\ Goto(f, "upsert")
         ELSE Return(f) /\ UNCHANGED <<texts, docs, entry>>
  /\ UNCHANGED <<server, vectors, nextDoc, disk, row, loop, purge, purged, counts>>

UpsertIfCurrent(f) ==
  /\ fetch[f].pc = "upsert"
  /\ vectors' = IF entry[fetch[f].url].doc = fetch[f].doc
                THEN vectors \cup {Text(fetch[f].doc, fetch[f].url, fetch[f].version)}
                ELSE vectors
  /\ Return(f) /\ Harvest(f, fetch[f].url)
  /\ UNCHANGED <<server, entry, texts, docs, nextDoc, disk, row, purge, purged, counts>>
Upsert(f) ==
  /\ fetch[f].pc = "upsert"
  /\ vectors' = vectors \cup {Text(fetch[f].doc, fetch[f].url, fetch[f].version)}
  /\ Return(f) /\ Harvest(f, fetch[f].url)
  /\ UNCHANGED <<server, entry, texts, docs, nextDoc, disk, row, purge, purged, counts>>

(* The embedder or Qdrant raises: the handler commits what the session     *)
(* holds, which is the deletion of the old chunks; without its entry that  *)
(* commit raises.                                                          *)
FailPage(f) ==
  /\ fetch[f].pc \in {"commit", "upsert"} /\ Fault("embed")
  /\ IF fetch[f].pc = "commit" /\ HasEntry(f)
     THEN texts' = texts \ fetch[f].old /\ docs' = docs \cup {fetch[f].doc}
     ELSE UNCHANGED <<texts, docs>>
  /\ SetEntry(f, "failed", fetch[f].doc)
  /\ Return(f)
  /\ IF HasEntry(f) THEN Harvest(f, fetch[f].url) ELSE UNCHANGED loop
  /\ UNCHANGED <<server, vectors, nextDoc, disk, row, purge, purged, updates, calls>>

-----------------------------------------------------------------------------
(* ingest_document_file: the ingestion pipeline of module Ingestion on the *)
(* download, then the entry and the end of the file.                       *)

(* should_process.  The content may be that of another download.           *)
Changed(u) == /\ disk[u] # 0 /\ row[u].status # "processing"
              /\ row[u].hash # disk[u] \/ row[u].status = "failed"
Twin(u) == \E d \in Documents \ {u} : row[d] = [hash |-> disk[u], status |-> "done"]

AnyRowIsDone(u) == disk[u] # 0 /\ row[u].status = "none"
MustProcess(u) == Changed(u) /\ ~Twin(u)

Pipeline(f) ==
  /\ fetch[f].pc = "pipeline" /\ Free(f)
  /\ LET u == fetch[f].url
     IN  IF MustProcess(u)
         THEN /\ row' = [row EXCEPT ![u] = [hash |-> disk[u], status |-> "processing"]]
              /\ fetch' = [fetch EXCEPT ![f] = [@ EXCEPT !.pc = "extract", !.version = disk[u]]]
         ELSE /\ row' = IF Changed(u) /\ Twin(u)
                        THEN [row EXCEPT ![u] = [hash |-> disk[u], status |-> "skipped_duplicate"]]
                        ELSE row
              /\ fetch' = [fetch EXCEPT ![f] =
                   [@ EXCEPT !.pc = "record", !.result = "skipped_unchanged"]]
  /\ UNCHANGED <<server, entry, store, disk, loop, purge, purged, counts>>

Failed(f) == fetch' = [fetch EXCEPT ![f] = [@ EXCEPT !.pc = "record", !.result = "failed"]]
SetRow(f, status) ==
  row' = [row EXCEPT ![fetch[f].url] = [hash |-> fetch[f].version, status |-> status]]
NewText(f) == Text(nextDoc, fetch[f].url, disk[fetch[f].url])

(* The file as it is now is read, the chunks are committed, then the       *)
(* manifest.  Another fetcher of the URL, or a sweep, may have removed it. *)
StoreText(f) ==
  /\ texts' = texts \cup {NewText(f)}
  /\ docs' = docs \cup {nextDoc} /\ nextDoc' = nextDoc + 1
Extract(f) ==
  /\ fetch[f].pc = "extract" /\ Free(f)
  /\ IF disk[fetch[f].url] = 0
     THEN SetRow(f, "failed") /\ Failed(f) /\ UNCHANGED <<texts, docs, nextDoc>>
     ELSE /\ StoreText(f) /\ SetRow(f, "done")
          /\ fetch' = [fetch EXCEPT ![f] =
               [@ EXCEPT !.pc = "embed", !.doc = nextDoc, !.version = disk[fetch[f].url]]]
  /\ UNCHANGED <<server, entry, vectors, disk, loop, purge, purged, counts>>

(* _run_pipeline_async reads the document, which may have been purged, and *)
(* embeds its chunks.                                                      *)
Embed(f) ==
  /\ fetch[f].pc = "embed" /\ Free(f)
  /\ IF fetch[f].doc \in docs THEN Goto(f, "points") ELSE Failed(f)
  /\ UNCHANGED <<server, entry, store, disk, row, loop, purge, purged, counts>>

Points(f) ==
  /\ fetch[f].pc = "points"
  /\ vectors' = vectors \cup {Text(fetch[f].doc, fetch[f].url, fetch[f].version)}
  /\ fetch' = [fetch EXCEPT ![f] = [@ EXCEPT !.pc = "record", !.result = "ingested"]]
  /\ UNCHANGED <<server, entry, texts, docs, nextDoc, disk, row, loop, purge, purged, counts>>

(* The database refuses should_process; the extraction or one of its       *)
(* commits fails; or, when the manifest says done, the embedder or Qdrant. *)
FailPipeline(f) ==
  /\ \/ /\ fetch[f].pc = "pipeline" /\ Fault("database")
        /\ UNCHANGED <<row, texts, docs, nextDoc>>
     \/ /\ fetch[f].pc = "extract" /\ Fault("embed") /\ SetRow(f, "failed")
        /\ \/ UNCHANGED <<texts, docs, nextDoc>>
           \/ disk[fetch[f].url] # 0 /\ StoreText(f)
     \/ /\ fetch[f].pc \in {"embed", "points"} /\ Fault("embed")
        /\ UNCHANGED <<row, texts, docs, nextDoc>>
  /\ Failed(f)
  /\ UNCHANGED <<server, entry, vectors, disk, loop, purge, purged, updates, calls>>

Record(f) ==
  /\ fetch[f].pc = "record" /\ Free(f)
  /\ SetEntry(f, fetch[f].result,
              IF fetch[f].result = "ingested" THEN fetch[f].doc ELSE entry[fetch[f].url].doc)
  /\ disk' = Removed(fetch[f].url)
  /\ Return(f)
  /\ UNCHANGED <<server, store, row, loop, purge, purged, counts>>

-----------------------------------------------------------------------------
(* Exceptions and crashes.                                                 *)

(* The database refuses a statement: nothing of the transaction remains,   *)
(* the crawl goes on with the next URL.                                    *)
Abort(f) ==
  /\ fetch[f].pc \in {"evaluate", "page", "commit"} /\ Fault("database")
  /\ Return(f)
  /\ UNCHANGED <<server, entry, store, disk, row, loop, purge, purged, updates, calls>>

Crash ==
  /\ Fault("crash")
  /\ fetch' = [f \in Fetchers |-> Idle]
  /\ crawling' = FALSE /\ todo' = {} /\ visited' = {}
  /\ purge' = [pc |-> "idle", docs |-> {}]
  /\ UNCHANGED <<server, entry, store, disk, row, purged, updates, calls>>

-----------------------------------------------------------------------------
(* The endpoints that delete.                                              *)

Sweep ==
  /\ Call("sweep")
  /\ disk' = [u \in Documents |-> 0]
  /\ UNCHANGED <<server, entry, store, row, fetch, loop, purge, purged, updates, faults>>

(* purge_scraped_rag_data: the documents are read, the vectors deleted,    *)
(* then the rows, then the files.  The ingestion manifest is left alone.   *)
StartPurge ==
  /\ Call("purge") /\ purge.pc = "idle"
  /\ purge' = [pc |-> "vectors", docs |-> docs]
  /\ UNCHANGED <<server, entry, store, disk, row, fetch, loop, purged, updates, faults>>

(* What Qdrant refuses is passed over.                                     *)
PurgeVectors ==
  /\ purge.pc = "vectors"
  /\ \/ vectors' = {} /\ UNCHANGED faults
     \/ Fault("embed") /\ vectors' \in SUBSET vectors
  /\ purge' = [purge EXCEPT !.pc = "rows"]
  /\ UNCHANGED <<server, entry, texts, docs, nextDoc, disk, row, fetch, loop, purged,
                 updates, calls>>

PurgeRowsKeepModified ==
  /\ purge.pc = "rows"
  /\ texts' = {t \in texts : t.doc \notin purge.docs}
  /\ docs' = docs \ purge.docs
  /\ entry' = [u \in Urls |-> IF entry[u].status = "modified" THEN entry[u] ELSE NoEntry]
  /\ purged' = purged + 1
  /\ purge' = [purge EXCEPT !.pc = "files"]
  /\ UNCHANGED <<server, vectors, nextDoc, disk, row, fetch, loop, counts>>
PurgeRows ==
  /\ purge.pc = "rows"
  /\ Sqlite => \A f \in Fetchers : ~Holds(f)
  /\ texts' = {t \in texts : t.doc \notin purge.docs}
  /\ docs' = docs \ purge.docs
  /\ entry' = [u \in Urls |-> NoEntry]
  /\ purged' = purged + 1
  /\ purge' = [purge EXCEPT !.pc = "files"]
  /\ UNCHANGED <<server, vectors, nextDoc, disk, row, fetch, loop, counts>>

PurgeFiles ==
  /\ purge.pc = "files"
  /\ disk' = [u \in Documents |-> 0]
  /\ purge' = [pc |-> "idle", docs |-> {}]
  /\ UNCHANGED <<server, entry, store, row, fetch, loop, purged, counts>>

-----------------------------------------------------------------------------
Work(f) == \/ Evaluate(f) \/ BeginPage(f) \/ CommitPage(f) \/ Upsert(f)
           \/ Pipeline(f) \/ Extract(f) \/ Embed(f) \/ Points(f) \/ Record(f)

Next == \/ \E u \in Urls : \/ Update(u) \/ CrawlNext(u) \/ GetFails(u)
                           \/ \E f \in Singles : CrawlSingle(f, u)
        \/ \E f \in Fetchers : \/ Work(f) \/ FailPage(f) \/ FailPipeline(f) \/ Abort(f)
        \/ StartCrawl \/ EndCrawl \/ Stop \/ Crash
        \/ Sweep \/ StartPurge \/ PurgeVectors \/ PurgeRows \/ PurgeFiles

Spec == Init /\ [][Next]_vars

(* The scheduler starts crawls again and again; a crawl goes on.           *)
FairSpec == /\ Spec
            /\ WF_vars(StartCrawl) /\ WF_vars(EndCrawl)
            /\ WF_vars(\E u \in Urls : CrawlNext(u))
            /\ \A f \in Fetchers : WF_vars(Work(f))

-----------------------------------------------------------------------------
(* Properties.                                                             *)

(* Every variable keeps its type; a text belongs to a document.            *)
TypeOK ==
  /\ server \in [Urls -> Versions]
  /\ entry \in [Urls -> Entries]
  /\ texts \subseteq Texts /\ vectors \subseteq Texts
  /\ docs \subseteq 1 .. nextDoc - 1 /\ \A t \in texts : t.doc \in docs
  /\ disk \in [Documents -> 0 .. MaxVersion] /\ row \in [Documents -> Rows]
  /\ \A f \in Fetchers : fetch[f] = Idle \/ fetch[f] \in Jobs
  /\ crawling \in BOOLEAN /\ todo \subseteq visited /\ visited \subseteq Urls

(* Nothing is under way for a URL.                                         *)
Quiet(u) == /\ \A f \in Fetchers : Busy(f) => fetch[f].url # u
            /\ purge.pc = "idle"
Alike(u, w)  == u = w \/ {u, w} \subseteq Documents
Stored(u, v) == \E t \in texts : Alike(u, t.url) /\ t.version = v

(* The text of the content that the manifest says it has seen is stored:   *)
(* the next crawl that finds it unchanged is right to skip it.  That of a  *)
(* download may be stored as another document with the same content.       *)
EntryIsStored ==
  \A u \in Urls : Quiet(u) /\ entry[u].hash # 0 /\ ~(u \in Pages /\ entry[u].hash \in Short)
    => Stored(u, entry[u].hash)

(* A page has one text at most, however often it changes.                  *)
PageHasOneText ==
  \A p \in Pages : Quiet(p) => Cardinality({t \in texts : t.url = p}) <= 1

(* Until something fails or is purged, every stored text has its vectors,  *)
(* also when several fetchers work on one URL and downloads are swept away *)
(* under them.                                                             *)
TextIsIndexed ==
  faults = 0 /\ purged = 0 => \A t \in texts : Quiet(t.url) => t \in vectors

(* The document of a manifest entry exists, whatever is purged under a     *)
(* running ingestion and whatever fails.                                   *)
EntryHasDocument == \A u \in Urls : entry[u].doc # 0 => entry[u].doc \in docs

(* When the web stops changing, the crawls that follow store what every    *)
(* reachable URL has.                                                      *)
RecrawlSettles == \A u \in Urls : <>[]Stored(u, server[u])

(* What the documentation promises, and the code does not do.              *)

(* What the ingestion manifest has as done for a download is stored: a     *)
(* crawl that finds it there is right to call it "already indexed".        *)
RowIsStored ==
  \A d \in Documents : Quiet(d) /\ row[d].status = "done" => Stored(d, row[d].hash)

(* The vectors of a former version of a page are gone ("Remove previous    *)
(* chunks to refresh").                                                    *)
VectorsAreCurrent ==
  \A v \in vectors : v.url \in Pages /\ Quiet(v.url) => v \in texts

=============================================================================
