---------------------------- MODULE CrawlDeltaProofs ----------------------------
(* What the crawl of a page keeps for any URLs, fetchers, failures and     *)
(* purges: the documents of the manifest entries and the vectors of the    *)
(* stored texts.                                                           *)
EXTENDS CrawlDelta, FiniteSetTheorems, TLAPS

-----------------------------------------------------------------------------
(* The invariant.  A fetcher knows by the number of purges whether its     *)
(* entry is still there; if it is, so is the document that it has stored.  *)
JobOK(j) ==
  /\ j.purged <= purged
  /\ j.pc \in {"pipeline", "extract", "embed", "points", "record"} => j.url \in Documents
  /\ j.pc \in {"commit", "upsert"} => j.doc \in 1 .. nextDoc - 1
  /\ (\/ j.pc \in {"upsert", "embed", "points"}
      \/ j.pc = "record" /\ j.result = "ingested") /\ j.purged = purged
       => j.doc \in docs

WebOK ==
  /\ server \in [Urls -> Versions]
  /\ disk \in [Documents -> 0 .. MaxVersion] /\ row \in [Documents -> Rows]
LoopOK == crawling \in BOOLEAN /\ todo \subseteq visited /\ visited \subseteq Urls
StoreOK ==
  /\ nextDoc \in Nat \ {0} /\ docs \subseteq 1 .. nextDoc - 1 /\ purged \in Nat
  /\ texts \subseteq Texts /\ vectors \subseteq Texts
  /\ \A t \in texts : t.doc \in docs
EntryOK == entry \in [Urls -> Entries] /\ EntryHasDocument
FetchOK ==
  /\ fetch \in [Fetchers -> Jobs \cup {Idle}]
  /\ \A f \in Fetchers : fetch[f].pc # "idle" => JobOK(fetch[f])
DeltaInv == WebOK /\ LoopOK /\ StoreOK /\ EntryOK /\ FetchOK

LEMMA IdleIs == Idle.pc = "idle" /\ \A j \in Jobs : j.pc # "idle"
BY DEF Idle, Jobs

LEMMA VersionsAre == 0 \in 0 .. MaxVersion /\ Versions = (0 .. MaxVersion) \ {0}
BY ConstantsOK DEF Versions

LEMMA JobsAre ==
  ASSUME FetchOK, NEW f \in Fetchers, fetch[f].pc # "idle"
  PROVE  fetch[f] \in Jobs /\ JobOK(fetch[f])
BY IdleIs DEF FetchOK

(* A step that moves one fetcher, while the store only grows.              *)
LEMMA JobMoves ==
  ASSUME FetchOK, StoreOK, StoreOK', NEW f \in Fetchers, NEW new \in Jobs \cup {Idle},
         new.pc # "idle" => JobOK(new)',
         fetch' = [fetch EXCEPT ![f] = new],
         docs \subseteq docs', nextDoc <= nextDoc', purged' = purged
  PROVE  FetchOK'
<1>1. \A g \in Fetchers : fetch'[g] = IF g = f THEN new ELSE fetch[g]
  BY DEF FetchOK
<1>2. \A j \in Jobs : JobOK(j) => JobOK(j)'
  BY DEF JobOK, StoreOK, Jobs
<1> QED
  BY <1>1, <1>2, IdleIs DEF FetchOK

LEMMA Rests ==
  ASSUME FetchOK, StoreOK, StoreOK', NEW f \in Fetchers, Return(f),
         docs \subseteq docs', nextDoc <= nextDoc', purged' = purged
  PROVE  FetchOK'
BY JobMoves, IdleIs DEF Return

LEMMA FetchSame ==
  ASSUME FetchOK, UNCHANGED <<fetch, docs, nextDoc, purged>> PROVE FetchOK'
BY DEF FetchOK, JobOK

LEMMA EntrySame ==
  ASSUME EntryOK, UNCHANGED entry, docs \subseteq docs' PROVE EntryOK'
BY DEF EntryOK, EntryHasDocument

LEMMA Harvested ==
  ASSUME LoopOK, NEW f, NEW u \in Urls, Harvest(f, u) PROVE LoopOK'
BY ConstantsOK DEF Harvest, loop, LoopOK

LEMMA FileRemoved ==
  ASSUME WebOK, NEW u, disk' = Removed(u), UNCHANGED <<server, row>> PROVE WebOK'
BY VersionsAre DEF WebOK, Removed

(* A statement on the entry, with a document that exists or the same.      *)
LEMMA EntryWritten ==
  ASSUME EntryOK, NEW f \in Fetchers, fetch[f].url \in Urls, NEW status \in Statuses,
         NEW doc \in Nat, SetEntry(f, status, doc), docs \subseteq docs',
         HasEntry(f) => doc \in docs' \/ doc = entry[fetch[f].url].doc
  PROVE  EntryOK'
<1> DEFINE u   == fetch[f].url
           new == [entry[u] EXCEPT !.status = status, !.doc = doc]
<1>1. entry[u] \in Entries
  BY DEF EntryOK
<1>2. new \in Entries /\ new.doc = doc
  BY <1>1 DEF Entries
<1>3. \/ entry' = entry
      \/ HasEntry(f) /\ entry' = [entry EXCEPT ![u] = new]
  BY DEF SetEntry
<1> HIDE DEF u, new
<1>4. u \in Urls /\ (HasEntry(f) => doc \in docs' \/ doc = entry[u].doc)
  BY DEF u
<1> QED
  BY <1>2, <1>3, <1>4 DEF EntryOK, EntryHasDocument

-----------------------------------------------------------------------------
(* The steps that leave fetchers, documents and entries alone.             *)
Aside == UNCHANGED <<entry, texts, docs, vectors, nextDoc, fetch, purged>>
LEMMA AsideKeeps ==
  ASSUME DeltaInv, Aside, WebOK', LoopOK' PROVE DeltaInv'
<1>1. StoreOK'
  BY DEF DeltaInv, StoreOK, Aside
<1> QED
  BY <1>1, FetchSame, EntrySame DEF DeltaInv, Aside

Elsewhere ==
  \/ \E u \in Urls : Update(u) \/ GetFails(u)
  \/ StartCrawl \/ EndCrawl \/ Stop \/ Sweep \/ StartPurge \/ PurgeFiles
LEMMA ElsewhereKeeps == ASSUME DeltaInv, Elsewhere PROVE DeltaInv'
<1>1. CASE \E u \in Urls : Update(u)
  BY <1>1, AsideKeeps DEF Update, Aside, store, loop, DeltaInv, WebOK, LoopOK
<1>2. CASE (\E u \in Urls : GetFails(u)) \/ StartCrawl \/ Stop
  BY <1>2, AsideKeeps, ConstantsOK
  DEF GetFails, StartCrawl, Stop, Aside, store, loop, DeltaInv, WebOK, LoopOK
<1>3. CASE EndCrawl \/ Sweep \/ StartPurge \/ PurgeFiles
  <2>1. WebOK'
    BY <1>3, VersionsAre DEF EndCrawl, Sweep, StartPurge, PurgeFiles, DeltaInv, WebOK
  <2> QED
    BY <1>3, <2>1, AsideKeeps
    DEF EndCrawl, Sweep, StartPurge, PurgeFiles, Aside, store, loop, DeltaInv, LoopOK
<1> QED
  BY <1>1, <1>2, <1>3 DEF Elsewhere

(* A step that moves a fetcher and leaves the documents alone.             *)
Stays == UNCHANGED <<texts, docs, vectors, nextDoc, purged>>
LEMMA StayKeeps ==
  ASSUME DeltaInv, Stays, WebOK', LoopOK', EntryOK',
         NEW f \in Fetchers, NEW new \in Jobs \cup {Idle},
         new.pc # "idle" => JobOK(new)', fetch' = [fetch EXCEPT ![f] = new]
  PROVE  DeltaInv'
<1>1. StoreOK'
  BY DEF DeltaInv, StoreOK, Stays
<1>2. docs \subseteq docs' /\ nextDoc <= nextDoc' /\ purged' = purged
  BY DEF Stays, DeltaInv, StoreOK
<1> QED
  BY <1>1, <1>2, JobMoves DEF DeltaInv

LEMMA Gets ==
  ASSUME DeltaInv, NEW f \in Fetchers, NEW u \in Urls, NEW force \in BOOLEAN,
         NEW auto \in BOOLEAN, Get(f, u, force, auto), Stays, LoopOK',
         UNCHANGED <<entry, server, row>>
  PROVE  DeltaInv'
<1> DEFINE new == [pc |-> "evaluate", url |-> u, version |-> server[u], force |-> force,
                   auto |-> auto, doc |-> 0, old |-> {}, purged |-> purged, result |-> "none"]
<1>1. /\ server[u] \in Versions /\ purged \in Nat
      /\ purged' = purged
  BY DEF DeltaInv, WebOK, StoreOK, Stays
<1>2. new \in Jobs
  BY <1>1, Zenon DEF Jobs, Statuses
<1>3. PICK job \in Jobs : job = new
  BY <1>2
<1>4. JobOK(job)'
  BY <1>1, <1>3 DEF JobOK
<1>5. EntryOK'
  BY EntrySame DEF DeltaInv, Stays
<1>6. \/ UNCHANGED <<fetch, disk>>
      \/ /\ fetch' = [fetch EXCEPT ![f] = job]
         /\ disk' = IF u \in Documents THEN [disk EXCEPT ![u] = server[u]] ELSE disk
  BY <1>3 DEF Get
<1> HIDE DEF new
<1>7. WebOK'
  BY <1>1, <1>6, VersionsAre DEF DeltaInv, WebOK
<1>8. CASE UNCHANGED fetch
  <2>1. Aside
    BY <1>8 DEF Aside, Stays
  <2> QED
    BY <2>1, <1>7, AsideKeeps
<1>9. CASE fetch' = [fetch EXCEPT ![f] = job]
  BY <1>4, <1>5, <1>7, <1>9, StayKeeps
<1> QED
  BY <1>6, <1>8, <1>9

LEMMA CrawlNextKeeps ==
  ASSUME DeltaInv, NEW u \in Urls, CrawlNext(u) PROVE DeltaInv'
<1>1. PICK auto \in BOOLEAN : Get(Crawler, u, FALSE, auto)
  BY ConstantsOK DEF CrawlNext
<1> QED
  BY <1>1, Gets DEF CrawlNext, Stays, store, Fetchers, DeltaInv, LoopOK

LEMMA CrawlSingleKeeps ==
  ASSUME DeltaInv, NEW f \in Singles, NEW u \in Urls, CrawlSingle(f, u) PROVE DeltaInv'
<1>1. PICK auto \in BOOLEAN, force \in BOOLEAN : Get(f, u, force, auto)
  BY ConstantsOK DEF CrawlSingle
<1> QED
  BY <1>1, Gets DEF CrawlSingle, Stays, store, loop, Fetchers, DeltaInv, LoopOK

LEMMA EvaluateKeeps ==
  ASSUME DeltaInv, NEW f \in Fetchers, Evaluate(f) PROVE DeltaInv'
<1> DEFINE j == fetch[f]
           u == j.url
           ent == IF entry[u].hash = j.version
                  THEN [entry[u] EXCEPT !.status = "skipped_unchanged"]
                  ELSE [hash |-> j.version, doc |-> entry[u].doc,
                        status |-> IF entry[u].hash = 0 THEN "discovered" ELSE "modified"]
           new == [j EXCEPT !.pc = IF u \in Pages THEN "page" ELSE "pipeline",
                            !.doc = entry[u].doc, !.purged = purged]
<1>1. j.pc = "evaluate" /\ j \in Jobs
  BY JobsAre DEF Evaluate, DeltaInv
<1>2. u \in Urls /\ j.version \in 0 .. MaxVersion /\ entry[u] \in Entries /\ entry[u].doc \in Nat
      /\ purged \in Nat
  BY <1>1, VersionsAre DEF Jobs, DeltaInv, EntryOK, Entries, StoreOK
<1>3. ent \in Entries /\ ent.doc = entry[u].doc
  BY <1>2 DEF Entries, Statuses
<1>4. new \in Jobs
  BY <1>1, <1>2, Zenon DEF Jobs
<1>5. PICK job \in Jobs :
        /\ job = new /\ job.pc = IF u \in Pages THEN "page" ELSE "pipeline"
        /\ job.purged = purged /\ job.url = u
  BY <1>1, <1>4 DEF Jobs
<1>6. /\ entry' = [entry EXCEPT ![u] = ent]
      /\ \/ fetch' = [fetch EXCEPT ![f] = job] /\ UNCHANGED <<disk, loop>>
         \/ Return(f) /\ disk' = Removed(u) /\ Harvest(f, u)
      /\ Stays /\ UNCHANGED <<server, row>>
  BY <1>5 DEF Evaluate, Stays, store
<1> HIDE DEF j, u, ent, new
<1>7. EntryOK'
  BY <1>2, <1>3, <1>6 DEF DeltaInv, EntryOK, EntryHasDocument, Stays
<1>8. CASE fetch' = [fetch EXCEPT ![f] = job] /\ UNCHANGED <<disk, loop>>
  <2>1. JobOK(job)'
    BY <1>2, <1>5, <1>6 DEF JobOK, Stays, Urls
  <2>2. WebOK' /\ LoopOK'
    BY <1>6, <1>8 DEF DeltaInv, WebOK, LoopOK, loop
  <2> QED
    BY <1>4, <1>6, <1>7, <1>8, <2>1, <2>2, StayKeeps
<1>9. CASE Return(f) /\ disk' = Removed(u) /\ Harvest(f, u)
  <2>1. WebOK' /\ LoopOK'
    BY <1>2, <1>6, <1>9, FileRemoved, Harvested DEF DeltaInv
  <2> QED
    BY <1>6, <1>7, <1>9, <2>1, IdleIs, StayKeeps DEF Return
<1> QED
  BY <1>6, <1>8, <1>9

(* An entry is written with the document it has.                           *)
LEMMA RewriteKeeps ==
  ASSUME DeltaInv, NEW f \in Fetchers, fetch[f].pc # "idle", NEW status \in Statuses,
         SetEntry(f, status, entry[fetch[f].url].doc), UNCHANGED docs
  PROVE  EntryOK'
<1>1. fetch[f].url \in Urls
  BY JobsAre DEF DeltaInv, Jobs
<1>2. entry[fetch[f].url].doc \in Nat
  BY <1>1 DEF DeltaInv, EntryOK, Entries
<1> QED
  BY <1>1, <1>2, EntryWritten DEF DeltaInv

LEMMA BeginPageKeeps ==
  ASSUME DeltaInv, NEW f \in Fetchers, BeginPage(f) PROVE DeltaInv'
<1> DEFINE j == fetch[f]
           doc == IF j.doc \in docs THEN j.doc ELSE nextDoc
           new == [j EXCEPT !.pc = "commit", !.doc = doc,
                     !.old = IF j.doc \in docs THEN {t \in texts : t.doc = j.doc} ELSE {}]
<1>1. j.pc = "page" /\ j \in Jobs /\ JobOK(j) /\ j.url \in Urls
  BY JobsAre DEF BeginPage, DeltaInv, Jobs
<1>2. UNCHANGED <<server, disk, row, loop, texts, docs, vectors, purged>>
  BY DEF BeginPage, loop
<1>3. WebOK' /\ LoopOK'
  BY <1>2 DEF DeltaInv, WebOK, LoopOK, loop
<1>4. CASE TooShort(f)
  <2>1. /\ Return(f) /\ SetEntry(f, "skipped_empty", entry[j.url].doc) /\ UNCHANGED nextDoc
    BY <1>4 DEF BeginPage
  <2>2. EntryOK'
    BY <1>1, <1>2, <2>1, RewriteKeeps DEF Statuses
  <2> QED
    BY <1>2, <1>3, <2>1, <2>2, IdleIs, StayKeeps DEF Stays, Return
<1>5. CASE ~TooShort(f)
  <2>1. /\ fetch' = [fetch EXCEPT ![f] = new] /\ UNCHANGED entry
        /\ nextDoc' = IF j.doc \in docs THEN nextDoc ELSE nextDoc + 1
    BY <1>5 DEF BeginPage
  <2>2. /\ doc \in Nat /\ texts \subseteq Texts /\ doc \in 1 .. nextDoc' - 1
        /\ nextDoc \in Nat \ {0} /\ docs \subseteq 1 .. nextDoc - 1
        /\ nextDoc' \in Nat \ {0} /\ nextDoc <= nextDoc' /\ docs \subseteq 1 .. nextDoc' - 1
    BY <2>1 DEF DeltaInv, StoreOK
  <2>3. {t \in texts : t.doc = j.doc} \in SUBSET Texts /\ {} \in SUBSET Texts
    BY <2>2
  <2> HIDE DEF doc
  <2>4. new \in Jobs
    <3> DEFINE old == IF j.doc \in docs THEN {t \in texts : t.doc = j.doc} ELSE {}
    <3>1. old \in SUBSET Texts
      BY <2>3
    <3> HIDE DEF old
    <3>2. [j EXCEPT !.pc = "commit", !.doc = doc, !.old = old] \in Jobs
      BY <1>1, <2>2, <3>1, Zenon DEF Jobs
    <3> QED
      BY <3>2 DEF old
  <2>5. PICK job \in Jobs : /\ job = new /\ job.pc = "commit"
                            /\ job.doc = doc /\ job.purged = j.purged
    BY <1>1, <2>4 DEF Jobs
  <2>6. StoreOK'
    BY <1>2, <2>2 DEF DeltaInv, StoreOK
  <2>7. JobOK(job)'
    BY <1>1, <1>2, <2>2, <2>5 DEF JobOK
  <2>8. FetchOK'
    BY <1>2, <2>1, <2>2, <2>5, <2>6, <2>7, JobMoves DEF DeltaInv
  <2>9. EntryOK'
    BY <1>2, <2>1, EntrySame DEF DeltaInv
  <2> QED
    BY <1>3, <2>6, <2>8, <2>9 DEF DeltaInv
<1> QED
  BY <1>4, <1>5

(* The transaction of a page, and its vectors.                             *)
LEMMA CommitPageKeeps ==
  ASSUME DeltaInv, NEW f \in Fetchers, CommitPage(f) PROVE DeltaInv'
<1> DEFINE j == fetch[f]
           new == [j EXCEPT !.pc = "upsert"]
           text == Text(j.doc, j.url, j.version)
<1>1. j.pc = "commit" /\ j \in Jobs /\ JobOK(j) /\ j.url \in Urls
      /\ j.doc \in Nat /\ j.doc \in 1 .. nextDoc - 1
  BY JobsAre DEF CommitPage, DeltaInv, Jobs, JobOK
<1>2. UNCHANGED <<server, disk, row, loop, vectors, nextDoc, purged>>
  BY DEF CommitPage, loop
<1>3. WebOK' /\ LoopOK'
  BY <1>2 DEF DeltaInv, WebOK, LoopOK, loop
<1>4. CASE ~HasEntry(f)
  <2>1. Return(f) /\ UNCHANGED <<texts, docs, entry>>
    BY <1>4 DEF CommitPage
  <2>2. EntryOK'
    BY <2>1, EntrySame DEF DeltaInv
  <2> QED
    BY <1>2, <1>3, <2>1, <2>2, IdleIs, StayKeeps DEF Stays, Return
<1>5. CASE HasEntry(f)
  <2>1. /\ texts' = (texts \ j.old) \cup {text} /\ docs' = docs \cup {j.doc}
        /\ SetEntry(f, "ingested", j.doc) /\ fetch' = [fetch EXCEPT ![f] = new]
    BY <1>5 DEF CommitPage, Goto
  <2>2. text \in Texts /\ text.doc = j.doc
    BY <1>1 DEF Texts, Text, Jobs
  <2>3. new \in Jobs
    BY <1>1, Zenon DEF Jobs
  <2>4. PICK job \in Jobs : job = new /\ job.pc = "upsert" /\ job.doc = j.doc
    BY <1>1, <2>3 DEF Jobs
  <2>5. job.purged = j.purged
    BY <1>1, <2>4 DEF Jobs
  <2> HIDE DEF text, new
  <2>6. StoreOK'
    BY <1>1, <1>2, <2>1, <2>2 DEF DeltaInv, StoreOK
  <2>7. JobOK(job)'
    BY <1>1, <1>2, <2>1, <2>4, <2>5 DEF JobOK
  <2>10. docs \subseteq docs' /\ nextDoc <= nextDoc' /\ purged' = purged
    BY <1>2, <2>1 DEF DeltaInv, StoreOK
  <2>8. FetchOK'
    BY <2>1, <2>4, <2>6, <2>7, <2>10, JobMoves DEF DeltaInv
  <2>9. EntryOK'
    BY <1>1, <2>1, EntryWritten DEF DeltaInv, Statuses
  <2> QED
    BY <1>3, <2>6, <2>8, <2>9 DEF DeltaInv
<1> QED
  BY <1>4, <1>5

LEMMA UpsertKeeps ==
  ASSUME DeltaInv, NEW f \in Fetchers, Upsert(f) PROVE DeltaInv'
<1> DEFINE j == fetch[f]
<1>1. j.pc = "upsert" /\ j \in Jobs /\ j.url \in Urls
  BY JobsAre DEF Upsert, DeltaInv, Jobs
<1>2. Text(j.doc, j.url, j.version) \in Texts
  BY <1>1 DEF Texts, Text, Jobs
<1>3. /\ vectors' = vectors \cup {Text(j.doc, j.url, j.version)}
      /\ Return(f) /\ Harvest(f, j.url)
      /\ UNCHANGED <<server, entry, texts, docs, nextDoc, disk, row, purged>>
  BY DEF Upsert
<1>4. StoreOK'
  BY <1>2, <1>3 DEF DeltaInv, StoreOK
<1>5. FetchOK' /\ EntryOK'
  BY <1>3, <1>4, Rests, EntrySame DEF DeltaInv, StoreOK
<1>6. WebOK' /\ LoopOK'
  BY <1>1, <1>3, Harvested DEF DeltaInv, WebOK
<1> QED
  BY <1>4, <1>5, <1>6 DEF DeltaInv

LEMMA FailPageKeeps ==
  ASSUME DeltaInv, NEW f \in Fetchers, FailPage(f) PROVE DeltaInv'
<1> DEFINE j == fetch[f]
<1>1. j.pc \in {"commit", "upsert"} /\ j \in Jobs /\ JobOK(j) /\ j.url \in Urls
      /\ j.doc \in Nat /\ j.doc \in 1 .. nextDoc - 1
  BY JobsAre DEF FailPage, DeltaInv, Jobs, JobOK
<1>2. /\ \/ j.pc = "commit" /\ texts' = texts \ j.old /\ docs' = docs \cup {j.doc}
         \/ ~(j.pc = "commit" /\ HasEntry(f)) /\ UNCHANGED <<texts, docs>>
      /\ SetEntry(f, "failed", j.doc) /\ Return(f)
      /\ Harvest(f, j.url) \/ UNCHANGED loop
      /\ UNCHANGED <<server, vectors, nextDoc, disk, row, purged>>
  BY DEF FailPage
<1>3. StoreOK'
  BY <1>1, <1>2 DEF DeltaInv, StoreOK
<1>4. FetchOK'
  BY <1>2, <1>3, Rests DEF DeltaInv, StoreOK
<1>5. HasEntry(f) => j.doc \in docs'
  BY <1>1, <1>2 DEF HasEntry, JobOK
<1>6. EntryOK'
  BY <1>1, <1>2, <1>5, EntryWritten DEF DeltaInv, Statuses
<1>7. WebOK' /\ LoopOK'
  BY <1>1, <1>2, Harvested DEF DeltaInv, WebOK, LoopOK, loop
<1> QED
  BY <1>3, <1>4, <1>6, <1>7 DEF DeltaInv

(* The pipeline of a download, and the entry after it.                     *)
LEMMA Downloading ==
  ASSUME DeltaInv, NEW f \in Fetchers,
         fetch[f].pc \in {"pipeline", "extract", "embed", "points"}
  PROVE  /\ fetch[f] \in Jobs /\ JobOK(fetch[f]) /\ fetch[f].url \in Documents
         /\ fetch[f].url \in Urls /\ fetch[f].doc \in Nat
         /\ fetch[f].version \in Versions /\ disk[fetch[f].url] \in 0 .. MaxVersion
         /\ disk[fetch[f].url] # 0 => disk[fetch[f].url] \in Versions
         /\ nextDoc \in Nat \ {0}
<1>1. fetch[f] \in Jobs /\ JobOK(fetch[f]) /\ fetch[f].url \in Documents
  BY JobsAre DEF DeltaInv, JobOK
<1> QED
  BY <1>1, VersionsAre DEF DeltaInv, WebOK, StoreOK, Jobs, Urls

LEMMA RowWritten ==
  ASSUME WebOK, NEW u, NEW r \in Rows, row' = [row EXCEPT ![u] = r], UNCHANGED <<server, disk>>
  PROVE  WebOK'
BY DEF WebOK

LEMMA RowSet ==
  ASSUME DeltaInv, NEW f \in Fetchers, fetch[f].pc = "extract",
         NEW status \in {"done", "failed"}, SetRow(f, status), UNCHANGED <<server, disk>>
  PROVE  WebOK'
<1>1. [hash |-> fetch[f].version, status |-> status] \in Rows
  BY Downloading, VersionsAre DEF Rows
<1> QED
  BY <1>1, RowWritten DEF SetRow, DeltaInv

LEMMA TextStored ==
  ASSUME DeltaInv, NEW f \in Fetchers, fetch[f].pc = "extract", disk[fetch[f].url] # 0,
         StoreText(f), UNCHANGED <<vectors, purged>>
  PROVE  /\ StoreOK' /\ docs \subseteq docs' /\ nextDoc <= nextDoc' /\ nextDoc \in docs'
         /\ NewText(f) \in Texts /\ NewText(f).doc = nextDoc
<1>1. NewText(f) \in Texts /\ NewText(f).doc = nextDoc /\ nextDoc \in Nat \ {0}
  BY Downloading DEF NewText, Text, Texts
<1>2. /\ texts' = texts \cup {NewText(f)}
      /\ docs' = docs \cup {nextDoc} /\ nextDoc' = nextDoc + 1
  BY DEF StoreText
<1> HIDE DEF NewText
<1>3. nextDoc' \in Nat \ {0} /\ docs' \subseteq 1 .. nextDoc' - 1 /\ purged' \in Nat
  BY <1>1, <1>2 DEF DeltaInv, StoreOK
<1>4. texts' \subseteq Texts /\ vectors' \subseteq Texts
  BY <1>1, <1>2 DEF DeltaInv, StoreOK
<1>5. \A t \in texts' : t.doc \in docs'
  BY <1>1, <1>2 DEF DeltaInv, StoreOK
<1> QED
  BY <1>1, <1>2, <1>3, <1>4, <1>5 DEF StoreOK

LEMMA FailedJob ==
  ASSUME DeltaInv, NEW f \in Fetchers, Failed(f), UNCHANGED purged,
         fetch[f].pc \in {"pipeline", "extract", "embed", "points"}
  PROVE  \E job \in Jobs : fetch' = [fetch EXCEPT ![f] = job] /\ JobOK(job)'
<1> DEFINE new == [fetch[f] EXCEPT !.pc = "record", !.result = "failed"]
<1>1. fetch[f] \in Jobs /\ JobOK(fetch[f]) /\ fetch[f].url \in Documents
  BY Downloading
<1>2. new \in Jobs
  BY <1>1, Zenon DEF Jobs, Statuses
<1>3. PICK job \in Jobs :
    /\ job = new
    /\ job.pc = "record" /\ job.result = "failed" /\ job.url = fetch[f].url
    /\ job.purged = fetch[f].purged
  BY <1>1, <1>2 DEF Jobs
<1>4. fetch' = [fetch EXCEPT ![f] = new]
  BY DEF Failed
<1> HIDE DEF new
<1>5. JobOK(job)'
  BY <1>1, <1>3 DEF JobOK
<1> QED
  BY <1>2, <1>3, <1>4, <1>5

LEMMA PipelineKeeps ==
  ASSUME DeltaInv, NEW f \in Fetchers, Pipeline(f) PROVE DeltaInv'
<1> DEFINE j == fetch[f]
           u == j.url
<1>1. /\ j.pc = "pipeline" /\ Stays /\ UNCHANGED <<server, entry, disk, loop>>
      /\ j \in Jobs /\ JobOK(j) /\ u \in Documents /\ disk[u] \in 0 .. MaxVersion
      /\ disk[u] # 0 => disk[u] \in Versions
  BY Downloading DEF Pipeline, store, loop, Stays
<1>2. EntryOK' /\ LoopOK'
  BY <1>1, EntrySame DEF DeltaInv, LoopOK, loop, Stays
<1>3. WebOK'
  <2>1. /\ [hash |-> disk[u], status |-> "processing"] \in Rows
        /\ [hash |-> disk[u], status |-> "skipped_duplicate"] \in Rows
    BY <1>1 DEF Rows
  <2>2. \/ row' = row
        \/ row' = [row EXCEPT ![u] = [hash |-> disk[u], status |-> "processing"]]
        \/ row' = [row EXCEPT ![u] = [hash |-> disk[u], status |-> "skipped_duplicate"]]
    BY DEF Pipeline
  <2> QED
    BY <1>1, <2>1, <2>2, RowWritten DEF DeltaInv, WebOK
<1>4. CASE MustProcess(u)
  <2> DEFINE new == [j EXCEPT !.pc = "extract", !.version = disk[u]]
  <2>1. disk[u] \in Versions /\ fetch' = [fetch EXCEPT ![f] = new]
    BY <1>1, <1>4 DEF Pipeline, MustProcess, Changed
  <2>2. new \in Jobs
    BY <1>1, <2>1, Zenon DEF Jobs
  <2>3. PICK job \in Jobs :
      /\ job = new
      /\ job.pc = "extract" /\ job.url = u /\ job.purged = j.purged
    BY <1>1, <2>2 DEF Jobs
  <2> HIDE DEF new
  <2>4. JobOK(job)'
    BY <1>1, <2>3 DEF JobOK, Stays
  <2> QED
    BY <1>1, <1>2, <1>3, <2>1, <2>2, <2>3, <2>4, StayKeeps
<1>5. CASE ~MustProcess(u)
  <2> DEFINE new == [j EXCEPT !.pc = "record", !.result = "skipped_unchanged"]
  <2>1. fetch' = [fetch EXCEPT ![f] = new]
    BY <1>5 DEF Pipeline
  <2>2. new \in Jobs
    BY <1>1, Zenon DEF Jobs, Statuses
  <2>3. PICK job \in Jobs :
      /\ job = new
      /\ job.pc = "record" /\ job.result = "skipped_unchanged" /\ job.url = u
      /\ job.purged = j.purged
    BY <1>1, <2>2 DEF Jobs
  <2> HIDE DEF new
  <2>4. JobOK(job)'
    BY <1>1, <2>3 DEF JobOK, Stays
  <2> QED
    BY <1>1, <1>2, <1>3, <2>1, <2>2, <2>3, <2>4, StayKeeps
<1> QED
  BY <1>4, <1>5

LEMMA ExtractKeeps ==
  ASSUME DeltaInv, NEW f \in Fetchers, Extract(f) PROVE DeltaInv'
<1> DEFINE j == fetch[f]
           u == j.url
<1>1. /\ j.pc = "extract" /\ UNCHANGED <<server, entry, vectors, disk, loop, purged>>
      /\ j \in Jobs /\ JobOK(j) /\ u \in Documents /\ nextDoc \in Nat \ {0}
      /\ disk[u] # 0 => disk[u] \in Versions
  BY Downloading DEF Extract, loop
<1>2. LoopOK'
  BY <1>1 DEF DeltaInv, LoopOK, loop
<1>3. CASE disk[u] = 0
  <2>1. SetRow(f, "failed") /\ Failed(f) /\ Stays
    BY <1>1, <1>3 DEF Extract, Stays
  <2>2. WebOK' /\ EntryOK'
    BY <1>1, <2>1, RowSet, EntrySame DEF DeltaInv, Stays
  <2>3. PICK job \in Jobs : fetch' = [fetch EXCEPT ![f] = job] /\ JobOK(job)'
    BY <1>1, <2>1, FailedJob
  <2> QED
    BY <1>2, <2>1, <2>2, <2>3, StayKeeps
<1>4. CASE disk[u] # 0
  <2> DEFINE new == [j EXCEPT !.pc = "embed", !.doc = nextDoc, !.version = disk[u]]
  <2>1. SetRow(f, "done") /\ StoreText(f) /\ fetch' = [fetch EXCEPT ![f] = new]
    BY <1>4 DEF Extract
  <2>2. /\ StoreOK' /\ docs \subseteq docs' /\ nextDoc <= nextDoc' /\ nextDoc \in docs'
    BY <1>1, <1>4, <2>1, TextStored
  <2>3. new \in Jobs
    BY <1>1, <1>4, Zenon DEF Jobs
  <2>4. PICK job \in Jobs :
      /\ job = new
      /\ job.pc = "embed" /\ job.url = u /\ job.purged = j.purged /\ job.doc = nextDoc
    BY <1>1, <2>3 DEF Jobs
  <2> HIDE DEF new
  <2>5. JobOK(job)'
    BY <1>1, <2>2, <2>4 DEF JobOK
  <2>6. FetchOK'
    BY <1>1, <2>1, <2>2, <2>3, <2>4, <2>5, JobMoves DEF DeltaInv
  <2>7. WebOK' /\ EntryOK'
    BY <1>1, <2>1, <2>2, RowSet, EntrySame DEF DeltaInv
  <2> QED
    BY <1>2, <2>2, <2>6, <2>7 DEF DeltaInv
<1> QED
  BY <1>3, <1>4

LEMMA EmbedKeeps ==
  ASSUME DeltaInv, NEW f \in Fetchers, Embed(f) PROVE DeltaInv'
<1> DEFINE j == fetch[f]
           new == [j EXCEPT !.pc = "points"]
<1>1. /\ j.pc = "embed" /\ Stays /\ UNCHANGED <<server, entry, disk, row, loop>>
      /\ j \in Jobs /\ JobOK(j) /\ j.url \in Documents
  BY Downloading DEF Embed, store, loop, Stays
<1>2. WebOK' /\ LoopOK' /\ EntryOK'
  BY <1>1, EntrySame DEF DeltaInv, WebOK, LoopOK, loop, Stays
<1>3. CASE j.doc \in docs
  <2>1. fetch' = [fetch EXCEPT ![f] = new]
    BY <1>3 DEF Embed, Goto
  <2>2. new \in Jobs
    BY <1>1, Zenon DEF Jobs
  <2>3. PICK job \in Jobs :
      /\ job = new
      /\ job.pc = "points" /\ job.url = j.url /\ job.purged = j.purged /\ job.doc = j.doc
    BY <1>1, <2>2 DEF Jobs
  <2> HIDE DEF new
  <2>4. JobOK(job)'
    BY <1>1, <1>3, <2>3 DEF JobOK, Stays
  <2> QED
    BY <1>1, <1>2, <2>1, <2>2, <2>3, <2>4, StayKeeps
<1>4. CASE j.doc \notin docs
  <2>1. PICK job \in Jobs : fetch' = [fetch EXCEPT ![f] = job] /\ JobOK(job)'
    BY <1>1, <1>4, FailedJob DEF Embed, Stays
  <2> QED
    BY <1>1, <1>2, <2>1, StayKeeps
<1> QED
  BY <1>3, <1>4

LEMMA PointsKeeps ==
  ASSUME DeltaInv, NEW f \in Fetchers, Points(f) PROVE DeltaInv'
<1> DEFINE j == fetch[f]
           new == [j EXCEPT !.pc = "record", !.result = "ingested"]
<1>1. /\ j.pc = "points" /\ UNCHANGED <<server, entry, texts, docs, nextDoc, disk, row, loop, purged>>
      /\ vectors' = vectors \cup {Text(j.doc, j.url, j.version)}
      /\ fetch' = [fetch EXCEPT ![f] = new]
      /\ j \in Jobs /\ JobOK(j) /\ j.url \in Documents
  BY Downloading DEF Points, loop
<1>2. Text(j.doc, j.url, j.version) \in Texts
  BY <1>1 DEF Texts, Text, Jobs
<1>3. StoreOK'
  BY <1>1, <1>2 DEF DeltaInv, StoreOK
<1>4. WebOK' /\ LoopOK' /\ EntryOK'
  BY <1>1, EntrySame DEF DeltaInv, WebOK, LoopOK, loop
<1>5. new \in Jobs
  BY <1>1, Zenon DEF Jobs, Statuses
<1>6. PICK job \in Jobs :
    /\ job = new
    /\ job.pc = "record" /\ job.url = j.url /\ job.purged = j.purged /\ job.doc = j.doc
  BY <1>1, <1>5 DEF Jobs
<1> HIDE DEF new
<1>7. JobOK(job)'
  BY <1>1, <1>6 DEF JobOK
<1>8. docs \subseteq docs' /\ nextDoc <= nextDoc'
  BY <1>1 DEF DeltaInv, StoreOK
<1>9. FetchOK'
  BY <1>1, <1>3, <1>5, <1>6, <1>7, <1>8, JobMoves DEF DeltaInv
<1> QED
  BY <1>3, <1>4, <1>9 DEF DeltaInv

LEMMA FailPipelineKeeps ==
  ASSUME DeltaInv, NEW f \in Fetchers, FailPipeline(f) PROVE DeltaInv'
<1> DEFINE j == fetch[f]
<1>1. /\ j.pc \in {"pipeline", "extract", "embed", "points"} /\ Failed(f)
      /\ UNCHANGED <<server, entry, vectors, disk, loop, purged>>
  BY DEF FailPipeline, loop
<1>2. PICK job \in Jobs : fetch' = [fetch EXCEPT ![f] = job] /\ JobOK(job)'
  BY <1>1, FailedJob
<1>3. LoopOK'
  BY <1>1 DEF DeltaInv, LoopOK, loop
<1>4. WebOK'
  <2>1. CASE UNCHANGED row
    BY <1>1, <2>1 DEF DeltaInv, WebOK
  <2>2. CASE j.pc = "extract" /\ SetRow(f, "failed")
    BY <1>1, <2>2, RowSet
  <2> QED
    BY <2>1, <2>2 DEF FailPipeline
<1>5. CASE UNCHANGED <<texts, docs, nextDoc>>
  <2>1. EntryOK' /\ Stays
    BY <1>1, <1>5, EntrySame DEF DeltaInv, Stays
  <2> QED
    BY <1>2, <1>3, <1>4, <2>1, StayKeeps
<1>6. CASE j.pc = "extract" /\ disk[j.url] # 0 /\ StoreText(f)
  <2>1. StoreOK' /\ docs \subseteq docs' /\ nextDoc <= nextDoc'
    BY <1>1, <1>6, TextStored
  <2>2. FetchOK' /\ EntryOK'
    BY <1>1, <1>2, <2>1, JobMoves, EntrySame DEF DeltaInv
  <2> QED
    BY <1>3, <1>4, <2>1, <2>2 DEF DeltaInv
<1> QED
  BY <1>5, <1>6 DEF FailPipeline

LEMMA RecordKeeps ==
  ASSUME DeltaInv, NEW f \in Fetchers, Record(f) PROVE DeltaInv'
<1> DEFINE j == fetch[f]
           doc == IF j.result = "ingested" THEN j.doc ELSE entry[j.url].doc
<1>1. j.pc = "record" /\ j \in Jobs /\ JobOK(j) /\ j.url \in Urls
      /\ j.result \in Statuses /\ j.doc \in Nat
  BY JobsAre DEF Record, DeltaInv, Jobs
<1>2. /\ SetEntry(f, j.result, doc) /\ disk' = Removed(j.url) /\ Return(f)
      /\ UNCHANGED <<server, texts, docs, vectors, nextDoc, row, loop, purged>>
  BY DEF Record, store, loop
<1>3. /\ doc \in Nat
      /\ HasEntry(f) => doc \in docs' \/ doc = entry[j.url].doc
  BY <1>1, <1>2 DEF DeltaInv, EntryOK, Entries, HasEntry, JobOK
<1> HIDE DEF doc
<1>4. EntryOK'
  BY <1>1, <1>2, <1>3, EntryWritten DEF DeltaInv
<1>5. WebOK' /\ LoopOK'
  BY <1>2, FileRemoved DEF DeltaInv, LoopOK, loop
<1> QED
  BY <1>2, <1>4, <1>5, IdleIs, StayKeeps DEF Stays, Return

LEMMA AbortKeeps ==
  ASSUME DeltaInv, NEW f \in Fetchers, Abort(f) PROVE DeltaInv'
<1>1. EntryOK' /\ WebOK' /\ LoopOK' /\ Stays /\ Return(f)
  BY EntrySame DEF Abort, DeltaInv, WebOK, LoopOK, loop, store, Stays
<1> QED
  BY <1>1, IdleIs, StayKeeps DEF Return

(* The process ends; the purge deletes.                                    *)
LEMMA CrashKeeps == ASSUME DeltaInv, Crash PROVE DeltaInv'
<1>1. FetchOK' /\ EntryOK'
  BY IdleIs, EntrySame DEF Crash, DeltaInv, FetchOK, store
<1> QED
  BY <1>1 DEF Crash, DeltaInv, WebOK, LoopOK, StoreOK, store

LEMMA PurgeKeeps == ASSUME DeltaInv, PurgeVectors \/ PurgeRows PROVE DeltaInv'
<1>1. CASE PurgeVectors
  <2>1. FetchOK' /\ EntryOK'
    BY <1>1, FetchSame, EntrySame DEF PurgeVectors, DeltaInv
  <2>2. vectors' \subseteq Texts
    BY <1>1 DEF PurgeVectors, DeltaInv, StoreOK
  <2> QED
    BY <1>1, <2>1, <2>2 DEF PurgeVectors, DeltaInv, WebOK, LoopOK, StoreOK, loop
<1>2. CASE PurgeRows
  <2>1. /\ texts' = {t \in texts : t.doc \notin purge.docs} /\ docs' = docs \ purge.docs
        /\ entry' = [u \in Urls |-> NoEntry] /\ purged' = purged + 1
        /\ UNCHANGED <<server, vectors, nextDoc, disk, row, fetch, loop>>
    BY <1>2 DEF PurgeRows
  <2>2. StoreOK'
    <3>1. /\ nextDoc' \in Nat \ {0} /\ docs' \subseteq docs /\ purged' \in Nat
          /\ vectors' \subseteq Texts /\ nextDoc' = nextDoc
      BY <2>1 DEF DeltaInv, StoreOK
    <3>3. docs' \subseteq 1 .. nextDoc' - 1
      BY <3>1 DEF DeltaInv, StoreOK
    <3>2. texts' \subseteq Texts /\ \A t \in texts' : t.doc \in docs'
      BY <2>1, Zenon DEF DeltaInv, StoreOK
    <3> QED
      BY <3>1, <3>2, <3>3 DEF StoreOK
  <2>3. NoEntry \in Entries /\ NoEntry.doc = 0
    BY VersionsAre DEF NoEntry, Entries, Statuses
  <2>4. EntryOK'
    BY <2>1, <2>3 DEF EntryOK, EntryHasDocument
  <2>5. ASSUME NEW j \in Jobs, JobOK(j) PROVE JobOK(j)'
    <3>1. purged \in Nat /\ purged' = purged + 1 /\ nextDoc' = nextDoc /\ j.purged \in Nat
      BY <2>1 DEF DeltaInv, StoreOK, Jobs
    <3>2. j.purged # purged' /\ j.purged <= purged'
      BY <2>5, <3>1 DEF JobOK
    <3> QED
      BY <2>5, <3>1, <3>2 DEF JobOK
  <2>6. FetchOK'
    BY <2>1, <2>5, IdleIs DEF DeltaInv, FetchOK
  <2> QED
    BY <2>1, <2>2, <2>4, <2>6 DEF DeltaInv, WebOK, LoopOK, loop
<1> QED
  BY <1>1, <1>2

LEMMA DeltaInit == ASSUME Init PROVE DeltaInv
<1>1. NoEntry \in Entries /\ NoEntry.doc = 0 /\ 1 \in Versions
  BY VersionsAre, ConstantsOK DEF NoEntry, Entries, Statuses, Versions
<1>2. EntryOK /\ FetchOK
  BY <1>1, IdleIs DEF Init, EntryOK, EntryHasDocument, FetchOK
<1>3. WebOK /\ LoopOK /\ StoreOK
  BY <1>1, VersionsAre DEF Init, WebOK, LoopOK, StoreOK, Rows, NoRow
<1> QED
  BY <1>2, <1>3 DEF DeltaInv

LEMMA DeltaNext == ASSUME DeltaInv, [Next]_vars PROVE DeltaInv'
<1>1. CASE UNCHANGED vars
  BY <1>1, AsideKeeps DEF vars, store, loop, Aside, DeltaInv, WebOK, LoopOK
<1>2. CASE Elsewhere
  BY <1>2, ElsewhereKeeps
<1>3. CASE \E u \in Urls : CrawlNext(u) \/ \E f \in Singles : CrawlSingle(f, u)
  BY <1>3, CrawlNextKeeps, CrawlSingleKeeps
<1>4. CASE \E f \in Fetchers : Work(f)
  BY <1>4, EvaluateKeeps, BeginPageKeeps, CommitPageKeeps, UpsertKeeps, PipelineKeeps,
     ExtractKeeps, EmbedKeeps, PointsKeeps, RecordKeeps
  DEF Work
<1>5. CASE \E f \in Fetchers : FailPage(f) \/ FailPipeline(f) \/ Abort(f)
  BY <1>5, FailPageKeeps, FailPipelineKeeps, AbortKeeps
<1>6. CASE Crash \/ PurgeVectors \/ PurgeRows
  BY <1>6, CrashKeeps, PurgeKeeps
<1> QED
  BY <1>1, <1>2, <1>3, <1>4, <1>5, <1>6 DEF Next, Elsewhere

LEMMA Typed == ASSUME DeltaInv PROVE TypeOK /\ EntryHasDocument
BY DEF DeltaInv, WebOK, LoopOK, StoreOK, EntryOK, FetchOK, TypeOK

(* Every variable keeps its type, and every stored text its document.      *)
THEOREM TypeCorrect == Spec => []TypeOK
<1>1. Init => DeltaInv
  BY DeltaInit
<1>2. DeltaInv /\ [Next]_vars => DeltaInv'
  BY DeltaNext
<1>3. DeltaInv => TypeOK
  BY Typed
<1> QED
  BY <1>1, <1>2, <1>3, PTL DEF Spec

(* The document of a manifest entry exists, whatever is purged under a     *)
(* running ingestion and whatever fails.                                   *)
THEOREM EntriesHaveDocuments == Spec => []EntryHasDocument
<1>1. Init => DeltaInv
  BY DeltaInit
<1>2. DeltaInv /\ [Next]_vars => DeltaInv'
  BY DeltaNext
<1>3. DeltaInv => EntryHasDocument
  BY Typed
<1> QED
  BY <1>1, <1>2, <1>3, PTL DEF Spec

-----------------------------------------------------------------------------
(* Until something fails or is purged, a text has its vectors or is the    *)
(* one whose fetcher is about to store them.                               *)
Pending(t) == \E f \in Fetchers :
  /\ fetch[f].pc \in {"upsert", "embed", "points"}
  /\ t = Text(fetch[f].doc, fetch[f].url, fetch[f].version)
Undisturbed == faults = 0 /\ purged = 0 /\ purge.pc \in {"idle", "vectors"}
IndexInv ==
  /\ DeltaInv
  /\ faults \in Nat
  /\ purge \in [pc : {"idle", "vectors", "rows", "files"}, docs : SUBSET Nat]
  /\ purge.pc = "files" => purged # 0
  /\ Undisturbed => \A t \in texts : t \in vectors \/ Pending(t)

(* A step that no text notices.                                            *)
Calm == UNCHANGED <<texts, vectors, fetch, purged>>
LEMMA IndexSame ==
  ASSUME IndexInv, DeltaInv', Calm, UNCHANGED purge,
         faults' = faults \/ faults' = faults + 1
  PROVE  IndexInv'
BY DEF IndexInv, Undisturbed, Pending, Calm

LEMMA IndexElsewhere ==
  ASSUME IndexInv, DeltaInv', Elsewhere \/ UNCHANGED vars PROVE IndexInv'
<1>1. CASE \E u \in Urls : Update(u) \/ GetFails(u)
  BY <1>1, IndexSame DEF Update, GetFails, Fault, store, Calm
<1>2. CASE StartCrawl \/ EndCrawl \/ Stop \/ Sweep \/ UNCHANGED vars
  BY <1>2, IndexSame DEF StartCrawl, EndCrawl, Stop, Sweep, vars, store, counts, Calm
<1>3. CASE StartPurge
  <2>1. /\ Calm /\ UNCHANGED <<faults, docs, nextDoc>>
        /\ purge.pc = "idle" /\ purge' = [pc |-> "vectors", docs |-> docs]
    BY <1>3 DEF StartPurge, store, Calm
  <2>2. docs \in SUBSET Nat
    BY DEF IndexInv, DeltaInv, StoreOK
  <2> QED
    BY <2>1, <2>2 DEF IndexInv, Undisturbed, Pending, Calm
<1>4. CASE PurgeFiles
  <2>1. /\ Calm /\ UNCHANGED faults /\ purge.pc = "files"
        /\ purge' = [pc |-> "idle", docs |-> {}]
    BY <1>4 DEF PurgeFiles, store, counts, Calm
  <2> QED
    BY <2>1 DEF IndexInv, Undisturbed, Calm
<1> QED
  BY <1>1, <1>2, <1>3, <1>4 DEF Elsewhere

(* A step that moves a fetcher which is not about to store vectors, and    *)
(* stores no text.                                                         *)
LEMMA IndexMoves ==
  ASSUME IndexInv, DeltaInv', NEW f \in Fetchers,
         fetch[f].pc \notin {"upsert", "embed", "points"}, NEW new,
         fetch' = [fetch EXCEPT ![f] = new],
         UNCHANGED <<texts, vectors, purged, purge>>, faults' = faults
  PROVE  IndexInv'
<1>1. \A t : Pending(t) => Pending(t)'
  BY DEF Pending, IndexInv, DeltaInv, FetchOK
<1> QED
  BY <1>1 DEF IndexInv, Undisturbed

(* A step that commits a text, for which its fetcher goes on.               *)
LEMMA IndexCommits ==
  ASSUME IndexInv, DeltaInv', NEW f \in Fetchers,
         fetch[f].pc \notin {"upsert", "embed", "points"},
         NEW new \in Jobs, fetch' = [fetch EXCEPT ![f] = new], new.pc \in {"upsert", "embed"},
         texts' \subseteq texts \cup {Text(new.doc, new.url, new.version)},
         UNCHANGED <<vectors, purged, purge, faults>>
  PROVE  IndexInv'
<1> DEFINE text == Text(new.doc, new.url, new.version)
<1>1. \A g \in Fetchers : fetch'[g] = IF g = f THEN new ELSE fetch[g]
  BY DEF IndexInv, DeltaInv, FetchOK
<1>2. \A t : Pending(t) \/ t = text => Pending(t)'
  BY <1>1 DEF Pending
<1> HIDE DEF text
<1> QED
  BY <1>2 DEF IndexInv, Undisturbed, text

(* A step that stores the vectors of a fetcher's text.                     *)
LEMMA IndexStores ==
  ASSUME IndexInv, DeltaInv', NEW f \in Fetchers,
         NEW new, fetch' = [fetch EXCEPT ![f] = new],
         vectors' = vectors \cup {Text(fetch[f].doc, fetch[f].url, fetch[f].version)},
         UNCHANGED <<texts, purged, purge, faults>>
  PROVE  IndexInv'
<1> DEFINE text == Text(fetch[f].doc, fetch[f].url, fetch[f].version)
<1>1. \A t : Pending(t) => t = text \/ Pending(t)'
  BY DEF Pending, IndexInv, DeltaInv, FetchOK
<1> HIDE DEF text
<1>2. vectors' = vectors \cup {text}
  BY DEF text
<1> QED
  BY <1>1, <1>2 DEF IndexInv, Undisturbed

LEMMA IndexEmbed ==
  ASSUME IndexInv, DeltaInv', NEW f \in Fetchers, Embed(f) PROVE IndexInv'
<1> DEFINE j == fetch[f]
           new == [j EXCEPT !.pc = "points"]
<1>1. /\ j.pc = "embed" /\ UNCHANGED <<texts, vectors, purged, purge, faults>>
      /\ j \in Jobs /\ JobOK(j)
  BY Downloading DEF Embed, store, counts, IndexInv
<1>2. CASE j.doc \in docs
  <2>1. fetch' = [fetch EXCEPT ![f] = new]
    BY <1>2 DEF Embed, Goto
  <2>2. new.pc = "points" /\ new.doc = j.doc /\ new.url = j.url /\ new.version = j.version
    BY <1>1 DEF Jobs
  <2> HIDE DEF new
  <2>3. \A g \in Fetchers : fetch'[g] = IF g = f THEN new ELSE fetch[g]
    BY <2>1 DEF IndexInv, DeltaInv, FetchOK
  <2>4. \A t : Pending(t) => Pending(t)'
    BY <2>2, <2>3 DEF Pending
  <2> QED
    BY <1>1, <2>4 DEF IndexInv, Undisturbed
<1>3. CASE j.doc \notin docs
  <2>1. purged # 0
    BY <1>1, <1>3 DEF JobOK, Jobs, IndexInv, DeltaInv, StoreOK
  <2> QED
    BY <1>1, <2>1 DEF IndexInv, Undisturbed
<1> QED
  BY <1>2, <1>3

LEMMA IndexWork ==
  ASSUME IndexInv, DeltaInv', NEW f \in Fetchers, Work(f) PROVE IndexInv'
<1>1. CASE Evaluate(f) \/ BeginPage(f) \/ Pipeline(f) \/ Record(f)
  <2>1. /\ fetch[f].pc \notin {"upsert", "embed", "points"}
        /\ UNCHANGED <<texts, vectors, purged, purge, faults>>
        /\ \E new : fetch' = [fetch EXCEPT ![f] = new]
    BY <1>1 DEF Evaluate, BeginPage, Pipeline, Record, Return, store, counts
  <2> QED
    BY <2>1, IndexMoves
<1>2. CASE CommitPage(f)
  <2>1. /\ fetch[f].pc = "commit" /\ UNCHANGED <<vectors, purged, purge, faults>>
        /\ fetch[f] \in Jobs
    BY <1>2, JobsAre DEF CommitPage, counts, IndexInv, DeltaInv
  <2>2. CASE ~HasEntry(f)
    BY <1>2, <2>1, <2>2, IndexMoves DEF CommitPage, Return
  <2>3. CASE HasEntry(f)
    <3> DEFINE new == [fetch[f] EXCEPT !.pc = "upsert"]
    <3>1. /\ texts' \subseteq texts \cup {Text(fetch[f].doc, fetch[f].url, fetch[f].version)}
          /\ fetch' = [fetch EXCEPT ![f] = new]
      BY <1>2, <2>3 DEF CommitPage, Goto
    <3>2. new \in Jobs
      BY <2>1, Zenon DEF Jobs
    <3>3. /\ new.pc = "upsert" /\ new.doc = fetch[f].doc
          /\ new.url = fetch[f].url /\ new.version = fetch[f].version
      BY <2>1 DEF Jobs
    <3> HIDE DEF new
    <3> QED
      BY <2>1, <3>1, <3>2, <3>3, IndexCommits
  <2> QED
    BY <2>2, <2>3
<1>3. CASE Upsert(f)
  BY <1>3, IndexStores DEF Upsert, Return, counts
<1>4. CASE Extract(f)
  <2> DEFINE u == fetch[f].url
             new == [fetch[f] EXCEPT !.pc = "embed", !.doc = nextDoc, !.version = disk[u]]
  <2>1. /\ fetch[f].pc = "extract" /\ UNCHANGED <<vectors, purged, purge, faults>>
        /\ fetch[f] \in Jobs /\ nextDoc \in Nat
        /\ disk[u] = 0 \/ disk[u] \in Versions
    BY <1>4, Downloading DEF Extract, counts, IndexInv
  <2>2. CASE disk[u] = 0
    BY <1>4, <2>1, <2>2, IndexMoves DEF Extract, Failed
  <2>3. CASE disk[u] # 0
    <3>1. /\ texts' = texts \cup {Text(nextDoc, u, disk[u])}
          /\ fetch' = [fetch EXCEPT ![f] = new]
      BY <1>4, <2>3 DEF Extract, StoreText, NewText
    <3>2. new \in Jobs
      <4>1. disk[u] \in Versions
        BY <2>1, <2>3
      <4> QED
        BY <2>1, <4>1, Zenon DEF Jobs
    <3>3. new.pc = "embed" /\ new.doc = nextDoc /\ new.url = u /\ new.version = disk[u]
      BY <2>1 DEF Jobs
    <3>4. texts' \subseteq texts \cup {Text(new.doc, new.url, new.version)}
      BY <3>1, <3>3
    <3> HIDE DEF new, u
    <3> QED
      BY <2>1, <3>1, <3>2, <3>3, <3>4, IndexCommits
  <2> QED
    BY <2>2, <2>3
<1>5. CASE Embed(f)
  BY <1>5, IndexEmbed
<1>6. CASE Points(f)
  BY <1>6, IndexStores DEF Points, counts
<1> QED
  BY <1>1, <1>2, <1>3, <1>4, <1>5, <1>6 DEF Work

LEMMA IndexGets ==
  ASSUME IndexInv, DeltaInv', NEW u \in Urls,
         CrawlNext(u) \/ \E f \in Singles : CrawlSingle(f, u)
  PROVE  IndexInv'
<1>1. PICK f \in Fetchers, force \in BOOLEAN, auto \in BOOLEAN : Get(f, u, force, auto)
  BY ConstantsOK DEF CrawlNext, CrawlSingle, Fetchers
<1>2. UNCHANGED <<texts, vectors, purged, purge, faults>>
  BY DEF CrawlNext, CrawlSingle, store, counts
<1>3. fetch[f].pc = "idle" /\ (fetch' = fetch \/ \E new : fetch' = [fetch EXCEPT ![f] = new])
  BY <1>1 DEF Get, Busy
<1>4. CASE fetch' = fetch
  BY <1>2, <1>4, IndexSame DEF Calm
<1>5. CASE \E new : fetch' = [fetch EXCEPT ![f] = new]
  BY <1>2, <1>3, <1>5, IndexMoves
<1> QED
  BY <1>3, <1>4, <1>5

LEMMA IndexNext == ASSUME IndexInv, [Next]_vars PROVE IndexInv'
<1>1. DeltaInv'
  BY DeltaNext DEF IndexInv
<1>2. CASE Elsewhere \/ UNCHANGED vars
  BY <1>1, <1>2, IndexElsewhere
<1>3. CASE \E u \in Urls : CrawlNext(u) \/ \E f \in Singles : CrawlSingle(f, u)
  BY <1>1, <1>3, IndexGets
<1>4. CASE \E f \in Fetchers : Work(f)
  BY <1>1, <1>4, IndexWork
<1>5. CASE (\E f \in Fetchers : FailPage(f) \/ FailPipeline(f) \/ Abort(f)) \/ Crash
  <2>1. CASE \E f \in Fetchers : FailPage(f) \/ FailPipeline(f) \/ Abort(f)
    <3>1. faults' = faults + 1 /\ UNCHANGED <<purge, purged>>
      BY <2>1 DEF FailPage, FailPipeline, Abort, Fault
    <3> QED
      BY <1>1, <3>1 DEF IndexInv, Undisturbed
  <2>2. CASE Crash
    <3>1. faults' = faults + 1 /\ purge' = [pc |-> "idle", docs |-> {}]
      BY <2>2 DEF Crash, Fault
    <3> QED
      BY <1>1, <3>1 DEF IndexInv, Undisturbed
  <2> QED
    BY <1>5, <2>1, <2>2
<1>6. CASE PurgeVectors
  <2>1. /\ faults' = faults \/ faults' = faults + 1
        /\ purge' = [purge EXCEPT !.pc = "rows"]
    BY <1>6 DEF PurgeVectors, Fault
  <2> QED
    BY <1>1, <2>1 DEF IndexInv, Undisturbed
<1>7. CASE PurgeRows
  <2>1. UNCHANGED faults /\ purge' = [purge EXCEPT !.pc = "files"] /\ purged' = purged + 1
    BY <1>7 DEF PurgeRows, counts
  <2> QED
    BY <1>1, <2>1 DEF IndexInv, Undisturbed, DeltaInv, StoreOK
<1> QED
  BY <1>2, <1>3, <1>4, <1>5, <1>6, <1>7 DEF Next, Elsewhere

(* Until something fails or is purged, every stored text of a URL for      *)
(* which nothing is under way has its vectors.                             *)
THEOREM TextsAreIndexed == Spec => []TextIsIndexed
<1>1. Init => IndexInv
  <2> SUFFICES ASSUME Init PROVE IndexInv
    OBVIOUS
  <2>1. texts = {} /\ faults = 0 /\ purge = [pc |-> "idle", docs |-> {}]
    BY DEF Init
  <2> QED
    BY <2>1, DeltaInit DEF IndexInv
<1>2. IndexInv /\ [Next]_vars => IndexInv'
  BY IndexNext
<1>3. IndexInv => TextIsIndexed
  <2> SUFFICES ASSUME IndexInv, faults = 0, purged = 0, NEW t \in texts, Quiet(t.url)
               PROVE  t \in vectors
    BY DEF TextIsIndexed
  <2>1. Undisturbed
    BY DEF Undisturbed, Quiet
  <2>2. ~Pending(t)
    BY DEF Pending, Quiet, Busy, Text
  <2> QED
    BY <2>1, <2>2 DEF IndexInv
<1> QED
  BY <1>1, <1>2, <1>3, PTL DEF Spec

-----------------------------------------------------------------------------
(* The crawl alone: nobody crawls a single URL or purges beside it.  Its   *)
(* steps, written out field by field.                                      *)
Alone == {"single", "purge"} \cap Calls = {}
job   == fetch[Crawler]

AloneInv ==
  /\ DeltaInv /\ purge.pc = "idle" /\ purged = 0
  /\ \A f \in Singles : fetch[f].pc = "idle"

(* What the web server does, and what starts and ends a crawl.             *)
Beside == /\ UNCHANGED <<entry, store, row, fetch>>
          /\ job.pc # "idle" /\ "sweep" \notin Calls => UNCHANGED disk

LEMMA AloneSteps ==
  ASSUME Alone, AloneInv, [Next]_vars
  PROVE  \/ Work(Crawler) \/ FailPage(Crawler) \/ FailPipeline(Crawler) \/ Abort(Crawler)
         \/ Crash \/ Beside
         \/ \E u \in Urls : CrawlNext(u)
<1>1. ASSUME NEW f \in Fetchers, Work(f) \/ FailPage(f) \/ FailPipeline(f) \/ Abort(f)
      PROVE  f = Crawler
  <2>1. fetch[f].pc # "idle"
    BY <1>1 DEF Work, Evaluate, BeginPage, CommitPage, Upsert, Pipeline, Extract, Embed,
                Points, Record, FailPage, FailPipeline, Abort
  <2> QED
    BY <2>1 DEF AloneInv, Fetchers
<1>2. CASE (\E u \in Urls : Update(u) \/ GetFails(u)) \/ StartCrawl \/ EndCrawl \/ Stop \/ Sweep
           \/ UNCHANGED vars
  BY <1>2 DEF Update, GetFails, StartCrawl, EndCrawl, Stop, Sweep, vars, Beside, Busy, Call, job
<1>3. ASSUME StartPurge \/ PurgeVectors \/ PurgeRows \/ PurgeFiles
             \/ \E u \in Urls, f \in Singles : CrawlSingle(f, u)
      PROVE  FALSE
  BY <1>3 DEF StartPurge, PurgeVectors, PurgeRows, PurgeFiles, CrawlSingle, Call, Alone, AloneInv
<1> QED
  BY <1>1, <1>2, <1>3 DEF Next

LEMMA AloneNext == ASSUME Alone, AloneInv, [Next]_vars PROVE AloneInv'
<1>0. DeltaInv'
  BY DeltaNext DEF AloneInv
<1>1. ASSUME UNCHANGED <<purge, purged>>, \E new : fetch' = [fetch EXCEPT ![Crawler] = new]
      PROVE  AloneInv'
  BY <1>0, <1>1, ConstantsOK DEF AloneInv, DeltaInv, FetchOK, Fetchers
<1>2. CASE Work(Crawler) \/ FailPage(Crawler) \/ FailPipeline(Crawler) \/ Abort(Crawler)
  BY <1>1, <1>2 DEF Work, Evaluate, BeginPage, CommitPage, Upsert, Pipeline, Extract, Embed,
                    Points, Record, FailPage, FailPipeline, Abort, Return, Goto, Failed
<1>3. CASE Crash
  <2>1. purge' = [pc |-> "idle", docs |-> {}] /\ UNCHANGED purged
        /\ \A f \in Fetchers : fetch'[f] = Idle
    BY <1>3 DEF Crash
  <2> QED
    BY <1>0, <2>1, IdleIs DEF AloneInv, Fetchers
<1>4. ASSUME NEW u \in Urls, CrawlNext(u) PROVE AloneInv'
  <2>1. PICK auto \in BOOLEAN : Get(Crawler, u, FALSE, auto)
    BY <1>4, ConstantsOK DEF CrawlNext
  <2>2. UNCHANGED <<purge, purged>>
    BY <1>4 DEF CrawlNext
  <2>3. CASE UNCHANGED fetch
    BY <1>0, <2>2, <2>3 DEF AloneInv
  <2>4. CASE \E new : fetch' = [fetch EXCEPT ![Crawler] = new]
    BY <1>1, <2>2, <2>4
  <2> QED
    BY <2>1, <2>3, <2>4 DEF Get
<1>5. CASE (\E u \in Urls : Update(u) \/ GetFails(u)) \/ StartCrawl \/ EndCrawl \/ Stop \/ Sweep
           \/ UNCHANGED vars
  BY <1>0, <1>5 DEF Update, GetFails, StartCrawl, EndCrawl, Stop, Sweep, vars, AloneInv
<1>6. ASSUME StartPurge \/ PurgeVectors \/ PurgeRows \/ PurgeFiles
             \/ \E u \in Urls, f \in Singles : CrawlSingle(f, u)
      PROVE  FALSE
  BY <1>6 DEF StartPurge, PurgeVectors, PurgeRows, PurgeFiles, CrawlSingle, Call, Alone, AloneInv
<1>7. ASSUME NEW f \in Fetchers, Work(f) \/ FailPage(f) \/ FailPipeline(f) \/ Abort(f)
      PROVE  f = Crawler
  <2>1. fetch[f].pc # "idle"
    BY <1>7 DEF Work, Evaluate, BeginPage, CommitPage, Upsert, Pipeline, Extract, Embed,
                Points, Record, FailPage, FailPipeline, Abort
  <2> QED
    BY <2>1 DEF AloneInv, Fetchers
<1> QED
  BY <1>2, <1>3, <1>4, <1>5, <1>6, <1>7 DEF Next

(* The document of the entry is left alone, and so is every other entry.   *)
LEMMA EvaluateFacts ==
  ASSUME DeltaInv, NEW f \in Fetchers, Evaluate(f), NEW j, j = fetch[f]
  PROVE  /\ j \in Jobs /\ j.pc = "evaluate" /\ j.url \in Urls
         /\ \A w \in Urls : /\ entry'[w].doc = entry[w].doc
                            /\ w # j.url => entry'[w] = entry[w]
         /\ entry'[j.url].hash = j.version
         /\ UNCHANGED <<texts, docs, nextDoc, row>>
         /\ \/ /\ fetch'[f].pc = IF j.url \in Pages THEN "page" ELSE "pipeline"
               /\ fetch'[f].url = j.url /\ fetch'[f].version = j.version
               /\ fetch'[f].force = j.force /\ fetch'[f].auto = j.auto
               /\ fetch'[f].doc = entry[j.url].doc /\ UNCHANGED disk
            \/ /\ fetch'[f] = Idle
               /\ \/ entry[j.url].hash = j.version \/ ~j.auto
                  \/ j.url \in Pages /\ j.version \in Short
<1>1. j.pc = "evaluate" /\ j \in Jobs /\ j.url \in Urls /\ f \in DOMAIN fetch
  BY JobsAre DEF Evaluate, DeltaInv, Jobs, FetchOK
<1>2. entry[j.url] \in Entries /\ j.url \in DOMAIN entry
  BY <1>1 DEF DeltaInv, EntryOK
<1>3. \/ /\ entry[j.url].hash = j.version
         /\ entry' = [entry EXCEPT ![j.url] = [entry[j.url] EXCEPT !.status = "skipped_unchanged"]]
      \/ \E s : entry' = [entry EXCEPT ![j.url] = [hash |-> j.version, doc |-> entry[j.url].doc,
                                                   status |-> s]]
  BY DEF Evaluate
<1>4. /\ \A w \in Urls : /\ entry'[w].doc = entry[w].doc
                         /\ w # j.url => entry'[w] = entry[w]
      /\ entry'[j.url].hash = j.version
  <2>1. ASSUME NEW new, entry' = [entry EXCEPT ![j.url] = new],
               new.doc = entry[j.url].doc, new.hash = j.version
        PROVE  /\ \A w \in Urls : /\ entry'[w].doc = entry[w].doc
                                  /\ w # j.url => entry'[w] = entry[w]
               /\ entry'[j.url].hash = j.version
    BY <1>2, <2>1 DEF DeltaInv, EntryOK
  <2>2. CASE /\ entry[j.url].hash = j.version
             /\ entry' = [entry EXCEPT ![j.url] =
                                [entry[j.url] EXCEPT !.status = "skipped_unchanged"]]
    <3> DEFINE new == [entry[j.url] EXCEPT !.status = "skipped_unchanged"]
    <3>1. new.doc = entry[j.url].doc /\ new.hash = j.version
      BY <1>2, <2>2 DEF Entries
    <3> QED
      BY <2>1, <2>2, <3>1
  <2>3. CASE \E s : entry' = [entry EXCEPT ![j.url] = [hash |-> j.version,
                                                      doc |-> entry[j.url].doc, status |-> s]]
    <3>1. PICK s : entry' = [entry EXCEPT ![j.url] = [hash |-> j.version,
                                                      doc |-> entry[j.url].doc, status |-> s]]
      BY <2>3
    <3> DEFINE new == [hash |-> j.version, doc |-> entry[j.url].doc, status |-> s]
    <3>2. new.doc = entry[j.url].doc /\ new.hash = j.version /\ entry' = [entry EXCEPT ![j.url] = new]
      BY <3>1
    <3> HIDE DEF new
    <3> QED
      BY <2>1, <3>2
  <2> QED
    BY <1>3, <2>2, <2>3
<1>5. CASE /\ fetch' = [fetch EXCEPT ![f] =
                [@ EXCEPT !.pc = IF j.url \in Pages THEN "page" ELSE "pipeline",
                          !.doc = entry[j.url].doc, !.purged = purged]]
           /\ UNCHANGED disk
  <2>1. fetch'[f] = [j EXCEPT !.pc = IF j.url \in Pages THEN "page" ELSE "pipeline",
                              !.doc = entry[j.url].doc, !.purged = purged]
    BY <1>1, <1>5
  <2>2. /\ fetch'[f].pc = IF j.url \in Pages THEN "page" ELSE "pipeline"
        /\ fetch'[f].url = j.url /\ fetch'[f].version = j.version
        /\ fetch'[f].force = j.force /\ fetch'[f].auto = j.auto
        /\ fetch'[f].doc = entry[j.url].doc
    BY <1>1, <2>1 DEF Jobs
  <2> QED
    BY <1>1, <1>4, <1>5, <2>2 DEF Evaluate, store
<1>6. CASE /\ Return(f)
           /\ \/ entry[j.url].hash = j.version \/ ~j.auto
              \/ j.url \in Pages /\ j.version \in Short
  BY <1>1, <1>4, <1>6 DEF Evaluate, store, Return
<1>7. \/ /\ fetch' = [fetch EXCEPT ![f] =
                [@ EXCEPT !.pc = IF j.url \in Pages THEN "page" ELSE "pipeline",
                          !.doc = entry[j.url].doc, !.purged = purged]]
         /\ UNCHANGED disk
      \/ /\ Return(f)
         /\ \/ entry[j.url].hash = j.version /\ ~j.force
            \/ ~j.auto
            \/ j.url \in Pages /\ j.version \in Short
  BY DEF Evaluate, TooShort
<1> QED
  BY <1>5, <1>6, <1>7

LEMMA BeginFacts ==
  ASSUME DeltaInv, NEW f \in Fetchers, BeginPage(f), NEW j, j = fetch[f]
  PROVE  /\ j \in Jobs /\ j.pc = "page" /\ j.url \in Urls
         /\ UNCHANGED <<texts, docs, disk, row>>
         /\ \A w \in Urls : entry'[w].doc = entry[w].doc /\ entry'[w].hash = entry[w].hash
         /\ \/ fetch'[f] = Idle /\ TooShort(f)
            \/ /\ fetch'[f].pc = "commit" /\ fetch'[f].url = j.url
               /\ fetch'[f].version = j.version
               /\ fetch'[f].force = j.force /\ fetch'[f].auto = j.auto
               /\ \/ /\ j.doc \in docs /\ fetch'[f].doc = j.doc
                     /\ fetch'[f].old = {t \in texts : t.doc = j.doc}
                  \/ j.doc \notin docs /\ fetch'[f].doc = nextDoc /\ fetch'[f].old = {}
<1>1. j.pc = "page" /\ j \in Jobs /\ j.url \in Urls /\ f \in DOMAIN fetch
  BY JobsAre DEF BeginPage, DeltaInv, Jobs, FetchOK
<1>2. entry[j.url] \in Entries /\ j.url \in DOMAIN entry
  BY <1>1 DEF DeltaInv, EntryOK
<1>3. CASE TooShort(f)
  <2>1. Return(f) /\ SetEntry(f, "skipped_empty", entry[j.url].doc)
    BY <1>3 DEF BeginPage
  <2>2. \/ entry' = entry
        \/ entry' = [entry EXCEPT ![j.url] = [entry[j.url] EXCEPT !.status = "skipped_empty",
                                                                  !.doc = entry[j.url].doc]]
    BY <2>1 DEF SetEntry
  <2>3. \A w \in Urls : entry'[w].doc = entry[w].doc /\ entry'[w].hash = entry[w].hash
    <3> DEFINE new == [entry[j.url] EXCEPT !.status = "skipped_empty", !.doc = entry[j.url].doc]
    <3>1. new.doc = entry[j.url].doc /\ new.hash = entry[j.url].hash
      BY <1>2 DEF Entries
    <3>2. entry' = entry \/ entry' = [entry EXCEPT ![j.url] = new]
      BY <2>2
    <3> HIDE DEF new
    <3> QED
      BY <3>1, <3>2 DEF DeltaInv, EntryOK
  <2> QED
    BY <1>1, <1>3, <2>1, <2>3 DEF BeginPage, Return
<1>4. CASE ~TooShort(f)
  <2> DEFINE doc == IF j.doc \in docs THEN j.doc ELSE nextDoc
             old == IF j.doc \in docs THEN {t \in texts : t.doc = j.doc} ELSE {}
  <2>1. /\ fetch' = [fetch EXCEPT ![f] = [j EXCEPT !.pc = "commit", !.doc = doc, !.old = old]]
        /\ UNCHANGED entry
    BY <1>4 DEF BeginPage
  <2> HIDE DEF doc, old
  <2>2. /\ fetch'[f].pc = "commit" /\ fetch'[f].url = j.url
        /\ fetch'[f].version = j.version
        /\ fetch'[f].force = j.force /\ fetch'[f].auto = j.auto
        /\ fetch'[f].doc = doc /\ fetch'[f].old = old
    BY <1>1, <2>1 DEF Jobs
  <2> QED
    BY <1>1, <2>1, <2>2 DEF BeginPage, doc, old
<1> QED
  BY <1>3, <1>4

(* Nothing was purged: the entry that a session has read is there.         *)
LEMMA EntryThere ==
  ASSUME AloneInv, NEW f \in Fetchers, fetch[f].pc # "idle", NEW status, NEW doc
  PROVE  /\ HasEntry(f)
         /\ SetEntry(f, status, doc) =>
              \A w \in Urls : /\ entry'[w].hash = entry[w].hash
                              /\ entry'[w].doc = IF w = fetch[f].url THEN doc ELSE entry[w].doc
<1>1. fetch[f] \in Jobs /\ JobOK(fetch[f]) /\ fetch[f].url \in Urls
  BY JobsAre DEF AloneInv, DeltaInv, Jobs
<1>2. HasEntry(f)
  <2>1. fetch[f].purged \in Nat /\ fetch[f].purged <= 0 /\ purged = 0
    BY <1>1 DEF JobOK, AloneInv, Jobs
  <2> QED
    BY <2>1 DEF HasEntry
<1>3. ASSUME SetEntry(f, status, doc)
      PROVE  \A w \in Urls : /\ entry'[w].hash = entry[w].hash
                             /\ entry'[w].doc = IF w = fetch[f].url THEN doc ELSE entry[w].doc
  <2>1. entry' = [entry EXCEPT ![fetch[f].url] = [@ EXCEPT !.status = status, !.doc = doc]]
    BY <1>2, <1>3 DEF SetEntry
  <2> QED
    BY <1>1, <2>1 DEF AloneInv, DeltaInv, EntryOK, Entries
<1> QED
  BY <1>2, <1>3

LEMMA CommitFacts ==
  ASSUME AloneInv, NEW f \in Fetchers, CommitPage(f), NEW j, j = fetch[f]
  PROVE  /\ j \in Jobs /\ j.pc = "commit" /\ j.url \in Urls /\ j.version \in Versions
         /\ UNCHANGED <<disk, row, nextDoc>>
         /\ texts' = (texts \ j.old) \cup {Text(j.doc, j.url, j.version)}
         /\ docs' = docs \cup {j.doc}
         /\ \A w \in Urls : /\ entry'[w].hash = entry[w].hash
                            /\ entry'[w].doc = IF w = j.url THEN j.doc ELSE entry[w].doc
         /\ fetch'[f].pc = "upsert" /\ fetch'[f].url = j.url /\ fetch'[f].version = j.version
         /\ fetch'[f].force = j.force /\ fetch'[f].auto = j.auto /\ fetch'[f].doc = j.doc
<1>1. /\ j.pc = "commit" /\ j \in Jobs /\ j.url \in Urls /\ j.version \in Versions
      /\ f \in DOMAIN fetch
  BY JobsAre DEF CommitPage, AloneInv, DeltaInv, Jobs, FetchOK
<1>2. HasEntry(f)
  BY <1>1, EntryThere
<1>3. /\ texts' = (texts \ j.old) \cup {Text(j.doc, j.url, j.version)}
      /\ docs' = docs \cup {j.doc} /\ SetEntry(f, "ingested", j.doc) /\ Goto(f, "upsert")
      /\ UNCHANGED <<disk, row, nextDoc>>
  BY <1>2 DEF CommitPage
<1>4. \A w \in Urls : /\ entry'[w].hash = entry[w].hash
                      /\ entry'[w].doc = IF w = j.url THEN j.doc ELSE entry[w].doc
  BY <1>1, <1>3, EntryThere
<1>5. /\ fetch'[f].pc = "upsert" /\ fetch'[f].url = j.url /\ fetch'[f].version = j.version
      /\ fetch'[f].force = j.force /\ fetch'[f].auto = j.auto /\ fetch'[f].doc = j.doc
  BY <1>1, <1>3 DEF Goto, Jobs
<1> QED
  BY <1>1, <1>3, <1>4, <1>5

(* A download that is not processed is in the manifest.                    *)
LEMMA PipelineFacts ==
  ASSUME DeltaInv, NEW f \in Fetchers, Pipeline(f), NEW j, j = fetch[f]
  PROVE  /\ j \in Jobs /\ j.pc = "pipeline" /\ j.url \in Documents
         /\ UNCHANGED <<entry, texts, docs, disk>>
         /\ \A w \in Documents \ {j.url} : row'[w] = row[w]
         /\ fetch'[f].url = j.url /\ fetch'[f].auto = j.auto
         /\ \/ /\ fetch'[f].pc = "extract" /\ fetch'[f].version = disk[j.url]
               /\ row'[j.url] = [hash |-> disk[j.url], status |-> "processing"]
            \/ /\ fetch'[f].pc = "record" /\ fetch'[f].result = "skipped_unchanged"
               /\ \/ /\ Twin(j.url)
                     /\ row'[j.url] = [hash |-> disk[j.url], status |-> "skipped_duplicate"]
                  \/ ~Changed(j.url) /\ row'[j.url] = row[j.url]
<1>1. /\ j.pc = "pipeline" /\ j \in Jobs /\ j.url \in Documents
      /\ f \in DOMAIN fetch /\ DOMAIN row = Documents
      /\ UNCHANGED <<entry, texts, docs, disk>>
  BY JobsAre DEF Pipeline, store, DeltaInv, Jobs, JobOK, FetchOK, WebOK
<1>2. CASE MustProcess(j.url)
  <2>1. /\ row' = [row EXCEPT ![j.url] = [hash |-> disk[j.url], status |-> "processing"]]
        /\ fetch' = [fetch EXCEPT ![f] = [j EXCEPT !.pc = "extract", !.version = disk[j.url]]]
    BY <1>2 DEF Pipeline
  <2>2. /\ fetch'[f].pc = "extract" /\ fetch'[f].version = disk[j.url]
        /\ fetch'[f].url = j.url /\ fetch'[f].auto = j.auto
    BY <1>1, <2>1 DEF Jobs
  <2> QED
    BY <1>1, <2>1, <2>2
<1>3. CASE ~MustProcess(j.url)
  <2>1. /\ \/ /\ Twin(j.url)
              /\ row' = [row EXCEPT ![j.url] =
                           [hash |-> disk[j.url], status |-> "skipped_duplicate"]]
           \/ ~Changed(j.url) /\ row' = row
        /\ fetch' = [fetch EXCEPT ![f] = [j EXCEPT !.pc = "record",
                                                   !.result = "skipped_unchanged"]]
    BY <1>3 DEF Pipeline, MustProcess
  <2>2. /\ fetch'[f].pc = "record" /\ fetch'[f].result = "skipped_unchanged"
        /\ fetch'[f].url = j.url /\ fetch'[f].auto = j.auto
    BY <1>1, <2>1 DEF Jobs
  <2> QED
    BY <1>1, <2>1, <2>2
<1> QED
  BY <1>2, <1>3

(* A failure leaves the text that was committed, if any.                   *)
LEMMA FailedFacts ==
  ASSUME DeltaInv, NEW f \in Fetchers, Failed(f), NEW j, j = fetch[f], j \in Jobs
  PROVE  /\ fetch'[f].pc = "record" /\ fetch'[f].result = "failed"
         /\ fetch'[f].url = j.url /\ fetch'[f].auto = j.auto
BY DEF Failed, Jobs, DeltaInv, FetchOK

LEMMA FailPipelineFacts ==
  ASSUME DeltaInv, NEW f \in Fetchers, FailPipeline(f), NEW j, j = fetch[f]
  PROVE  /\ j.url \in Documents /\ UNCHANGED entry
         /\ fetch'[f].pc = "record" /\ fetch'[f].result = "failed" /\ fetch'[f].url = j.url
         /\ texts' \subseteq texts \cup {Text(nextDoc, j.url, disk[j.url])}
<1>1. /\ j.pc \in {"pipeline", "extract", "embed", "points"} /\ Failed(f) /\ UNCHANGED entry
      /\ texts' \subseteq texts \cup {Text(nextDoc, j.url, disk[j.url])}
  BY DEF FailPipeline, StoreText, NewText
<1> QED
  BY <1>1, Downloading, FailedFacts

LEMMA ExtractFacts ==
  ASSUME DeltaInv, NEW f \in Fetchers, Extract(f), NEW j, j = fetch[f]
  PROVE  /\ j \in Jobs /\ j.pc = "extract" /\ j.url \in Documents
         /\ UNCHANGED <<entry, disk>>
         /\ \A w \in Documents \ {j.url} : row'[w] = row[w]
         /\ fetch'[f].url = j.url /\ fetch'[f].auto = j.auto
         /\ \/ /\ disk[j.url] # 0 /\ texts' = texts \cup {Text(nextDoc, j.url, disk[j.url])}
               /\ fetch'[f].pc = "embed" /\ fetch'[f].doc = nextDoc
               /\ row'[j.url] = [hash |-> j.version, status |-> "done"]
            \/ /\ disk[j.url] = 0 /\ texts' = texts
               /\ fetch'[f].pc = "record" /\ fetch'[f].result = "failed"
<1>1. /\ j.pc = "extract" /\ j \in Jobs /\ j.url \in Documents
      /\ f \in DOMAIN fetch /\ DOMAIN row = Documents
      /\ UNCHANGED <<entry, disk>>
  BY Downloading DEF Extract, DeltaInv, FetchOK, WebOK
<1>2. CASE disk[j.url] = 0
  <2>1. Failed(f) /\ SetRow(f, "failed") /\ texts' = texts
    BY <1>2 DEF Extract
  <2> QED
    BY <1>1, <1>2, <2>1, FailedFacts DEF SetRow
<1>3. CASE disk[j.url] # 0
  <2>1. /\ texts' = texts \cup {Text(nextDoc, j.url, disk[j.url])}
        /\ row' = [row EXCEPT ![j.url] = [hash |-> j.version, status |-> "done"]]
        /\ fetch' = [fetch EXCEPT ![f] =
             [j EXCEPT !.pc = "embed", !.doc = nextDoc, !.version = disk[j.url]]]
    BY <1>3 DEF Extract, StoreText, NewText, SetRow
  <2>2. /\ fetch'[f].pc = "embed" /\ fetch'[f].doc = nextDoc
        /\ fetch'[f].url = j.url /\ fetch'[f].auto = j.auto
    BY <1>1, <2>1 DEF Jobs
  <2> QED
    BY <1>1, <1>3, <2>1, <2>2
<1> QED
  BY <1>2, <1>3

LEMMA EmbedFacts ==
  ASSUME AloneInv, NEW f \in Fetchers, Embed(f) \/ Points(f), NEW j, j = fetch[f]
  PROVE  /\ j \in Jobs /\ j.pc \in {"embed", "points"} /\ j.url \in Documents
         /\ UNCHANGED <<entry, texts, disk, row>>
         /\ fetch'[f].url = j.url /\ fetch'[f].auto = j.auto /\ fetch'[f].doc = j.doc
         /\ \/ fetch'[f].pc = "points"
            \/ fetch'[f].pc = "record" /\ fetch'[f].result = "ingested"
<1>1. /\ j.pc \in {"embed", "points"} /\ j \in Jobs /\ JobOK(j) /\ j.url \in Documents
      /\ f \in DOMAIN fetch /\ UNCHANGED <<entry, texts, disk, row>>
  BY Downloading DEF Embed, Points, store, AloneInv, DeltaInv, FetchOK
<1>2. CASE Embed(f)
  <2>1. j.doc \in docs
    BY <1>1, <1>2 DEF Embed, JobOK, AloneInv, Jobs
  <2>2. fetch' = [fetch EXCEPT ![f] = [j EXCEPT !.pc = "points"]]
    BY <1>2, <2>1 DEF Embed, Goto
  <2>3. /\ fetch'[f].pc = "points"
        /\ fetch'[f].url = j.url /\ fetch'[f].auto = j.auto /\ fetch'[f].doc = j.doc
    BY <1>1, <2>2 DEF Jobs
  <2> QED
    BY <1>1, <2>3
<1>3. CASE Points(f)
  <2>1. fetch' = [fetch EXCEPT ![f] = [j EXCEPT !.pc = "record", !.result = "ingested"]]
    BY <1>3 DEF Points
  <2>2. /\ fetch'[f].pc = "record" /\ fetch'[f].result = "ingested"
        /\ fetch'[f].url = j.url /\ fetch'[f].auto = j.auto /\ fetch'[f].doc = j.doc
    BY <1>1, <2>1 DEF Jobs
  <2> QED
    BY <1>1, <2>2
<1> QED
  BY <1>2, <1>3

LEMMA UpsertFacts ==
  ASSUME AloneInv, NEW f \in Fetchers, Upsert(f)
  PROVE  UNCHANGED <<entry, texts, docs, disk, row>> /\ fetch'[f] = Idle
BY DEF Upsert, Return, AloneInv, DeltaInv, FetchOK

(* A failed page keeps its text, or has lost the one it was to replace.    *)
LEMMA FailPageFacts ==
  ASSUME AloneInv, NEW f \in Fetchers, FailPage(f), NEW j, j = fetch[f]
  PROVE  /\ j \in Jobs /\ j.pc \in {"commit", "upsert"}
         /\ fetch'[f] = Idle
         /\ texts' = IF j.pc = "commit" THEN texts \ j.old ELSE texts
         /\ \A w \in Urls : entry'[w].doc = IF w = j.url THEN j.doc ELSE entry[w].doc
<1>1. /\ j.pc \in {"commit", "upsert"} /\ j \in Jobs /\ f \in DOMAIN fetch
  BY JobsAre DEF FailPage, AloneInv, DeltaInv, FetchOK
<1>2. HasEntry(f)
  BY <1>1, EntryThere
<1>3. /\ texts' = IF j.pc = "commit" THEN texts \ j.old ELSE texts
      /\ SetEntry(f, "failed", j.doc) /\ Return(f)
  BY <1>2 DEF FailPage
<1>4. \A w \in Urls : entry'[w].doc = IF w = j.url THEN j.doc ELSE entry[w].doc
  BY <1>1, <1>3, EntryThere
<1> QED
  BY <1>1, <1>3, <1>4 DEF Return

LEMMA RecordFacts ==
  ASSUME AloneInv, NEW f \in Fetchers, Record(f), NEW j, j = fetch[f]
  PROVE  /\ j \in Jobs /\ j.pc = "record" /\ j.url \in Urls
         /\ UNCHANGED <<texts, docs, row>> /\ fetch'[f] = Idle
         /\ \A w \in Urls :
              /\ entry'[w].hash = entry[w].hash
              /\ entry'[w].doc = IF w = j.url /\ j.result = "ingested" THEN j.doc
                                 ELSE entry[w].doc
<1>1. j.pc = "record" /\ j \in Jobs /\ j.url \in Urls /\ f \in DOMAIN fetch
  BY JobsAre DEF Record, AloneInv, DeltaInv, Jobs, FetchOK
<1>2. /\ UNCHANGED <<texts, docs, row>> /\ fetch'[f] = Idle
  BY <1>1 DEF Record, store, Return
<1>3. SetEntry(f, j.result, IF j.result = "ingested" THEN j.doc ELSE entry[j.url].doc)
  BY DEF Record
<1>4. \A w \in Urls :
        /\ entry'[w].hash = entry[w].hash
        /\ entry'[w].doc = IF w = j.url
                           THEN IF j.result = "ingested" THEN j.doc ELSE entry[j.url].doc
                           ELSE entry[w].doc
  BY <1>1, <1>3, EntryThere
<1> QED
  BY <1>1, <1>2, <1>4

(* The crawler takes up a URL, or learns that it has not changed.          *)
LEMMA TakenUp ==
  ASSUME DeltaInv, NEW u \in Urls, CrawlNext(u)
  PROVE  /\ UNCHANGED <<entry, texts, docs, row>> /\ job.pc = "idle"
         /\ \/ UNCHANGED <<fetch, disk>>
            \/ /\ job'.pc = "evaluate" /\ job'.url = u /\ job'.version = server[u]
               /\ ~job'.force /\ job'.auto \in AutoIngest
               /\ u \in Documents => disk'[u] = server[u]
               /\ job'.result = "none"
<1>1. PICK auto \in AutoIngest : Get(Crawler, u, FALSE, auto)
  BY DEF CrawlNext
<1>2. CASE UNCHANGED <<fetch, disk>>
  BY <1>1, <1>2 DEF CrawlNext, store, Get, Busy, job
<1>3. CASE /\ fetch' = [fetch EXCEPT ![Crawler] =
                [pc |-> "evaluate", url |-> u, version |-> server[u], force |-> FALSE,
                 auto |-> auto, doc |-> 0, old |-> {}, purged |-> purged, result |-> "none"]]
           /\ disk' = IF u \in Documents THEN [disk EXCEPT ![u] = server[u]] ELSE disk
  BY <1>1, <1>3 DEF CrawlNext, store, Get, Busy, job, DeltaInv, FetchOK, Fetchers, WebOK
<1> QED
  BY <1>1, <1>2, <1>3 DEF Get

-----------------------------------------------------------------------------
(* One text per page.  A page is replaced under the document of its entry: *)
(* the text that the transaction deletes is the only one there is.         *)
TextOfEntry == \A t \in texts : t.url \in Pages => t.doc = entry[t.url].doc
OneText     == \A s, t \in texts : s.url \in Pages /\ s.url = t.url => s = t
PageJob ==
  /\ job.pc \in {"page", "commit", "upsert"} => job.url \in Pages
  /\ job.pc = "page" => job.doc = entry[job.url].doc
  /\ job.pc = "commit" => \A t \in texts : t.url = job.url => t \in job.old
  /\ job.pc = "upsert" => job.doc = entry[job.url].doc
PageInv == AloneInv /\ TextOfEntry /\ OneText /\ PageJob

LEMMA TextsAre == ASSUME DeltaInv, NEW t \in texts PROVE t \in Texts /\ t.url \in Urls /\ t.doc \in docs
BY DEF DeltaInv, StoreOK, Texts

LEMMA UrlsAre == Pages \subseteq Urls /\ Documents \subseteq Urls /\ Pages \cap Documents = {}
BY ConstantsOK DEF Urls

(* A step that writes neither texts nor the documents of the entries.      *)
LEMMA PageSame ==
  ASSUME PageInv, UNCHANGED texts, \A w \in Urls : entry'[w].doc = entry[w].doc
  PROVE  TextOfEntry' /\ OneText'
BY TextsAre DEF PageInv, AloneInv, TextOfEntry, OneText

LEMMA PageEvaluate == ASSUME PageInv, Evaluate(Crawler) PROVE TextOfEntry' /\ OneText' /\ PageJob'
<1>1. DeltaInv /\ Crawler \in Fetchers
  BY DEF PageInv, AloneInv, Fetchers
<1>2. PICK j : j = job
  OBVIOUS
<1>3. /\ j.url \in Urls /\ UNCHANGED texts
      /\ \A w \in Urls : entry'[w].doc = entry[w].doc
      /\ \/ job'.pc = "idle"
         \/ /\ job'.pc = (IF j.url \in Pages THEN "page" ELSE "pipeline")
            /\ job'.url = j.url /\ job'.doc = entry[j.url].doc
  BY <1>1, <1>2, EvaluateFacts, IdleIs DEF job
<1> QED
  BY <1>3, PageSame DEF PageJob

LEMMA PageBegin == ASSUME PageInv, BeginPage(Crawler) PROVE TextOfEntry' /\ OneText' /\ PageJob'
<1>1. DeltaInv /\ Crawler \in Fetchers
  BY DEF PageInv, AloneInv, Fetchers
<1>2. PICK j : j = job
  OBVIOUS
<1>3. /\ j.url \in Urls /\ UNCHANGED texts /\ j.pc = "page"
      /\ \A w \in Urls : entry'[w].doc = entry[w].doc
      /\ \/ job'.pc = "idle"
         \/ /\ job'.pc = "commit" /\ job'.url = j.url
            /\ \/ j.doc \in docs /\ job'.old = {t \in texts : t.doc = j.doc}
               \/ j.doc \notin docs
  BY <1>1, <1>2, BeginFacts, IdleIs DEF job
<1>4. j.url \in Pages /\ j.doc = entry[j.url].doc
  BY <1>2, <1>3 DEF PageInv, PageJob
<1>5. \A t \in texts : t.url = j.url => t.doc = j.doc /\ t.doc \in docs
  BY <1>1, <1>4, TextsAre DEF PageInv, TextOfEntry
<1> QED
  BY <1>3, <1>4, <1>5, PageSame DEF PageJob

LEMMA PageCommit == ASSUME PageInv, CommitPage(Crawler) PROVE TextOfEntry' /\ OneText' /\ PageJob'
<1>1. AloneInv /\ DeltaInv /\ Crawler \in Fetchers
  BY DEF PageInv, AloneInv, Fetchers
<1>2. PICK j : j = job
  OBVIOUS
<1>3. PICK new : new = Text(j.doc, j.url, j.version)
  OBVIOUS
<1>4. /\ j.url \in Urls /\ j.pc = "commit" /\ texts' = (texts \ j.old) \cup {new}
      /\ \A w \in Urls : entry'[w].doc = IF w = j.url THEN j.doc ELSE entry[w].doc
      /\ job'.pc = "upsert" /\ job'.url = j.url /\ job'.doc = j.doc
  BY <1>1, <1>2, <1>3, CommitFacts DEF job
<1>5. new.url = j.url /\ new.doc = j.doc
  BY <1>3 DEF Text
<1>6. j.url \in Pages /\ \A t \in texts \ j.old : t.url # j.url
  BY <1>2, <1>4 DEF PageInv, PageJob
<1>7. TextOfEntry'
  BY <1>1, <1>4, <1>5, <1>6, TextsAre DEF PageInv, TextOfEntry
<1>8. OneText'
  BY <1>4, <1>5, <1>6 DEF PageInv, OneText
<1>9. PageJob'
  BY <1>4, <1>6 DEF PageJob
<1> QED
  BY <1>7, <1>8, <1>9

LEMMA PageFail == ASSUME PageInv, FailPage(Crawler) PROVE TextOfEntry' /\ OneText' /\ PageJob'
<1>1. AloneInv /\ DeltaInv /\ Crawler \in Fetchers
  BY DEF PageInv, AloneInv, Fetchers
<1>2. PICK j : j = job
  OBVIOUS
<1>3. /\ j.pc \in {"commit", "upsert"} /\ job'.pc = "idle"
      /\ texts' = IF j.pc = "commit" THEN texts \ j.old ELSE texts
      /\ \A w \in Urls : entry'[w].doc = IF w = j.url THEN j.doc ELSE entry[w].doc
  BY <1>1, <1>2, FailPageFacts, IdleIs DEF job
<1>4. \A t \in texts' : t \in texts /\ (t.url = j.url => t.doc = j.doc \/ t.url \notin Pages)
  BY <1>2, <1>3 DEF PageInv, PageJob, TextOfEntry
<1>5. TextOfEntry'
  BY <1>1, <1>3, <1>4, TextsAre DEF PageInv, TextOfEntry
<1> QED
  BY <1>3, <1>4, <1>5 DEF PageInv, OneText, PageJob

LEMMA PagePipeline ==
  ASSUME PageInv, \/ Pipeline(Crawler) \/ Extract(Crawler) \/ Embed(Crawler) \/ Points(Crawler)
                  \/ FailPipeline(Crawler)
  PROVE  TextOfEntry' /\ OneText' /\ PageJob'
<1>1. AloneInv /\ DeltaInv /\ Crawler \in Fetchers
  BY DEF PageInv, AloneInv, Fetchers
<1>2. PICK j : j = job
  OBVIOUS
<1>3. PICK new : new = Text(nextDoc, j.url, disk[j.url])
  OBVIOUS
<1>4. /\ j.url \in Documents /\ UNCHANGED entry
      /\ job'.pc \in {"extract", "embed", "points", "record"} /\ job'.url = j.url
      /\ texts' \subseteq texts \cup {new}
  <2>1. CASE Pipeline(Crawler)
    BY <1>1, <1>2, <2>1, PipelineFacts DEF job
  <2>2. CASE Extract(Crawler)
    BY <1>1, <1>2, <1>3, <2>2, ExtractFacts DEF job
  <2>3. CASE Embed(Crawler) \/ Points(Crawler)
    BY <1>1, <1>2, <2>3, EmbedFacts DEF job
  <2>4. CASE FailPipeline(Crawler)
    BY <1>1, <1>2, <1>3, <2>4, FailPipelineFacts DEF job
  <2> QED
    BY <2>1, <2>2, <2>3, <2>4
<1>5. new.url = j.url /\ j.url \notin Pages
  BY <1>3, <1>4, UrlsAre DEF Text
<1> QED
  BY <1>4, <1>5 DEF PageInv, TextOfEntry, OneText, PageJob

LEMMA PageRecord == ASSUME PageInv, Record(Crawler) PROVE TextOfEntry' /\ OneText' /\ PageJob'
<1>1. AloneInv /\ DeltaInv /\ Crawler \in Fetchers
  BY DEF PageInv, AloneInv, Fetchers
<1>2. PICK j : j = job
  OBVIOUS
<1>3. /\ j.pc = "record" /\ job'.pc = "idle" /\ UNCHANGED texts
      /\ \A w \in Urls \ {j.url} : entry'[w].doc = entry[w].doc
  BY <1>1, <1>2, RecordFacts, IdleIs DEF job
<1>4. j.url \notin Pages
  BY <1>1, <1>2, <1>3, JobsAre, UrlsAre DEF DeltaInv, JobOK, job
<1> QED
  BY <1>1, <1>3, <1>4, TextsAre DEF PageInv, TextOfEntry, OneText, PageJob

LEMMA PageNext == ASSUME Alone, PageInv, [Next]_vars PROVE PageInv'
<1>1. AloneInv' /\ AloneInv /\ DeltaInv /\ Crawler \in Fetchers
  BY AloneNext DEF PageInv, AloneInv, Fetchers
<1>2. CASE Evaluate(Crawler)
  BY <1>1, <1>2, PageEvaluate DEF PageInv
<1>3. CASE BeginPage(Crawler)
  BY <1>1, <1>3, PageBegin DEF PageInv
<1>4. CASE CommitPage(Crawler)
  BY <1>1, <1>4, PageCommit DEF PageInv
<1>5. CASE FailPage(Crawler)
  BY <1>1, <1>5, PageFail DEF PageInv
<1>6. CASE \/ Pipeline(Crawler) \/ Extract(Crawler) \/ Embed(Crawler) \/ Points(Crawler)
           \/ FailPipeline(Crawler)
  BY <1>1, <1>6, PagePipeline DEF PageInv
<1>7. CASE Record(Crawler)
  BY <1>1, <1>7, PageRecord DEF PageInv
<1>8. CASE Upsert(Crawler) \/ Abort(Crawler) \/ Crash
  <2>1. UNCHANGED <<entry, texts>> /\ job'.pc = "idle"
    BY <1>1, <1>8, UpsertFacts, IdleIs DEF Abort, Crash, Return, store, job, DeltaInv, FetchOK
  <2> QED
    BY <1>1, <2>1, PageSame DEF PageInv, PageJob
<1>9. CASE Beside
  BY <1>1, <1>9 DEF PageInv, TextOfEntry, OneText, PageJob, Beside, store, job
<1>10. ASSUME NEW u \in Urls, CrawlNext(u) PROVE PageInv'
  <2>1. UNCHANGED <<entry, texts>> /\ (UNCHANGED fetch \/ job'.pc = "evaluate")
    BY <1>1, <1>10, TakenUp
  <2> QED
    BY <1>1, <2>1 DEF PageInv, TextOfEntry, OneText, PageJob, job
<1> QED
  BY <1>1, <1>2, <1>3, <1>4, <1>5, <1>6, <1>7, <1>8, <1>9, <1>10, AloneSteps DEF Work

LEMMA AloneInit == Init => AloneInv /\ texts = {} /\ job = Idle
<1> SUFFICES ASSUME Init PROVE AloneInv /\ texts = {} /\ job = Idle
  OBVIOUS
<1>1. DeltaInv
  BY DeltaInit
<1>2. purge = [pc |-> "idle", docs |-> {}] /\ purged = 0 /\ texts = {}
      /\ \A f \in Fetchers : fetch[f] = Idle
  BY DEF Init
<1>3. \A f \in Fetchers : fetch[f].pc = "idle"
  BY <1>2, IdleIs
<1> QED
  BY <1>1, <1>2, <1>3 DEF AloneInv, Fetchers, job

(* Of two texts of a page there is none.                                   *)
LEMMA OneIsFew ==
  ASSUME OneText, NEW p \in Pages PROVE Cardinality({t \in texts : t.url = p}) <= 1
<1> DEFINE S == {t \in texts : t.url = p}
<1>1. CASE S = {}
  BY <1>1, FS_EmptySet
<1>2. CASE S # {}
  <2>1. PICK s \in S : TRUE
    BY <1>2
  <2>2. S = {s}
    BY <2>1 DEF OneText
  <2> QED
    BY <2>2, FS_Singleton
<1> QED
  BY <1>1, <1>2

(* However often a page changes, and whatever fails in between, a crawl    *)
(* that no other request and no purge runs into keeps one text of it       *)
(* (ingest_web_page): the new chunks and the deletion of the old ones are  *)
(* one transaction.                                                        *)
THEOREM PagesAreReplaced == ASSUME Alone PROVE Spec => []PageHasOneText
<1>1. Init => PageInv
  BY AloneInit, IdleIs DEF PageInv, TextOfEntry, OneText, PageJob
<1>2. PageInv /\ [Next]_vars => PageInv'
  BY PageNext
<1>3. PageInv => PageHasOneText
  BY OneIsFew DEF PageInv, PageHasOneText
<1> QED
  BY <1>1, <1>2, <1>3, PTL DEF Spec

-----------------------------------------------------------------------------
(* What the manifest has seen is stored, as long as nothing fails between  *)
(* the commit of the hash and the end of the ingestion, and nothing sweeps *)
(* the downloads away.  Every document belongs to one URL, so that no      *)
(* ingestion deletes the text of another.                                  *)
Steady == /\ Alone /\ "sweep" \notin Calls
          /\ Faults \subseteq {"network"} /\ AutoIngest \subseteq {TRUE}

OwnText(u, doc) == /\ \A t \in texts : t.doc = doc => t.url = u
                   /\ \A w \in Urls \ {u} : entry[w].doc # doc
Owned == \A u \in Urls : entry[u].doc # 0 => OwnText(u, entry[u].doc)
Own == job.pc \in {"embed", "points"} \/ (job.pc = "record" /\ job.result = "ingested")
JobOwns ==
  /\ job.pc = "commit" => OwnText(job.url, job.doc) /\ \A t \in job.old : t.url = job.url
  /\ Own => OwnText(job.url, job.doc)
JobSees ==
  /\ job.pc \in {"evaluate", "pipeline", "extract"} /\ job.url \in Documents
       => disk[job.url] = job.version
  /\ job.pc # "idle" => job.auto
  /\ job.pc \in {"page", "commit", "pipeline", "extract"} => entry[job.url].hash = job.version

Unfinished(u) == job.pc \in {"page", "commit", "pipeline", "extract"} /\ job.url = u
Unread(u)     == u \in Pages /\ entry[u].hash \in Short
Seen      == \A u \in Urls : entry[u].hash = 0 \/ Unread(u) \/ Unfinished(u)
                             \/ Stored(u, entry[u].hash)
RowStored == \A d \in Documents :
  \/ row[d] = NoRow
  \/ row[d].status = "processing" /\ job.pc = "extract" /\ job.url = d
  \/ row[d].status \in {"done", "skipped_duplicate"} /\ Stored(d, row[d].hash)

StoredInv == PageInv /\ Owned /\ JobOwns /\ JobSees /\ Seen /\ RowStored

LEMMA StoredStays ==
  ASSUME NEW u, NEW v, Stored(u, v), \A t \in texts : Alike(u, t.url) => t \in texts'
  PROVE  Stored(u, v)'
BY DEF Stored

(* A document that nobody has had yet.                                     *)
LEMMA Fresh ==
  ASSUME DeltaInv
  PROVE  /\ \A t \in texts : t.doc # nextDoc
         /\ \A u \in Urls : entry[u].doc # nextDoc
<1>1. nextDoc \in Nat \ {0} /\ docs \subseteq 1 .. nextDoc - 1
  BY DEF DeltaInv, StoreOK
<1> QED
  BY <1>1, TextsAre DEF DeltaInv, EntryOK, EntryHasDocument

LEMMA StoredEvaluate ==
  ASSUME StoredInv, Evaluate(Crawler)
  PROVE  Owned' /\ JobOwns' /\ JobSees' /\ Seen' /\ RowStored'
<1>1. DeltaInv /\ Crawler \in Fetchers
  BY DEF StoredInv, PageInv, AloneInv, Fetchers
<1>2. PICK j : j = job
  OBVIOUS
<1>3. /\ j.url \in Urls /\ UNCHANGED <<texts, row>> /\ j.pc = "evaluate"
      /\ \A w \in Urls : /\ entry'[w].doc = entry[w].doc
                         /\ w # j.url => entry'[w] = entry[w]
      /\ entry'[j.url].hash = j.version
      /\ \/ /\ job'.pc = (IF j.url \in Pages THEN "page" ELSE "pipeline")
            /\ job'.url = j.url /\ job'.version = j.version /\ job'.auto = j.auto
            /\ UNCHANGED disk
         \/ /\ job'.pc = "idle"
            /\ \/ entry[j.url].hash = j.version \/ ~j.auto
               \/ j.url \in Pages /\ j.version \in Short
  BY <1>1, <1>2, EvaluateFacts, IdleIs DEF job
<1>4. j.auto /\ (j.url \in Documents => disk[j.url] = j.version)
  BY <1>2, <1>3 DEF StoredInv, JobSees
<1>5. Owned'
  BY <1>3 DEF StoredInv, Owned, OwnText
<1>6. JobOwns'
  BY <1>3 DEF JobOwns, Own
<1>7. JobSees'
  BY <1>3, <1>4 DEF JobSees
<1>8. Seen'
  <2> SUFFICES ASSUME NEW u \in Urls, entry'[u].hash # 0, ~Unread(u)', ~Unfinished(u)'
               PROVE  Stored(u, entry[u].hash)'
    BY DEF Seen
  <2>1. ~Unfinished(u)
    BY <1>2, <1>3 DEF Unfinished
  <2>2. CASE u # j.url
    <3>1. entry'[u] = entry[u] /\ ~Unread(u)
      BY <1>3, <2>2 DEF Unread
    <3> QED
      BY <1>3, <2>1, <3>1 DEF StoredInv, Seen, Stored
  <2>3. CASE u = j.url
    <3>1. job'.pc = "idle"
      BY <1>3, <2>3 DEF Unfinished
    <3>2. entry[u].hash = j.version /\ entry'[u].hash = j.version /\ ~Unread(u)
      BY <1>3, <1>4, <2>3, <3>1 DEF Unread
    <3> QED
      BY <1>3, <2>1, <3>2 DEF StoredInv, Seen, Stored
  <2> QED
    BY <2>2, <2>3
<1>9. RowStored'
  BY <1>2, <1>3 DEF StoredInv, RowStored, Stored
<1> QED
  BY <1>5, <1>6, <1>7, <1>8, <1>9

LEMMA StoredBegin ==
  ASSUME StoredInv, BeginPage(Crawler)
  PROVE  Owned' /\ JobOwns' /\ JobSees' /\ Seen' /\ RowStored'
<1>1. DeltaInv /\ Crawler \in Fetchers
  BY DEF StoredInv, PageInv, AloneInv, Fetchers
<1>2. PICK j : j = job
  OBVIOUS
<1>3. /\ j.url \in Urls /\ UNCHANGED <<texts, row>> /\ j.pc = "page"
      /\ \A w \in Urls : entry'[w].doc = entry[w].doc /\ entry'[w].hash = entry[w].hash
      /\ \/ job'.pc = "idle" /\ TooShort(Crawler)
         \/ /\ job'.pc = "commit" /\ job'.url = j.url
            /\ job'.version = j.version /\ job'.auto = j.auto
            /\ \/ /\ j.doc \in docs /\ job'.doc = j.doc
                  /\ job'.old = {t \in texts : t.doc = j.doc}
               \/ job'.doc = nextDoc /\ job'.old = {}
  BY <1>1, <1>2, BeginFacts, IdleIs DEF job
<1>4. j.auto /\ entry[j.url].hash = j.version /\ j.doc = entry[j.url].doc
  BY <1>2, <1>3 DEF StoredInv, JobSees, PageInv, PageJob
<1>5. Owned'
  BY <1>3 DEF StoredInv, Owned, OwnText
<1>6. JobOwns'
  <2>1. CASE job'.pc = "idle"
    BY <2>1 DEF JobOwns, Own
  <2>2. CASE /\ job'.pc = "commit" /\ job'.url = j.url
             /\ j.doc \in docs /\ job'.doc = j.doc
             /\ job'.old = {t \in texts : t.doc = j.doc}
    <3>1. OwnText(j.url, j.doc)
      <4>1. j.doc # 0
        BY <1>1, <2>2 DEF DeltaInv, StoreOK
      <4> QED
        BY <1>3, <1>4, <4>1 DEF StoredInv, Owned
    <3>2. OwnText(j.url, j.doc)'
      BY <1>2, <1>3, <3>1 DEF OwnText
    <3> QED
      BY <1>3, <2>2, <3>1, <3>2 DEF JobOwns, Own, OwnText
  <2>3. CASE /\ job'.pc = "commit" /\ job'.url = j.url
             /\ job'.doc = nextDoc /\ job'.old = {}
    BY <1>1, <1>3, <2>3, Fresh DEF JobOwns, Own, OwnText
  <2> QED
    BY <1>3, <2>1, <2>2, <2>3
<1>7. JobSees'
  BY <1>3, <1>4 DEF JobSees
<1>8. Seen'
  <2> SUFFICES ASSUME NEW u \in Urls, entry'[u].hash # 0, ~Unread(u)', ~Unfinished(u)'
               PROVE  Stored(u, entry[u].hash)'
    BY DEF Seen
  <2>1. entry'[u].hash = entry[u].hash /\ ~Unread(u)
    BY <1>3 DEF Unread
  <2>2. ~Unfinished(u)
    <3>1. CASE u = j.url
      <4>1. TooShort(Crawler)
        BY <1>3, <3>1 DEF Unfinished
      <4> QED
        BY <1>2, <1>4, <2>1, <3>1, <4>1 DEF TooShort, Unread, job
    <3> QED
      BY <1>2, <3>1 DEF Unfinished
  <2> QED
    BY <1>3, <2>1, <2>2 DEF StoredInv, Seen, Stored
<1>9. RowStored'
  BY <1>2, <1>3 DEF StoredInv, RowStored, Stored
<1> QED
  BY <1>5, <1>6, <1>7, <1>8, <1>9

LEMMA StoredCommit ==
  ASSUME StoredInv, CommitPage(Crawler)
  PROVE  Owned' /\ JobOwns' /\ JobSees' /\ Seen' /\ RowStored'
<1>1. AloneInv /\ Crawler \in Fetchers
  BY DEF StoredInv, PageInv, AloneInv, Fetchers
<1>2. PICK j : j = job
  OBVIOUS
<1>3. PICK new : new = Text(j.doc, j.url, j.version)
  OBVIOUS
<1>4. /\ j.url \in Urls /\ j.pc = "commit" /\ texts' = (texts \ j.old) \cup {new}
      /\ \A w \in Urls : /\ entry'[w].hash = entry[w].hash
                         /\ entry'[w].doc = IF w = j.url THEN j.doc ELSE entry[w].doc
      /\ job'.pc = "upsert" /\ job'.url = j.url /\ job'.auto = j.auto
      /\ UNCHANGED row
  BY <1>1, <1>2, <1>3, CommitFacts DEF job
<1>5. new.url = j.url /\ new.doc = j.doc /\ new.version = j.version
  BY <1>3 DEF Text
<1>6. /\ \A t \in texts : t.doc = j.doc => t.url = j.url
      /\ \A w \in Urls \ {j.url} : entry[w].doc # j.doc
      /\ \A t \in j.old : t.url = j.url
      /\ j.auto /\ entry[j.url].hash = j.version /\ j.url \in Pages
  BY <1>2, <1>4 DEF StoredInv, JobOwns, OwnText, JobSees, PageInv, PageJob
<1>7. Owned'
  <2> SUFFICES ASSUME NEW u \in Urls, entry'[u].doc # 0
               PROVE  /\ \A t \in texts' : t.doc = entry'[u].doc => t.url = u
                      /\ \A w \in Urls \ {u} : entry'[w].doc # entry'[u].doc
    BY DEF Owned, OwnText
  <2>1. CASE u = j.url
    BY <1>4, <1>5, <1>6, <2>1
  <2>2. CASE u # j.url
    <3>1. entry'[u].doc = entry[u].doc /\ entry[u].doc # j.doc
      BY <1>4, <1>6, <2>2
    <3>2. OwnText(u, entry[u].doc)
      BY <3>1 DEF StoredInv, Owned
    <3> QED
      BY <1>4, <1>5, <3>1, <3>2 DEF OwnText
  <2> QED
    BY <2>1, <2>2
<1>8. JobOwns' /\ JobSees'
  BY <1>4, <1>6 DEF JobOwns, Own, JobSees
<1>9. \A u : u # j.url => \A t \in texts : Alike(u, t.url) => t \in texts'
  BY <1>4, <1>6, UrlsAre DEF Alike
<1>10. Seen'
  <2> SUFFICES ASSUME NEW u \in Urls, entry'[u].hash # 0, ~Unread(u)'
               PROVE  Stored(u, entry[u].hash)'
    BY DEF Seen
  <2>1. CASE u = j.url
    BY <1>4, <1>5, <1>6, <2>1 DEF Stored, Alike
  <2>2. CASE u # j.url
    <3>1. Stored(u, entry[u].hash)
      BY <1>2, <1>4, <2>2 DEF StoredInv, Seen, Unfinished, Unread
    <3>2. Stored(u, entry[u].hash)'
      <4>1. PICK t \in texts : Alike(u, t.url) /\ t.version = entry[u].hash
        BY <3>1 DEF Stored
      <4> QED
        BY <1>4, <1>9, <2>2, <4>1 DEF Stored
    <3> QED
      BY <3>2
  <2> QED
    BY <2>1, <2>2
<1>11. RowStored'
  <2>1. \A d \in Documents : \A v : Stored(d, v) => Stored(d, v)'
    BY <1>6, <1>9, UrlsAre DEF Stored
  <2> QED
    BY <1>2, <1>4, <2>1 DEF StoredInv, RowStored
<1> QED
  BY <1>7, <1>8, <1>10, <1>11

(* A download that is skipped is stored, as its own text or another's.     *)
LEMMA StoredPipeline ==
  ASSUME StoredInv, Pipeline(Crawler)
  PROVE  Owned' /\ JobOwns' /\ JobSees' /\ Seen' /\ RowStored'
<1>1. DeltaInv /\ Crawler \in Fetchers
  BY DEF StoredInv, PageInv, AloneInv, Fetchers
<1>2. PICK j : j = job
  OBVIOUS
<1>3. /\ j \in Jobs /\ j.pc = "pipeline" /\ j.url \in Documents
      /\ UNCHANGED <<entry, texts, disk>>
      /\ \A w \in Documents \ {j.url} : row'[w] = row[w]
      /\ job'.url = j.url /\ job'.auto = j.auto
      /\ \/ /\ job'.pc = "extract" /\ job'.version = disk[j.url]
            /\ row'[j.url] = [hash |-> disk[j.url], status |-> "processing"]
         \/ /\ job'.pc = "record" /\ job'.result = "skipped_unchanged"
            /\ \/ /\ Twin(j.url)
                  /\ row'[j.url] = [hash |-> disk[j.url], status |-> "skipped_duplicate"]
               \/ ~Changed(j.url) /\ row'[j.url] = row[j.url]
  BY <1>1, <1>2, PipelineFacts DEF job
<1>4. /\ disk[j.url] = j.version /\ entry[j.url].hash = j.version /\ j.version # 0
      /\ j.auto /\ j.url \in Urls
  BY <1>2, <1>3, VersionsAre, UrlsAre DEF StoredInv, JobSees, Jobs
<1>5. Owned' /\ JobOwns'
  BY <1>3 DEF StoredInv, Owned, OwnText, JobOwns, Own
<1>6. JobSees'
  BY <1>3, <1>4 DEF JobSees
<1>7. ASSUME job'.pc = "record" PROVE Stored(j.url, disk[j.url]) /\ row'[j.url] # NoRow
      /\ row'[j.url].status \in {"done", "skipped_duplicate"} /\ row'[j.url].hash = disk[j.url]
  <2>1. CASE /\ Twin(j.url)
             /\ row'[j.url] = [hash |-> disk[j.url], status |-> "skipped_duplicate"]
    <3>1. PICK d \in Documents \ {j.url} : row[d] = [hash |-> disk[j.url], status |-> "done"]
      BY <2>1 DEF Twin
    <3>2. Stored(d, disk[j.url])
      BY <3>1 DEF StoredInv, RowStored, NoRow
    <3> QED
      BY <1>3, <2>1, <3>2, UrlsAre DEF Stored, Alike, NoRow
  <2>2. CASE ~Changed(j.url) /\ row'[j.url] = row[j.url]
    <3>1. row[j.url].status \in {"done", "skipped_duplicate"} \/ row[j.url] = NoRow
      BY <1>2, <1>3 DEF StoredInv, RowStored
    <3>2. row[j.url] # NoRow /\ row[j.url].hash = disk[j.url]
      BY <1>4, <2>2, <3>1 DEF Changed, NoRow
    <3> QED
      BY <1>2, <1>3, <2>2, <3>1, <3>2 DEF StoredInv, RowStored
  <2> QED
    BY <1>3, <1>7, <2>1, <2>2
<1>8. Seen'
  <2> SUFFICES ASSUME NEW u \in Urls, entry'[u].hash # 0, ~Unread(u)', ~Unfinished(u)'
               PROVE  Stored(u, entry[u].hash)'
    BY DEF Seen
  <2>1. CASE u = j.url
    <3>1. job'.pc = "record"
      BY <1>3, <2>1 DEF Unfinished
    <3> QED
      BY <1>3, <1>4, <1>7, <2>1, <3>1 DEF Stored
  <2>2. CASE u # j.url
    <3>1. Stored(u, entry[u].hash)
      BY <1>2, <1>3, <2>2 DEF StoredInv, Seen, Unread, Unfinished
    <3> QED
      BY <1>3, <3>1 DEF Stored
  <2> QED
    BY <2>1, <2>2
<1>9. RowStored'
  <2> SUFFICES ASSUME NEW d \in Documents
               PROVE  \/ row'[d] = NoRow
                      \/ row'[d].status = "processing" /\ job'.pc = "extract" /\ job'.url = d
                      \/ /\ row'[d].status \in {"done", "skipped_duplicate"}
                         /\ Stored(d, row[d].hash)'
    BY DEF RowStored
  <2>1. CASE d = j.url
    BY <1>3, <1>7, <2>1 DEF Stored
  <2>2. CASE d # j.url
    <3>1. row'[d] = row[d]
      BY <1>3, <2>2
    <3> QED
      BY <1>2, <1>3, <3>1 DEF StoredInv, RowStored, Stored
  <2> QED
    BY <2>1, <2>2
<1> QED
  BY <1>5, <1>6, <1>8, <1>9

LEMMA StoredExtract ==
  ASSUME StoredInv, Extract(Crawler)
  PROVE  Owned' /\ JobOwns' /\ JobSees' /\ Seen' /\ RowStored'
<1>1. DeltaInv /\ Crawler \in Fetchers
  BY DEF StoredInv, PageInv, AloneInv, Fetchers
<1>2. PICK j : j = job
  OBVIOUS
<1>3. PICK new : new = Text(nextDoc, j.url, disk[j.url])
  OBVIOUS
<1>4. /\ j \in Jobs /\ j.pc = "extract" /\ j.url \in Documents
      /\ j.url \in Urls /\ j.version # 0
  <2>1. j \in Jobs /\ j.pc = "extract" /\ j.url \in Documents
    BY <1>1, <1>2, ExtractFacts DEF job
  <2> QED
    BY <2>1, VersionsAre, UrlsAre DEF Jobs
<1>5. disk[j.url] = j.version /\ entry[j.url].hash = j.version /\ j.auto
  BY <1>2, <1>4 DEF StoredInv, JobSees
<1>6. /\ UNCHANGED entry
      /\ \A w \in Documents \ {j.url} : row'[w] = row[w]
      /\ job'.url = j.url /\ job'.auto = j.auto
      /\ texts' = texts \cup {new} /\ job'.pc = "embed" /\ job'.doc = nextDoc
      /\ row'[j.url] = [hash |-> j.version, status |-> "done"]
  BY <1>1, <1>2, <1>3, <1>4, <1>5, ExtractFacts DEF job
<1>7. new.url = j.url /\ new.doc = nextDoc /\ new.version = j.version
  BY <1>3, <1>5 DEF Text
<1>8. \A t \in texts' : t \in texts \/ (t.doc = nextDoc /\ t.url = j.url)
  BY <1>6, <1>7
<1>9. \A u \in Urls : entry'[u].doc # nextDoc
  BY <1>1, <1>6, Fresh
<1>10. Owned'
  BY <1>6, <1>8, <1>9 DEF StoredInv, Owned, OwnText
<1>11. JobOwns'
  BY <1>1, <1>6, <1>8, <1>9, Fresh DEF JobOwns, Own, OwnText
<1>12. JobSees'
  BY <1>5, <1>6 DEF JobSees
<1>13. Stored(j.url, j.version)'
  BY <1>6, <1>7 DEF Stored, Alike
<1>14. \A u, v : Stored(u, v) => Stored(u, v)'
  BY <1>6 DEF Stored
<1>15. Seen'
  <2> SUFFICES ASSUME NEW u \in Urls, entry'[u].hash # 0, ~Unread(u)'
               PROVE  Stored(u, entry[u].hash)'
    BY DEF Seen
  <2>1. CASE u = j.url
    BY <1>5, <1>6, <1>13, <2>1 DEF Stored
  <2>2. CASE u # j.url
    <3>1. Stored(u, entry[u].hash)
      BY <1>2, <1>6, <2>2 DEF StoredInv, Seen, Unread, Unfinished
    <3> QED
      BY <1>6, <3>1 DEF Stored
  <2> QED
    BY <2>1, <2>2
<1>16. RowStored'
  <2> SUFFICES ASSUME NEW d \in Documents
               PROVE  \/ row'[d] = NoRow
                      \/ /\ row'[d].status \in {"done", "skipped_duplicate"}
                         /\ Stored(d, row[d].hash)'
    BY DEF RowStored
  <2>1. CASE d = j.url
    BY <1>6, <1>13, <2>1 DEF Stored
  <2>2. CASE d # j.url
    <3>1. row'[d] = row[d]
      BY <1>6, <2>2
    <3> QED
      BY <1>2, <1>6, <2>2, <3>1 DEF StoredInv, RowStored, Stored
  <2> QED
    BY <2>1, <2>2
<1> QED
  BY <1>10, <1>11, <1>12, <1>15, <1>16

LEMMA StoredEmbed ==
  ASSUME StoredInv, Embed(Crawler) \/ Points(Crawler)
  PROVE  Owned' /\ JobOwns' /\ JobSees' /\ Seen' /\ RowStored'
<1>1. AloneInv /\ Crawler \in Fetchers
  BY DEF StoredInv, PageInv, AloneInv, Fetchers
<1>2. PICK j : j = job
  OBVIOUS
<1>3. /\ j.pc \in {"embed", "points"} /\ UNCHANGED <<entry, texts, disk, row>>
      /\ job'.url = j.url /\ job'.auto = j.auto /\ job'.doc = j.doc
      /\ \/ job'.pc = "points"
         \/ job'.pc = "record" /\ job'.result = "ingested"
  BY <1>1, <1>2, EmbedFacts DEF job
<1>4. OwnText(j.url, j.doc) /\ j.auto
  BY <1>2, <1>3 DEF StoredInv, JobOwns, Own, JobSees
<1>5. Owned' /\ JobOwns'
  BY <1>3, <1>4 DEF StoredInv, Owned, OwnText, JobOwns, Own
<1>6. JobSees' /\ Seen' /\ RowStored'
  BY <1>2, <1>3, <1>4
  DEF StoredInv, JobSees, Seen, Unread, Unfinished, RowStored, Stored
<1> QED
  BY <1>5, <1>6

LEMMA StoredRecord ==
  ASSUME StoredInv, Record(Crawler)
  PROVE  Owned' /\ JobOwns' /\ JobSees' /\ Seen' /\ RowStored'
<1>1. AloneInv /\ Crawler \in Fetchers
  BY DEF StoredInv, PageInv, AloneInv, Fetchers
<1>2. PICK j : j = job
  OBVIOUS
<1>3. /\ j.url \in Urls /\ j.pc = "record" /\ job'.pc = "idle" /\ UNCHANGED <<texts, row>>
      /\ \A w \in Urls : /\ entry'[w].hash = entry[w].hash
                         /\ entry'[w].doc = IF w = j.url /\ j.result = "ingested" THEN j.doc
                                            ELSE entry[w].doc
  BY <1>1, <1>2, RecordFacts, IdleIs DEF job
<1>4. j.result = "ingested" =>
        /\ \A t \in texts : t.doc = j.doc => t.url = j.url
        /\ \A w \in Urls \ {j.url} : entry[w].doc # j.doc
  BY <1>2, <1>3 DEF StoredInv, JobOwns, Own, OwnText
<1>5. Owned'
  <2> SUFFICES ASSUME NEW u \in Urls, entry'[u].doc # 0
               PROVE  /\ \A t \in texts : t.doc = entry'[u].doc => t.url = u
                      /\ \A w \in Urls \ {u} : entry'[w].doc # entry'[u].doc
    BY <1>3 DEF Owned, OwnText
  <2>1. CASE u = j.url /\ j.result = "ingested"
    BY <1>3, <1>4, <2>1
  <2>2. CASE ~(u = j.url /\ j.result = "ingested")
    <3>1. entry'[u].doc = entry[u].doc
      BY <1>3, <2>2
    <3>2. OwnText(u, entry[u].doc)
      BY <3>1 DEF StoredInv, Owned
    <3> QED
      BY <1>3, <1>4, <2>2, <3>1, <3>2 DEF OwnText
  <2> QED
    BY <2>1, <2>2
<1>6. JobOwns' /\ JobSees'
  BY <1>3 DEF JobOwns, Own, JobSees
<1>7. Seen'
  BY <1>2, <1>3 DEF StoredInv, Seen, Unfinished, Unread, Stored
<1>8. RowStored'
  BY <1>2, <1>3 DEF StoredInv, RowStored, Stored
<1> QED
  BY <1>5, <1>6, <1>7, <1>8

(* Steps that leave the manifest and the texts alone.                      *)
LEMMA StoredSame ==
  ASSUME StoredInv, UNCHANGED <<entry, texts, row>>,
         \/ UNCHANGED job /\ (job.pc # "idle" => UNCHANGED disk)
         \/ job.pc \in {"idle", "upsert"} /\ job'.pc = "idle"
         \/ /\ job.pc = "idle" /\ job'.pc = "evaluate" /\ job'.auto
            /\ job'.url \in Documents => disk'[job'.url] = job'.version
  PROVE  Owned' /\ JobOwns' /\ JobSees' /\ Seen' /\ RowStored'
<1>1. Owned' /\ RowStored'
  BY DEF StoredInv, Owned, OwnText, RowStored, Stored
<1>2. JobOwns' /\ JobSees'
  BY DEF StoredInv, JobOwns, Own, OwnText, JobSees
<1>3. Seen'
  BY DEF StoredInv, Seen, Unread, Unfinished, Stored
<1> QED
  BY <1>1, <1>2, <1>3

LEMMA StoredNext == ASSUME Steady, StoredInv, [Next]_vars PROVE StoredInv'
<1>1. Alone /\ PageInv /\ AloneInv /\ DeltaInv /\ PageInv' /\ Crawler \in Fetchers
  BY PageNext DEF StoredInv, Steady, PageInv, AloneInv, Fetchers
<1>2. CASE Evaluate(Crawler)
  BY <1>1, <1>2, StoredEvaluate DEF StoredInv
<1>3. CASE BeginPage(Crawler)
  BY <1>1, <1>3, StoredBegin DEF StoredInv
<1>4. CASE CommitPage(Crawler)
  BY <1>1, <1>4, StoredCommit DEF StoredInv
<1>5. CASE Pipeline(Crawler) \/ Extract(Crawler) \/ Embed(Crawler) \/ Points(Crawler)
  BY <1>1, <1>5, StoredPipeline, StoredExtract, StoredEmbed DEF StoredInv
<1>6. CASE Record(Crawler)
  BY <1>1, <1>6, StoredRecord DEF StoredInv
<1>7. CASE Upsert(Crawler)
  <2>1. UNCHANGED <<entry, texts, row>> /\ job.pc = "upsert" /\ job'.pc = "idle"
    BY <1>1, <1>7, UpsertFacts, IdleIs DEF Upsert, job
  <2> QED
    BY <1>1, <2>1, StoredSame DEF StoredInv
<1>8. CASE Beside
  <2>1. /\ UNCHANGED <<entry, texts, row>> /\ UNCHANGED job
        /\ job.pc # "idle" => UNCHANGED disk
    BY <1>8 DEF Beside, store, job, Steady
  <2> QED
    BY <1>1, <2>1, StoredSame DEF StoredInv
<1>9. ASSUME NEW u \in Urls, CrawlNext(u) PROVE StoredInv'
  <2>1. /\ UNCHANGED <<entry, texts, row>> /\ job.pc = "idle"
        /\ \/ UNCHANGED job /\ UNCHANGED disk
           \/ /\ job'.pc = "evaluate" /\ job'.auto
              /\ job'.url \in Documents => disk'[job'.url] = job'.version
    BY <1>1, <1>9, TakenUp DEF job, Steady
  <2> QED
    BY <1>1, <2>1, StoredSame DEF StoredInv
<1>10. ~(FailPage(Crawler) \/ FailPipeline(Crawler) \/ Abort(Crawler) \/ Crash)
  BY DEF FailPage, FailPipeline, Abort, Crash, Fault, Steady
<1> QED
  BY <1>1, <1>2, <1>3, <1>4, <1>5, <1>6, <1>7, <1>8, <1>9, <1>10, AloneSteps DEF Work

(* The manifest commits a hash before the content is ingested: as long as  *)
(* nothing but requests fails, what it says it has seen is stored once     *)
(* nothing is under way for the URL, and the next crawl is right to skip   *)
(* an unchanged URL (evaluate_change).                                     *)
THEOREM SeenIsStored == ASSUME Steady PROVE Spec => []EntryIsStored
<1>1. Init => StoredInv
  <2> SUFFICES ASSUME Init PROVE StoredInv
    OBVIOUS
  <2>1. AloneInv /\ texts = {} /\ job.pc = "idle"
    BY AloneInit, IdleIs
  <2>2. /\ \A u \in Urls : entry[u].hash = 0 /\ entry[u].doc = 0
        /\ \A d \in Documents : row[d] = NoRow
    BY DEF Init, NoEntry
  <2> QED
    BY <2>1, <2>2 DEF StoredInv, PageInv, TextOfEntry, OneText, PageJob, Owned, JobOwns, Own,
                      JobSees, Seen, RowStored
<1>2. StoredInv /\ [Next]_vars => StoredInv'
  BY StoredNext
<1>3. StoredInv => EntryIsStored
  <2> SUFFICES ASSUME StoredInv, NEW u \in Urls, Quiet(u), entry[u].hash # 0, ~Unread(u)
               PROVE  Stored(u, entry[u].hash)
    BY DEF EntryIsStored, Unread
  <2>1. ~Unfinished(u)
    BY DEF Unfinished, Quiet, Busy, job, Fetchers
  <2> QED
    BY <2>1 DEF StoredInv, Seen
<1> QED
  BY <1>1, <1>2, <1>3, PTL DEF Spec
=============================================================================
