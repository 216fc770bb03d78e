------------------------------ MODULE Bm25Index ------------------------------
(***************************************************************************)
(* The in-memory keyword index of the API server (api/rag/bm25_index.py)   *)
(* and everything that changes it: add_chunks (crawler, API ingestion),    *)
(* the rebuild of the streaming ingestion (admin_governance.py), the       *)
(* rebuild after a purge of the scraped data (routers/scraper.py) and      *)
(* reload_from_db (crawler, migration, notice scout).                      *)
(*                                                                         *)
(* The index is two objects: the corpus (a list of chunks) and the BM25    *)
(* model, whose i-th score belongs to the i-th chunk of the list the model *)
(* was built from.  Writers hold an RLock, searches and the streaming      *)
(* ingestion do not.  A chunk is its identifier, a number that stands for  *)
(* a random GUID; the model is the list of chunks it was built from, the   *)
(* empty one standing for None.                                            *)
(***************************************************************************)
EXTENDS Naturals, Sequences, FiniteSets, Subsequence

CONSTANTS
  Threads,    \* threads of the API server
  Chunks,     \* chunk identifiers, ordered like the GUIDs
  Scraped,    \* the chunks of the university portal; the others are course material
  MaxChunks,  \* MAX_BM25_CHUNKS
  Calls,      \* the calls that may happen
  MaxCalls,   \* bound on the number of calls other than searches
  None        \* nobody holds the lock

ASSUME ConstantsOK ==
  /\ Chunks \subseteq Nat /\ IsFiniteSet(Chunks) /\ Scraped \subseteq Chunks
  /\ MaxChunks \in Nat \ {0} /\ MaxCalls \in Nat
  /\ Calls \subseteq {"search", "add", "stream", "purge", "reload", "commit", "delete"}
  /\ None \notin Threads

VARIABLES
  rows,     \* the chunks in the database
  born,     \* the chunk identifiers used so far
  indexed,  \* the chunks whose ingestion has handed them to this index
  corpus,   \* self.corpus
  model,    \* self.bm25
  lock,     \* the holder of _load_lock
  thread,   \* what each thread is doing
  calls     \* calls so far

vars == <<rows, born, indexed, corpus, model, lock, thread, calls>>

Kinds == {"search", "add", "stream", "purge", "reload"}
Pcs   == {"idle", "ensure", "load", "install", "model", "check", "score", "collect",
          "add", "extend", "submit", "build", "snapshot", "reset"}
Lists == Seq(Chunks)

(* live: the thread holds a reference to the list that is self.corpus now; *)
(* list: the list it holds otherwise, or the scores of its search.         *)
Jobs == [pc : Pcs, kind : Kinds, chunk : Chunks \cup {0}, live : BOOLEAN,
         list : Lists, idx : Nat]
Job(pc, kind, chunk) == [pc |-> pc, kind |-> kind, chunk |-> chunk, live |-> FALSE,
                         list |-> <<>>, idx |-> 0]
Idle    == Job("idle", "search", 0)
Busy(t) == thread[t].pc # "idle"

Begins(s, l) == Len(s) <= Len(l) /\ \A i \in 1 .. Len(s) : s[i] = l[i]

Elems(s)  == {s[i] : i \in 1 .. Len(s)}
Last(s)   == SubSeq(s, IF Len(s) > MaxChunks THEN Len(s) - MaxChunks + 1 ELSE 1, Len(s))

(* SELECT ... ORDER BY c.id DESC LIMIT MAX_BM25_CHUNKS                     *)
Listings(S) ==
  LET n == IF Cardinality(S) < MaxChunks THEN Cardinality(S) ELSE MaxChunks
  IN  {s \in [1 .. n -> S] :
         /\ \A i, j \in 1 .. n : i < j => s[i] > s[j]
         /\ \A i \in 1 .. n, c \in S : c > s[i] => c \in Elems(s)}

Loaded == model # <<>> /\ corpus # <<>>

(* The lifespan of the server loads the index before it takes requests,    *)
(* and goes on without it when the database cannot be read.                *)
Init ==
  /\ rows \in SUBSET Chunks /\ born = rows /\ indexed = rows
  /\ corpus \in Listings(rows) \cup {<<>>} /\ model = corpus
  /\ lock = None
  /\ thread = [t \in Threads |-> Idle]
  /\ calls = 0

-----------------------------------------------------------------------------
Call(name) == name \in Calls /\ calls < MaxCalls /\ calls' = calls + 1

Goto(t, pc) == thread' = [thread EXCEPT ![t] = [@ EXCEPT !.pc = pc]]
Return(t)   == thread' = [thread EXCEPT ![t] = Idle]

(* self.corpus is assigned: the threads that hold the former list keep it. *)
Frozen == [u \in Threads |->
             IF thread[u].live THEN [thread[u] EXCEPT !.live = FALSE, !.list = corpus]
             ELSE thread[u]]
Assign(t, list, job) ==
  /\ corpus' = list
  /\ thread' = [Frozen EXCEPT ![t] = job]

(* What a thread does after ensure_loaded or build_index.                  *)
After(t) == IF thread[t].kind = "search" THEN [Idle EXCEPT !.pc = "check"] ELSE Idle

(* The document of an ingestion is indexed once its rebuild is done.       *)
HandAny(t) == indexed' = indexed \cup {thread[t].chunk}
Hand(t) == indexed' = IF thread[t].kind \in {"add", "stream"}
                      THEN indexed \cup {thread[t].chunk} ELSE indexed

-----------------------------------------------------------------------------
(* The callers.                                                            *)

StartSearch(t) ==
  /\ "search" \in Calls /\ ~Busy(t)
  /\ thread' = [thread EXCEPT ![t] = Job("ensure", "search", 0)]
  /\ UNCHANGED <<rows, born, indexed, corpus, model, lock, calls>>

(* A pipeline of this process has committed the chunk of a document.       *)
StartIngest(t, kind) ==
  /\ Call(kind) /\ ~Busy(t)
  /\ \E c \in Chunks \ born :
       /\ rows' = rows \cup {c} /\ born' = born \cup {c}
       /\ thread' = [thread EXCEPT ![t] =
                       Job(IF kind = "add" THEN "add" ELSE "extend", kind, c)]
  /\ UNCHANGED <<indexed, corpus, model, lock>>

(* purge_scraped_rag_data has deleted the scraped chunks.                  *)
StartPurge(t) ==
  /\ Call("purge") /\ ~Busy(t)
  /\ rows' = rows \ Scraped
  /\ thread' = [thread EXCEPT ![t] = Job("snapshot", "purge", 0)]
  /\ UNCHANGED <<born, indexed, corpus, model, lock>>

StartReload(t) ==
  /\ Call("reload") /\ ~Busy(t)
  /\ thread' = [thread EXCEPT ![t] = Job("reset", "reload", 0)]
  /\ UNCHANGED <<rows, born, indexed, corpus, model, lock>>

(* A Celery worker commits a chunk: it adds it to its own process's index. *)
Commit ==
  /\ Call("commit")
  /\ \E c \in Chunks \ born : rows' = rows \cup {c} /\ born' = born \cup {c}
  /\ UNCHANGED <<indexed, corpus, model, lock, thread>>

(* delete_document_cascade: no call of the index.                          *)
Delete ==
  /\ Call("delete")
  /\ \E c \in rows : rows' = rows \ {c}
  /\ UNCHANGED <<born, indexed, corpus, model, lock, thread>>

-----------------------------------------------------------------------------
(* The index.                                                              *)

(* reload_from_db: the lock is given back before ensure_loaded takes it.   *)
ResetCorpusOnly(t) ==
  /\ thread[t].pc = "reset" /\ lock = None
  /\ Assign(t, <<>>, [thread[t] EXCEPT !.pc = "ensure"])
  /\ UNCHANGED <<rows, born, indexed, model, lock, calls>>
Reset(t) ==
  /\ thread[t].pc = "reset" /\ lock = None
  /\ Assign(t, <<>>, [thread[t] EXCEPT !.pc = "ensure"])
  /\ model' = <<>>
  /\ UNCHANGED <<rows, born, indexed, lock, calls>>

(* ensure_loaded, before the lock.                                         *)
Ensure(t) ==
  /\ thread[t].pc = "ensure"
  /\ IF Loaded THEN thread' = [thread EXCEPT ![t] = After(t)] ELSE Goto(t, "load")
  /\ UNCHANGED <<rows, born, indexed, corpus, model, lock, calls>>

(* ensure_loaded under the lock, up to build_index.  An error of the       *)
(* database is passed over, and nothing is loaded.                         *)
LoadUnlocked(t) ==
  /\ thread[t].pc = "load"
  /\ \E list \in Listings(rows) :
       thread' = [thread EXCEPT ![t] = [@ EXCEPT !.pc = "install", !.list = list]]
  /\ UNCHANGED <<rows, born, indexed, corpus, model, lock, calls>>
Load(t) ==
  /\ thread[t].pc = "load" /\ lock = None
  /\ \/ thread' = [thread EXCEPT ![t] = After(t)] /\ UNCHANGED lock
     \/ /\ ~Loaded /\ rows # {} /\ lock' = t
        /\ \E list \in Listings(rows) :
             thread' = [thread EXCEPT ![t] = [@ EXCEPT !.pc = "install", !.list = list]]
  /\ UNCHANGED <<rows, born, indexed, corpus, model, calls>>

(* build_index takes the lock and copies the list it was given.            *)
Build(t) ==
  /\ thread[t].pc = "build" /\ lock = None
  /\ lock' = t
  /\ thread' = [thread EXCEPT ![t] =
                  [@ EXCEPT !.pc = "install", !.live = FALSE,
                            !.list = Last(IF thread[t].live THEN corpus ELSE thread[t].list)]]
  /\ UNCHANGED <<rows, born, indexed, corpus, model, calls>>

(* build_index assigns the corpus, then tokenizes it and builds the model. *)
Install(t) ==
  /\ thread[t].pc = "install"
  /\ Assign(t, thread[t].list, [thread[t] EXCEPT !.pc = "model"])
  /\ UNCHANGED <<rows, born, indexed, model, lock, calls>>
ModelKeepsLock(t) ==
  /\ thread[t].pc = "model"
  /\ model' = thread[t].list
  /\ thread' = [thread EXCEPT ![t] = After(t)]
  /\ Hand(t)
  /\ UNCHANGED <<rows, born, corpus, lock, calls>>
Model(t) ==
  /\ thread[t].pc = "model"
  /\ model' = thread[t].list
  /\ lock' = None
  /\ thread' = [thread EXCEPT ![t] = After(t)]
  /\ Hand(t)
  /\ UNCHANGED <<rows, born, corpus, calls>>

(* add_chunks appends in place; over the limit it assigns a shorter list.  *)
AddFirst(t) ==
  /\ thread[t].pc = "add" /\ lock = None
  /\ Assign(t, <<thread[t].chunk>> \o corpus, Idle)
  /\ Hand(t)
  /\ UNCHANGED <<rows, born, model, lock, calls>>
Add(t) ==
  /\ thread[t].pc = "add" /\ lock = None
  /\ LET longer == Append(corpus, thread[t].chunk)
     IN  IF Len(longer) <= MaxChunks
         THEN corpus' = longer /\ Return(t)
         ELSE /\ corpus' = Last(longer)
              /\ thread' = [u \in Threads |->
                   IF u = t THEN Idle
                   ELSE IF thread[u].live
                        THEN [thread[u] EXCEPT !.live = FALSE, !.list = longer]
                        ELSE thread[u]]
  /\ Hand(t)
  /\ UNCHANGED <<rows, born, model, lock, calls>>

(* The streaming ingestion: bm25_index.corpus.extend without the lock,     *)
(* then build_index of bm25_index.corpus in a thread.                      *)
Extend(t) ==
  /\ thread[t].pc = "extend"
  /\ corpus' = Append(corpus, thread[t].chunk)
  /\ Goto(t, "submit")
  /\ UNCHANGED <<rows, born, indexed, model, lock, calls>>
Submit(t) ==
  /\ thread[t].pc = "submit"
  /\ thread' = [thread EXCEPT ![t] = [@ EXCEPT !.pc = "build", !.live = TRUE]]
  /\ UNCHANGED <<rows, born, indexed, corpus, model, lock, calls>>

(* The purge: a filtered copy of the corpus, without the lock.             *)
Snapshot(t) ==
  /\ thread[t].pc = "snapshot"
  /\ thread' = [thread EXCEPT ![t] =
       [@ EXCEPT !.pc = "build",
                 !.list = Picked(corpus, {i \in DOMAIN corpus : corpus[i] \notin Scraped})]]
  /\ UNCHANGED <<rows, born, indexed, corpus, model, lock, calls>>

(* search_sparse: two looks at the attributes, then the scores of the      *)
(* model, then one look at self.corpus for each score.                     *)
Check(t) ==
  /\ thread[t].pc = "check"
  /\ IF Loaded THEN Goto(t, "score") ELSE Return(t)
  /\ UNCHANGED <<rows, born, indexed, corpus, model, lock, calls>>
Score(t) ==
  /\ thread[t].pc = "score"
  /\ IF model = <<>> THEN Return(t)                     \* AttributeError
     ELSE thread' = [thread EXCEPT ![t] =
                       [@ EXCEPT !.pc = "collect", !.list = model, !.idx = 1]]
  /\ UNCHANGED <<rows, born, indexed, corpus, model, lock, calls>>
Collect(t) ==
  /\ thread[t].pc = "collect"
  /\ LET i == thread[t].idx
     IN  IF i > Len(thread[t].list) \/ i > Len(corpus)  \* the end, or IndexError
         THEN Return(t)
         ELSE thread' = [thread EXCEPT ![t] = [@ EXCEPT !.idx = i + 1]]
  /\ UNCHANGED <<rows, born, indexed, corpus, model, lock, calls>>

Step(t) == \/ Reset(t) \/ Ensure(t) \/ Load(t) \/ Build(t) \/ Install(t) \/ Model(t)
           \/ Add(t) \/ Extend(t) \/ Submit(t) \/ Snapshot(t)
           \/ Check(t) \/ Score(t) \/ Collect(t)

Next == \/ Commit \/ Delete
        \/ \E t \in Threads : \/ Step(t) \/ StartSearch(t) \/ StartPurge(t) \/ StartReload(t)
                              \/ \E kind \in {"add", "stream"} : StartIngest(t, kind)

Spec == Init /\ [][Next]_vars

(* A running thread goes on, and gets the lock when it stays free.         *)
FairSpec == Spec /\ \A t \in Threads : WF_vars(Step(t))

-----------------------------------------------------------------------------
(* Properties.                                                             *)

(* Every variable keeps its type: in particular the lists hold chunks.     *)
TypeOK ==
  /\ rows \subseteq born /\ born \subseteq Chunks /\ indexed \subseteq born
  /\ corpus \in Lists /\ model \in Lists
  /\ lock \in Threads \cup {None}
  /\ thread \in [Threads -> Jobs]
  /\ calls \in Nat

(* The score a search gives a chunk is the score of that chunk: the list   *)
(* it reads by position is the list the model was built from, or a longer  *)
(* one.                                                                    *)
SearchIsSound ==
  \A t \in Threads : thread[t].pc = "collect" =>
    LET i == thread[t].idx
    IN  i <= Len(thread[t].list) /\ i <= Len(corpus) => corpus[i] = thread[t].list[i]

(* Between two rebuilds the i-th score belongs to the i-th chunk, whatever  *)
(* rebuilds, reloads, purges and additions came before: the model is that  *)
(* of a beginning of the corpus.  (The next Build closes the gap.)         *)
Aligned == (\A t \in Threads : thread[t].pc # "model") => Begins(model, corpus)

(* No search meets a missing model or runs past the end of the corpus: the *)
(* exception would be swallowed by the retriever, with an empty answer.    *)
NoSearchError ==
  \A t \in Threads :
    /\ thread[t].pc = "score" => model # <<>>
    /\ thread[t].pc = "collect" /\ thread[t].idx <= Len(thread[t].list) =>
         thread[t].idx <= Len(corpus)

(* While the index is loaded, every chunk of the database whose ingestion  *)
(* has handed it to the index is in the corpus, whatever loads and reloads *)
(* run meanwhile.                                                          *)
CorpusComplete == Loaded => rows \cap indexed \subseteq Elems(corpus)

(* Every search ends, and so does every call that changes the index.       *)
CallsEnd == \A t \in Threads : Busy(t) ~> ~Busy(t)

(* What the documentation promises, and the code does not do.              *)

Quiet == \A t \in Threads : ~Busy(t)

(* A course chunk that was indexed stays in the index when the scraped     *)
(* data are purged ("remain 100% intact").                                 *)
CourseStays == Quiet /\ Loaded => (rows \cap indexed) \ Scraped \subseteq Elems(corpus)

(* A chunk that was handed to the index is found by a search: it is in the *)
(* model ("Embeds the content into Qdrant & BM25").                        *)
IndexedIsFound == Quiet /\ Loaded => rows \cap indexed \subseteq Elems(model)

(* A search finds no chunk of a deleted document ("successfully deleted    *)
(* from RAG").                                                             *)
FoundIsStored == Quiet => Elems(model) \subseteq rows

(* When every chunk is ingested by this process, the index has them all    *)
(* again after a reload ("Forces complete reload of BM25 corpus from       *)
(* database").                                                             *)
ReloadIsComplete == Quiet /\ Loaded => rows \subseteq Elems(corpus)

=============================================================================
