------------------------------- MODULE Answers -------------------------------
(***************************************************************************)
(* The way of a question to its answer (api/routers/ask.py): the two tiers *)
(* of the cache, the retrieval, the queue for the one GPU and the threads  *)
(* that use it (api/rag/chat_generator.py), the store in the cache and the *)
(* record of the conversation; with the deletion of documents, which       *)
(* clears the cache, and the restart of the process.  An answer is the set *)
(* of the documents it cites.                                              *)
(***************************************************************************)
EXTENDS SemanticCache, Conversations, TieredContext

CONSTANTS
  Home,                \* the scope of each document
  All,                 \* the scope of a request that names none
  Near,                \* the scopes whose course has the name of a scope's course
                       \* in its own, or whose department begins like its department
  Asked,               \* what is asked: [question, scope, stream, chat]
  MaxAsks, MaxClears, MaxFaults   \* bounds

Asks == 1 .. MaxAsks

ASSUME AnswerConstants ==
  /\ All \in Scopes /\ Home \in [Documents -> Scopes \ {All}]
  /\ Near \in [Scopes -> SUBSET Scopes] /\ \A s \in Scopes : s \in Near[s]
  /\ Asked \subseteq [question : Questions, scope : Scopes, stream : BOOLEAN, chat : Chats]
  /\ {MaxAsks, MaxClears, MaxFaults} \subseteq Nat /\ None \notin Documents

VARIABLES
  ask,       \* the requests
  asks,      \* how many there have been
  queue,     \* gpu_async_lock: its holder and those that wait, in order
  worker,    \* the generation thread of each request
  device,    \* the request whose thread holds gpu_lock, or 0
  loaded,    \* whether the chat model could be loaded
  points,    \* those in the vector store
  corpus,    \* those in the keyword index of this process
  deleting,  \* the documents that are being deleted
  faults     \* faults so far

gpuVars   == <<queue, worker, device, loaded>>
storeVars == <<rows, points, corpus, deleting, contextVars>>
vars == <<ask, asks, gpuVars, storeVars, faults, cacheVars, chatVars, ruleVars>>

Unasked == [pc |-> "none", question |-> CHOOSE q \in Questions : TRUE, scope |-> All,
            stream |-> FALSE, chat |-> CHOOSE c \in Chats : TRUE,
            docs |-> {}, low |-> FALSE, mode |-> "rag"]
Stages == {"none", "look", "dial", "match", "retrieve", "rank", "ranking", "generate",
           "queued", "generating", "store", "append", "reply", "end"}
InScope(s) == {d \in Documents : s = All \/ Home[d] = s}

AnswerInit ==
  /\ ask = [r \in Asks |-> Unasked]
  /\ queue = <<>> /\ worker = [r \in Asks |-> "none"] /\ device = 0
  /\ points = rows /\ corpus = rows /\ deleting = None
  /\ ContextInit

At(r, stage) == ask[r].pc = stage
Goto(r, stage) == ask' = [ask EXCEPT ![r].pc = stage]
With(r, stage, docs, low) ==
  ask' = [ask EXCEPT ![r].pc = stage, ![r].docs = docs, ![r].low = low]

-----------------------------------------------------------------------------
(* ask_question, and chat_completions, which only generates.               *)

Ask(a) ==
  /\ asks < MaxAsks /\ asks' = asks + 1
  /\ ask' = [ask EXCEPT ![asks + 1] =
       [Unasked EXCEPT !.pc = "look", !.question = a.question, !.scope = a.scope,
                       !.stream = a.stream, !.chat = a.chat]]
  /\ UNCHANGED <<gpuVars, storeVars, faults, cacheVars, chatVars, ruleVars>>

Complete(stream) ==
  /\ asks < MaxAsks /\ asks' = asks + 1
  /\ ask' = [ask EXCEPT ![asks + 1] =
       [Unasked EXCEPT !.pc = "generate", !.stream = stream, !.mode = "chat"]]
  /\ UNCHANGED <<gpuVars, storeVars, faults, cacheVars, chatVars, ruleVars>>

ScopedKey(r) == Key(ask[r].question, ask[r].scope)

(* The exact tier, after the connection to Redis has been tried.           *)
Connect(r) ==
  /\ \/ /\ At(r, "look") /\ Dial /\ Goto(r, "dial")
     \/ /\ At(r, "dial") /\ Dialled /\ Goto(r, "look")
  /\ UNCHANGED <<memory, vectors, redis, reachable, flushing, clears, missed>>
  /\ UNCHANGED <<asks, gpuVars, storeVars, faults, chatVars, ruleVars>>

LookUp(r) ==
  /\ At(r, "look") /\ link # "new"
  /\ memory' = Looked(ScopedKey(r))
  /\ IF Found(ScopedKey(r)) = {} THEN Goto(r, "match")
     ELSE \E docs \in Found(ScopedKey(r)) : With(r, "reply", docs, FALSE)
  /\ UNCHANGED <<vectors, redis, reachable, link, flushing, clears, missed>>
  /\ UNCHANGED <<asks, gpuVars, storeVars, faults, chatVars, ruleVars>>

(* A greeting is answered without documents.                               *)
Converse(r) ==
  /\ At(r, "match") /\ Goto(r, "reply")
  /\ UNCHANGED <<asks, gpuVars, storeVars, faults, cacheVars, chatVars, ruleVars>>

(* answer_overview_query: a tier of a course with a like name, or one that *)
(* resembles the question, of a department whose name begins alike or, if  *)
(* there is none, of any.  The tier of a course or department names no     *)
(* document.  The cache does not keep the answer.                          *)
Overviewed(s) ==
  LET near == {u \in DOMAIN tiers : s = All \/ Home[tiers[u].of] \in Near[s]}
  IN IF near = {} THEN DOMAIN tiers ELSE near
Overview(r) ==
  /\ At(r, "retrieve")
  /\ \E docs \in {{}} \cup {{tiers[u].of} : u \in Overviewed(ask[r].scope)} :
       ask' = [ask EXCEPT ![r].pc = "reply", ![r].docs = docs, ![r].mode = "overview"]
  /\ UNCHANGED <<asks, gpuVars, storeVars, faults, cacheVars, chatVars, ruleVars>>

(* The semantic tier, once the question is embedded.                       *)
Match(r) ==
  /\ At(r, "match")
  /\ vectors' = Swept
  /\ LET similar == Similar(ask[r].question, ask[r].scope)
     IN IF similar = {} THEN Goto(r, "retrieve")
        ELSE \E docs \in similar : With(r, "reply", docs, FALSE)
  /\ UNCHANGED <<memory, redis, reachable, link, flushing, clears, missed>>
  /\ UNCHANGED <<asks, gpuVars, storeVars, faults, chatVars, ruleVars>>

-----------------------------------------------------------------------------
(* Retrieval.  Two searches, in two threads, each with the filter of the  *)
(* scope; one that raises finds nothing.  The reranker leaves some of what *)
(* they find, the gate of CRAG all of that or nothing.                     *)

Scoped(store, s) == SUBSET (store \cap InScope(s))
Dense(r)  == Scoped(points, ask[r].scope)
Sparse(r) == Scoped(corpus, ask[r].scope)
Reranked(docs) == (SUBSET docs) \ {{}}
Graded(docs)   == {docs, {}}

(* Without evidence a question about the institution is declined; another  *)
(* is left to the model.                                                   *)
Judged(r, docs) ==
  IF docs # {} THEN With(r, "generate", docs, ask[r].low)
  ELSE \/ ask' = [ask EXCEPT ![r].pc = "generate", ![r].docs = {}, ![r].mode = "general"]
       \/ With(r, "reply", {}, TRUE)

Retrieve(r) ==
  /\ At(r, "retrieve")
  /\ \E dense \in Dense(r), sparse \in Sparse(r) :
       IF dense \cup sparse = {} THEN Judged(r, {})
       ELSE With(r, "rank", dense \cup sparse, FALSE)
  /\ UNCHANGED <<asks, gpuVars, storeVars, faults, cacheVars, chatVars, ruleVars>>

Rank(r) ==
  /\ \/ /\ At(r, "rank") /\ device = 0
        /\ device' = r /\ Goto(r, "ranking")
     \/ /\ At(r, "ranking") /\ device' = 0
        /\ \E docs \in Reranked(ask[r].docs) :
             \E evidence \in Graded(docs) : Judged(r, evidence)
  /\ UNCHANGED <<queue, worker, loaded, asks, storeVars, faults, cacheVars, chatVars, ruleVars>>

-----------------------------------------------------------------------------
(* Generation.  The lock of the event loop lets one request at a time have *)
(* a thread; the thread takes the lock of the GPU, which the reranker of   *)
(* another request, or a thread whose stream has gone, may hold.           *)

Depart(q, r) == Picked(q, {i \in DOMAIN q : q[i] # r})

(* What follows a text, be it of the model or of the fallback.  Of one     *)
(* that has evidence only JSON looks whether it declines: then it is not   *)
(* cached, and a question that is not about the institution is generated   *)
(* again, without the evidence.                                            *)
General(r) == IF ask[r].mode = "chat" THEN Goto(r, "end") ELSE With(r, "store", {}, FALSE)
Grounded(r) ==
  \/ \E low \in BOOLEAN : With(r, "store", ask[r].docs, low)
  \/ ~ask[r].stream /\ Judged(r, {})
Answered(r) == IF ask[r].mode = "rag" THEN Grounded(r) ELSE General(r)

Enqueue(r) ==
  /\ At(r, "generate")
  /\ IF loaded THEN /\ Goto(r, "queued")
                    /\ queue' = Append(queue, r)
     ELSE Answered(r) /\ UNCHANGED queue
  /\ UNCHANGED <<worker, device, loaded>>
  /\ UNCHANGED <<asks, storeVars, faults, cacheVars, chatVars, ruleVars>>

Begin(r) ==
  /\ At(r, "queued") /\ Head(queue) = r
  /\ worker' = [worker EXCEPT ![r] = "waiting"]
  /\ Goto(r, "generating")
  /\ UNCHANGED <<queue, device, loaded>>
  /\ UNCHANGED <<asks, storeVars, faults, cacheVars, chatVars, ruleVars>>

(* The thread.  Without memory on the GPU it fails.                        *)
Take(r) ==
  /\ worker[r] = "waiting" /\ device = 0
  /\ worker' = [worker EXCEPT ![r] = "running"] /\ device' = r
  /\ UNCHANGED <<queue, loaded>>
  /\ UNCHANGED <<ask, asks, storeVars, faults, cacheVars, chatVars, ruleVars>>

Finish(r) ==
  /\ worker[r] = "running"
  /\ worker' = [worker EXCEPT ![r] = "done"] /\ device' = 0
  /\ UNCHANGED <<queue, loaded>>
  /\ UNCHANGED <<ask, asks, storeVars, faults, cacheVars, chatVars, ruleVars>>

Generated(r) ==
  /\ At(r, "generating") /\ worker[r] = "done"
  /\ Answered(r)
  /\ queue' = Depart(queue, r)
  /\ UNCHANGED <<worker, device, loaded>>
  /\ UNCHANGED <<asks, storeVars, faults, cacheVars, chatVars, ruleVars>>

(* No token for 30 seconds: the stream goes on with the fallback, and its  *)
(* thread stays behind.                                                    *)
TimeOut(r) ==
  /\ At(r, "generating") /\ ask[r].stream /\ worker[r] # "done"
  /\ faults < MaxFaults /\ faults' = faults + 1
  /\ Answered(r)
  /\ queue' = Depart(queue, r)
  /\ UNCHANGED <<worker, device, loaded>>
  /\ UNCHANGED <<asks, storeVars, cacheVars, chatVars, ruleVars>>

(* The client of a stream leaves: nothing of it is stored or recorded.     *)
AbandonHolding(r) ==  \* mutant: gpu_async_lock is not released
  /\ ask[r].stream /\ ask[r].pc \in {"queued", "generating", "store", "append"}
  /\ Goto(r, "end")
  /\ UNCHANGED <<gpuVars, asks, storeVars, faults, cacheVars, chatVars, ruleVars>>
Abandon(r) ==
  /\ ask[r].stream /\ ask[r].pc \in {"queued", "generating", "store", "append"}
  /\ Goto(r, "end")
  /\ queue' = Depart(queue, r)
  /\ UNCHANGED <<worker, device, loaded>>
  /\ UNCHANGED <<asks, storeVars, faults, cacheVars, chatVars, ruleVars>>

-----------------------------------------------------------------------------
(* set_semantic: with a connection to Redis the vector is added after it   *)
(* has answered.                                                           *)
Store(r) ==
  /\ At(r, "store")
  /\ PutExact(ScopedKey(r), ask[r].docs)
  /\ IF link = "up" THEN Goto(r, "append") /\ UNCHANGED vectors
     ELSE /\ PutVector(ask[r].question, ask[r].scope, ask[r].docs)
          /\ Goto(r, "reply")
  /\ UNCHANGED <<reachable, link, flushing, clears, missed>>
  /\ UNCHANGED <<asks, gpuVars, storeVars, faults, chatVars, ruleVars>>

AppendVector(r) ==
  /\ At(r, "append")
  /\ PutVector(ask[r].question, ask[r].scope, ask[r].docs)
  /\ Goto(r, "reply")
  /\ UNCHANGED <<memory, redis, reachable, link, flushing, clears, missed>>
  /\ UNCHANGED <<asks, gpuVars, storeVars, faults, chatVars, ruleVars>>

Reply(r) ==
  /\ At(r, "reply") /\ Goto(r, "end")
  /\ Spawn("record", ask[r].chat, ask[r].low, 0) /\ UNCHANGED edits
  /\ UNCHANGED <<asks, gpuVars, storeVars, faults, cacheVars, ruleVars>>

-----------------------------------------------------------------------------
(* An ingestion: the row, then the points, then the keyword index of the   *)
(* process that it runs in.                                                *)
Upload(d, here) ==
  /\ Ingest(d, here)
  /\ UNCHANGED <<points, corpus, deleting>>
  /\ UNCHANGED <<ask, asks, gpuVars, faults, cacheVars, chatVars, ruleVars>>

Uploaded(a) ==
  /\ Arrive(a)
  /\ points' = points \cup {a.doc}
  /\ corpus' = IF a.here THEN corpus \cup {a.doc} ELSE corpus
  /\ UNCHANGED deleting
  /\ UNCHANGED <<ask, asks, gpuVars, faults, cacheVars, chatVars, ruleVars>>

Context(step) ==
  /\ step
  /\ UNCHANGED <<points, corpus, deleting>>
  /\ UNCHANGED <<ask, asks, gpuVars, cacheVars, chatVars, ruleVars>>
ContextFault ==
  /\ faults < MaxFaults /\ faults' = faults + 1
  /\ \E p \in Procs : Context(SyncFails(p))

(* The deletions: the points, then the rows with their tiers, then the     *)
(* cache.  An error of the vector store is passed over, and the keyword    *)
(* index of the process keeps the chunks.                                  *)
One   == {{d} : d \in rows}
Batch == (SUBSET rows) \ {{}}
Purge == {rows \cap InScope(s) : s \in Scopes}

DeletePoints ==
  /\ deleting = None /\ clears < MaxClears
  /\ deleting' \in One \cup Batch \cup Purge
  /\ points' \in {points \ deleting', points}
  /\ UNCHANGED <<rows, corpus, contextVars>>
  /\ UNCHANGED <<ask, asks, gpuVars, faults, cacheVars, chatVars, ruleVars>>

DeleteRows ==
  /\ deleting # None
  /\ Cascade(deleting) /\ deleting' = None
  /\ Clear
  /\ UNCHANGED <<points, corpus>>
  /\ UNCHANGED <<ask, asks, gpuVars, faults, chatVars, ruleVars>>

(* The administrator's button.                                             *)
ClearCache ==
  /\ clears < MaxClears /\ deleting = None /\ Clear
  /\ UNCHANGED <<ask, asks, gpuVars, storeVars, faults, chatVars, ruleVars>>

CacheStep ==
  /\ Flush \/ Diagnose
  /\ UNCHANGED <<ask, asks, gpuVars, storeVars, faults, chatVars, ruleVars>>

CacheFault ==
  /\ faults < MaxFaults /\ faults' = faults + 1
  /\ Expire \/ Outage
  /\ UNCHANGED <<ask, asks, gpuVars, storeVars, chatVars, ruleVars>>

(* The process ends and starts again: Redis and the database remain, and   *)
(* the keyword index is read from the latter.                              *)
Restart ==
  /\ faults < MaxFaults /\ faults' = faults + 1
  /\ ask' = [r \in Asks |-> IF At(r, "none") THEN ask[r] ELSE [ask[r] EXCEPT !.pc = "end"]]
  /\ queue' = <<>> /\ worker' = [r \in Asks |-> "none"] /\ device' = 0
  /\ loaded' \in BOOLEAN
  /\ memory' = <<>> /\ vectors' = <<>> /\ link' = "new"
  /\ flushing' = FALSE /\ missed' = (missed \/ flushing)
  /\ corpus' = rows /\ deleting' = None
  /\ Crashed /\ Forget
  /\ UNCHANGED <<asks, rows, points, redis, reachable, clears>>

-----------------------------------------------------------------------------
Advance(r) ==
  \/ Connect(r) \/ LookUp(r) \/ Converse(r) \/ Match(r) \/ Overview(r)
  \/ Retrieve(r) \/ Rank(r) \/ Enqueue(r) \/ Begin(r) \/ Generated(r)
  \/ Store(r) \/ AppendVector(r) \/ Reply(r)

Conversation ==
  /\ ConversationNext
  /\ UNCHANGED <<ask, asks, gpuVars, storeVars, faults, cacheVars>>

Next ==
  \/ \E a \in Asked : Ask(a)
  \/ \E stream \in BOOLEAN : Complete(stream)
  \/ \E r \in Asks : Advance(r) \/ Take(r) \/ Finish(r) \/ TimeOut(r) \/ Abandon(r)
  \/ DeletePoints \/ DeleteRows \/ ClearCache \/ CacheStep \/ CacheFault \/ Restart
  \/ Conversation
  \/ \E d \in Documents, here \in BOOLEAN : Upload(d, here)
  \/ \E a \in arriving : Uploaded(a)
  \/ Context(ContextNext) /\ UNCHANGED faults
  \/ ContextFault

(* While a request or a task can go on, the event loop runs one of them,   *)
(* and so does the machine with the threads.  As there are finitely many,  *)
(* that is all they need.  Nobody has to ask, to leave or to delete.       *)
Run(t) ==
  /\ Look(t) \/ Record(t) \/ Rate(t) \/ Drop(t)
  /\ UNCHANGED <<ask, asks, gpuVars, storeVars, faults, cacheVars>>
EventLoop == \/ \E r \in Asks : Advance(r)
             \/ \E t \in 1 .. MaxTasks : Run(t)
             \/ \E a \in arriving : Uploaded(a)
             \/ Context(ContextStep) /\ UNCHANGED faults
Threads   == \E r \in Asks : Take(r) \/ Finish(r)
Fairness  == WF_vars(EventLoop) /\ WF_vars(Threads)

Spec ==
  /\ rows = Documents /\ tiers = <<>> /\ folders = {} /\ clock = 0 /\ visits = 0
  /\ CacheInit /\ ChatInit /\ RuleInit /\ AnswerInit
  /\ loaded \in BOOLEAN
  /\ asks = 0 /\ faults = 0 /\ edits = 0 /\ cycles = 0
  /\ [][Next]_vars /\ Fairness

-----------------------------------------------------------------------------
TypeOK ==
  /\ ask \in [Asks -> [pc : Stages, question : Questions, scope : Scopes,
                       stream : BOOLEAN, chat : Chats, docs : SUBSET Documents,
                       low : BOOLEAN, mode : {"rag", "general", "chat", "overview"}]]
  /\ asks \in 0 .. MaxAsks /\ faults \in 0 .. MaxFaults
  /\ queue \in Seq(Asks) /\ device \in {0} \cup Asks /\ loaded \in BOOLEAN
  /\ worker \in [Asks -> {"none", "waiting", "running", "done"}]
  /\ rows \subseteq Documents /\ points \subseteq Documents /\ corpus \subseteq Documents
  /\ deleting \in (SUBSET Documents) \cup {None}
  /\ Len(memory) <= MemoryMax /\ Len(vectors) <= VectorMax
  /\ ConversationTypeOK /\ ContextTypeOK

(* An answer cites documents of the scope of its request only, wherever it *)
(* comes from: the exact tier, the semantic tier with the answer to        *)
(* another question, or the retrieval (ask_question: "Authorization-aware  *)
(* Semantic Cache"); and none that an overview cites gets into the cache.  *)
(* The overview itself does not keep to the scope.                         *)
ScopeIsolated ==
  \A r \in Asks : ask[r].mode # "overview" => ask[r].docs \subseteq InScope(ask[r].scope)

(* Every request ends, and so does every task it leaves, and the debounced *)
(* synchronisation of the tiers: whoever leaves the queue for the GPU      *)
(* before, however long a thread outlives its stream, and with Redis going *)
(* away at any point (gpu_async_lock, gpu_lock, _stream_generator_helper). *)
(* As their number is bounded, each of them ends if at some time all have. *)
Quiet == /\ \A r \in Asks : ask[r].pc \in {"none", "end"}
         /\ \A t \in 1 .. MaxTasks : ~Running(t)
         /\ \A p \in Procs : proc[p].pc = "idle"
         /\ arriving = {}
RequestsEnd == ~Quiet ~> Quiet
=============================================================================
