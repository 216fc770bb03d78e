---------------------------- MODULE SemanticCache ----------------------------
(***************************************************************************)
(* The two tiers of the answer cache (api/core/cache.py): an exact key,    *)
(* kept in Redis or, without it, in a bounded list of the process in the   *)
(* order of use; and the vectors of the questions, always in the process.  *)
(* This module has the state and what each method does to it; Answers has  *)
(* the callers.                                                            *)
(***************************************************************************)
EXTENDS Naturals, Sequences, FiniteSets, Subsequence

CONSTANTS
  Questions,
  Classes,     \* questions of one class have vectors at least 0.94 alike
  Class,       \* the class of each question
  Scopes,      \* department and course, as the request names them
  MemoryMax,   \* MAX_MEMORY_CACHE_ENTRIES
  VectorMax    \* _max_semantic_entries

ASSUME CacheConstants ==
  /\ Questions # {} /\ Class \in [Questions -> Classes]
  /\ MemoryMax \in Nat \ {0} /\ VectorMax \in Nat \ {0}

VARIABLES
  memory,      \* _memory_cache, the oldest use first
  vectors,     \* _semantic_vectors, the oldest first
  redis,       \* what Redis holds
  reachable,   \* whether Redis answers
  link,        \* _init_attempted and redis_client
  flushing,    \* whether a flushdb task has been spawned
  clears,      \* history: how often the cache has been cleared
  missed       \* history: whether a clear has not reached Redis

cacheVars == <<memory, vectors, redis, reachable, link, flushing, clears, missed>>

(* stored: the clears before the entry was.                                *)
Entry(k, a)         == [key |-> k, answer |-> a, stored |-> clears, fresh |-> TRUE]
Embedded(q)         == Class[q]
VectorEntry(q, s, a) == [class |-> Embedded(q), scope |-> s, answer |-> a,
                         stored |-> clears, fresh |-> TRUE]
Elements(seq) == {seq[i] : i \in DOMAIN seq}
Without(seq, k) == Picked(seq, {i \in DOMAIN seq : seq[i].key # k})
Unexpired(seq)  == Picked(seq, {i \in DOMAIN seq : seq[i].fresh})

(* make_cache_key: the same question in another scope is another key.      *)
Key(q, s) == <<q, s>>

CacheInit ==
  /\ memory = <<>> /\ vectors = <<>> /\ redis = {}
  /\ reachable \in BOOLEAN /\ link = "new" /\ flushing = FALSE
  /\ clears = 0 /\ missed = FALSE

-----------------------------------------------------------------------------
(* _get_redis: the first caller connects; until it knows, the others use   *)
(* the memory.                                                             *)

Dial == link = "new" /\ link' = "dialling"
Dialled == link' = IF reachable THEN "up" ELSE "none"

(* get: Redis, then the memory; a use makes the entry the newest, and an   *)
(* expired one is dropped.                                                 *)
InRedis(k) == IF link = "up" /\ reachable THEN {e \in redis : e.key = k} ELSE {}
InMemory(k) == {e \in Elements(memory) : e.key = k}

Found(k) == IF InRedis(k) # {} THEN {e.answer : e \in InRedis(k)}
            ELSE {e.answer : e \in {x \in InMemory(k) : x.fresh}}
Looked(k) ==
  IF InRedis(k) # {} \/ InMemory(k) = {} THEN memory
  ELSE LET e == CHOOSE x \in InMemory(k) : TRUE
       IN IF e.fresh THEN Append(Without(memory, k), e) ELSE Without(memory, k)

(* set: Redis takes it, or the memory does, of which the longest unused    *)
(* entry goes when it is full.  Every hundredth time the expired ones have *)
(* gone before.                                                            *)
Trimmed(k, seq) ==
  IF Len(Without(seq, k)) = Len(seq) /\ Len(seq) >= MemoryMax THEN Tail(seq)
  ELSE Without(seq, k)

PutExact(k, a) ==
  IF link = "up" /\ reachable
  THEN /\ redis' = {e \in redis : e.key # k} \cup {Entry(k, a)}
       /\ UNCHANGED memory
  ELSE /\ \E seq \in {memory, Unexpired(memory)} :
            memory' = Append(Trimmed(k, seq), Entry(k, a))
       /\ UNCHANGED redis

(* get_semantic: the most similar entry of the scope; the expired ones are *)
(* dropped on the way.                                                     *)
SimilarAnyScope(q, s) ==  \* mutant: the scope is not compared
  {e.answer : e \in {v \in Elements(vectors) : v.fresh /\ v.class = Embedded(q)}}
Similar(q, s) ==
  {e.answer : e \in {v \in Elements(vectors) :
                       v.fresh /\ v.class = Embedded(q) /\ v.scope = s}}
Swept == Unexpired(vectors)

(* set_semantic, after its set.                                            *)
PutVectorUnbounded(q, s, a) ==  \* mutant: the list is not trimmed
  vectors' = Append(vectors, VectorEntry(q, s, a))
PutVector(q, s, a) ==
  vectors' = Append(IF Len(vectors) >= VectorMax THEN Tail(vectors) ELSE vectors,
                    VectorEntry(q, s, a))

-----------------------------------------------------------------------------
(* clear: the process forgets at once; Redis is told by a task, when there *)
(* is a connection.                                                        *)
ClearExact ==  \* mutant: clear forgets the vectors
  /\ memory' = <<>> /\ flushing' = (flushing \/ link = "up")
  /\ clears' = clears + 1 /\ missed' = (missed \/ link # "up")
  /\ UNCHANGED <<vectors, redis, reachable, link>>
Clear ==
  /\ memory' = <<>> /\ vectors' = <<>>
  /\ flushing' = (flushing \/ link = "up")
  /\ clears' = clears + 1
  /\ missed' = (missed \/ link # "up")
  /\ UNCHANGED <<redis, reachable, link>>

(* The task; nobody looks at its exception.                                *)
Flush ==
  /\ flushing /\ flushing' = FALSE
  /\ redis' = IF reachable THEN {} ELSE redis
  /\ missed' = (missed \/ ~reachable)
  /\ UNCHANGED <<memory, vectors, reachable, link, clears>>

(* get_diagnostics sets the connection to what it has found.               *)
Diagnose ==
  /\ link # "dialling"
  /\ link' = IF reachable THEN "up" ELSE IF link = "new" THEN "new" ELSE "none"
  /\ UNCHANGED <<memory, vectors, redis, reachable, flushing, clears, missed>>

(* The time to live of an entry ends.                                      *)
Expire ==
  /\ \/ /\ \E i \in DOMAIN memory : memory' = [memory EXCEPT ![i].fresh = FALSE]
        /\ UNCHANGED <<vectors, redis>>
     \/ /\ \E i \in DOMAIN vectors : vectors' = [vectors EXCEPT ![i].fresh = FALSE]
        /\ UNCHANGED <<memory, redis>>
     \/ /\ \E e \in redis : redis' = redis \ {e}
        /\ UNCHANGED <<memory, vectors>>
  /\ UNCHANGED <<reachable, link, flushing, clears, missed>>

(* Redis goes away, or comes back with what it holds.                      *)
Outage ==
  /\ reachable' = ~reachable
  /\ UNCHANGED <<memory, vectors, redis, link, flushing, clears, missed>>

(* A clear is complete: nothing that was stored before it is served after  *)
(* it, from either tier.  In Redis that is so once the task has run, if    *)
(* every clear so far has found a connection and Redis has answered        *)
(* (SemanticCache.clear).                                                  *)
ClearedIsGone ==
  /\ \A e \in Elements(memory) \cup Elements(vectors) : e.stored = clears
  /\ ~flushing /\ ~missed => \A e \in redis : e.stored = clears
=============================================================================
