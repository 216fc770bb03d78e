------------------------------ MODULE Bm25Proofs ------------------------------
(* What Bm25Index guarantees for every set of threads and chunks and every  *)
(* number of calls.                                                         *)
EXTENDS Bm25Index, DataLemmas, SequenceTheorems

(* The corpus is smaller than its limit: nothing is cut off.                *)
BelowLimit == Len(corpus) < MaxChunks

-----------------------------------------------------------------------------
(* What a thread is doing stays of its type when a part of it changes.      *)
LEMMA JobType ==
  ASSUME NEW r \in Jobs, NEW pc \in Pcs, NEW live \in BOOLEAN, NEW list \in Lists,
         NEW idx \in Nat
  PROVE  /\ [r EXCEPT !.pc = pc] \in Jobs
         /\ [r EXCEPT !.idx = idx] \in Jobs
         /\ [r EXCEPT !.pc = pc, !.list = list] \in Jobs
         /\ [r EXCEPT !.pc = pc, !.live = live] \in Jobs
         /\ [r EXCEPT !.live = live, !.list = list] \in Jobs
         /\ [r EXCEPT !.pc = pc, !.live = live, !.list = list] \in Jobs
         /\ [r EXCEPT !.pc = pc, !.list = list, !.idx = idx] \in Jobs
<1>1. [r EXCEPT !.pc = pc] \in Jobs
  BY Zenon DEF Jobs
<1>2. [r EXCEPT !.idx = idx] \in Jobs
  BY Zenon DEF Jobs
<1>3. [r EXCEPT !.pc = pc, !.list = list] \in Jobs
  BY Zenon DEF Jobs
<1>4. [r EXCEPT !.pc = pc, !.live = live] \in Jobs
  BY Zenon DEF Jobs
<1>5. [r EXCEPT !.live = live, !.list = list] \in Jobs
  BY Zenon DEF Jobs
<1>6. [r EXCEPT !.pc = pc, !.live = live, !.list = list] \in Jobs
  BY Zenon DEF Jobs
<1>7. [r EXCEPT !.pc = pc, !.list = list, !.idx = idx] \in Jobs
  BY Zenon DEF Jobs
<1> QED
  BY <1>1, <1>2, <1>3, <1>4, <1>5, <1>6, <1>7

LEMMA NewJobType ==
  ASSUME NEW pc \in Pcs, NEW kind \in Kinds, NEW chunk \in Chunks \cup {0}
  PROVE  Job(pc, kind, chunk) \in Jobs
<1>1. FALSE \in BOOLEAN /\ <<>> \in Lists /\ 0 \in Nat
  BY DEF Lists
<1> QED
  BY <1>1, Zenon DEF Job, Jobs

LEMMA IdleType == Idle \in Jobs
BY NewJobType DEF Idle, Pcs, Kinds

LEMMA FieldTypes ==
  ASSUME NEW r \in Jobs
  PROVE  /\ r.pc \in Pcs /\ r.kind \in Kinds /\ r.chunk \in Chunks \cup {0}
         /\ r.live \in BOOLEAN /\ r.list \in Lists /\ r.idx \in Nat
BY Zenon DEF Jobs

(* What a record is when a part of it changes: q has the call of r and the  *)
(* rest as given.                                                           *)
Part(q, r, pc, live, list, idx) ==
  /\ q.kind = r.kind /\ q.chunk = r.chunk
  /\ q.pc = pc /\ q.live = live /\ q.list = list /\ q.idx = idx

LEMMA JobParts ==
  ASSUME NEW r \in Jobs, NEW pc, NEW live, NEW list, NEW idx
  PROVE  /\ Part([r EXCEPT !.pc = pc], r, pc, r.live, r.list, r.idx)
         /\ Part([r EXCEPT !.idx = idx], r, r.pc, r.live, r.list, idx)
         /\ Part([r EXCEPT !.pc = pc, !.list = list], r, pc, r.live, list, r.idx)
         /\ Part([r EXCEPT !.pc = pc, !.live = live], r, pc, live, r.list, r.idx)
         /\ Part([r EXCEPT !.live = live, !.list = list], r, r.pc, live, list, r.idx)
         /\ Part([r EXCEPT !.pc = pc, !.live = live, !.list = list], r, pc, live, list, r.idx)
         /\ Part([r EXCEPT !.pc = pc, !.list = list, !.idx = idx], r, pc, r.live, list, idx)
<1>1. Part([r EXCEPT !.pc = pc], r, pc, r.live, r.list, r.idx)
  BY DEF Jobs, Part
<1>2. Part([r EXCEPT !.idx = idx], r, r.pc, r.live, r.list, idx)
  BY DEF Jobs, Part
<1>3. Part([r EXCEPT !.pc = pc, !.list = list], r, pc, r.live, list, r.idx)
  BY DEF Jobs, Part
<1>4. Part([r EXCEPT !.pc = pc, !.live = live], r, pc, live, r.list, r.idx)
  BY DEF Jobs, Part
<1>5. Part([r EXCEPT !.live = live, !.list = list], r, r.pc, live, list, r.idx)
  BY DEF Jobs, Part
<1>6. Part([r EXCEPT !.pc = pc, !.live = live, !.list = list], r, pc, live, list, r.idx)
  BY DEF Jobs, Part
<1>7. Part([r EXCEPT !.pc = pc, !.list = list, !.idx = idx], r, pc, r.live, list, idx)
  BY DEF Jobs, Part
<1> QED
  BY <1>1, <1>2, <1>3, <1>4, <1>5, <1>6, <1>7

(* Each thread goes on with a record of its type.                           *)
LEMMA SetType ==
  ASSUME TypeOK, NEW t \in Threads, NEW r \in Jobs, thread' = [thread EXCEPT ![t] = r]
  PROVE  thread' \in [Threads -> Jobs]
BY DEF TypeOK

LEMMA GotoType ==
  ASSUME TypeOK, NEW t \in Threads, NEW pc \in Pcs, Goto(t, pc)
  PROVE  thread' \in [Threads -> Jobs]
<1>1. thread[t] \in Jobs
  BY DEF TypeOK
<1>2. [thread[t] EXCEPT !.pc = pc] \in Jobs
  BY <1>1, JobType, EmptySeq, Zenon DEF Lists
<1> QED
  BY <1>2, SetType DEF Goto

LEMMA AfterType ==
  ASSUME TypeOK, NEW t \in Threads
  PROVE  After(t) \in Jobs
<1>1. [Idle EXCEPT !.pc = "check"] \in Jobs
  BY IdleType, JobType, EmptySeq, Zenon DEF Lists, Pcs
<1> QED
  BY <1>1, IdleType DEF After

(* What build_index and the query of ensure_loaded return.                  *)
LEMMA LastType ==
  ASSUME NEW s \in Lists
  PROVE  Last(s) \in Lists /\ (Len(s) <= MaxChunks => Last(s) = s)
<1> DEFINE m == IF Len(s) > MaxChunks THEN Len(s) - MaxChunks + 1 ELSE 1
<1>1. Len(s) \in Nat /\ s \in [1 .. Len(s) -> Chunks]
  BY LenProperties DEF Lists
<1>2. m \in Int /\ m >= 1 /\ (Len(s) <= MaxChunks => m = 1)
  BY <1>1, ConstantsOK
<1>3. \A i \in m .. Len(s) : s[i] \in Chunks
  BY <1>1, <1>2
<1>4. SubSeq(s, m, Len(s)) \in Seq(Chunks)
  BY <1>1, <1>2, <1>3, SubSeqProperties
<1>5. SubSeq(s, 1, Len(s)) = s
  BY SubSeqFull DEF Lists
<1> QED
  BY <1>2, <1>4, <1>5 DEF Last, Lists

LEMMA ListingType ==
  ASSUME NEW S \in SUBSET Chunks, NEW list \in Listings(S)
  PROVE  list \in Lists
<1>1. IsFiniteSet(S)
  BY ConstantsOK, FS_Subset
<1>2. Cardinality(S) \in Nat
  BY <1>1, FS_CardinalityType
<1>3. PICK n \in Nat : list \in [1 .. n -> S]
  BY <1>2, ConstantsOK DEF Listings
<1> QED
  BY <1>3 DEF Lists

LEMMA NoList == <<>> \in Lists
BY DEF Lists

LEMMA AppendType ==
  ASSUME NEW s \in Lists, NEW c \in Chunks
  PROVE  Append(s, c) \in Lists
BY AppendProperties DEF Lists

(* A new list: whoever holds the former one keeps it.                       *)
LEMMA FrozenType ==
  ASSUME TypeOK
  PROVE  Frozen \in [Threads -> Jobs]
<1>1. \A u \in Threads : [thread[u] EXCEPT !.live = FALSE, !.list = corpus] \in Jobs
  <2> SUFFICES ASSUME NEW u \in Threads
               PROVE  [thread[u] EXCEPT !.live = FALSE, !.list = corpus] \in Jobs
    OBVIOUS
  <2>1. thread[u] \in Jobs /\ corpus \in Lists
    BY DEF TypeOK
  <2>2. FALSE \in BOOLEAN /\ "idle" \in Pcs /\ 0 \in Nat
    BY DEF Pcs
  <2> QED
    BY <2>1, <2>2, JobType, Zenon
<1>2. \A u \in Threads : Frozen[u] \in Jobs
  BY <1>1, Zenon DEF Frozen, TypeOK
<1>3. Frozen = [u \in Threads |-> Frozen[u]]
  BY DEF Frozen
<1> QED
  BY <1>2, <1>3, Zenon

LEMMA AssignType ==
  ASSUME TypeOK, NEW t \in Threads, NEW list \in Lists, NEW job \in Jobs,
         Assign(t, list, job)
  PROVE  corpus' \in Lists /\ thread' \in [Threads -> Jobs]
BY FrozenType DEF Assign

-----------------------------------------------------------------------------
(* What an action does to the threads.                                      *)

Others(t) == \A u \in Threads \ {t} : thread'[u] = thread[u]
Moves(t, pc, live, list, idx) == Part(thread'[t], thread[t], pc, live, list, idx) /\ Others(t)
Ends(t) == thread'[t] = After(t) /\ Others(t)

(* self.corpus is assigned: the others that hold the former list keep it.   *)
Replaces(t, pc) ==
  /\ Part(thread'[t], thread[t], pc, thread[t].live, thread[t].list, thread[t].idx)
  /\ \A u \in Threads \ {t} :
       \/ ~thread[u].live /\ thread'[u] = thread[u]
       \/ /\ thread[u].live
          /\ Part(thread'[u], thread[u], thread[u].pc, FALSE, corpus, thread[u].idx)

LEMMA AfterParts ==
  ASSUME NEW t \in Threads
  PROVE  /\ After(t).kind = "search" /\ After(t).chunk = 0
         /\ ~After(t).live /\ After(t).list = <<>> /\ After(t).idx = 0
         /\ After(t).pc \in {"idle", "check"}
         /\ thread[t].kind # "search" => After(t).pc = "idle"
<1>1. Part(Idle, Idle, "idle", FALSE, <<>>, 0) /\ Idle.kind = "search" /\ Idle.chunk = 0
  BY Zenon DEF Idle, Job, Part
<1>2. Part([Idle EXCEPT !.pc = "check"], Idle, "check", Idle.live, Idle.list, Idle.idx)
  BY IdleType, JobParts, Zenon
<1>3. \/ After(t) = Idle
      \/ (After(t) = [Idle EXCEPT !.pc = "check"] /\ thread[t].kind = "search")
  BY DEF After
<1> QED
  BY <1>1, <1>2, <1>3 DEF Part

LEMMA Moved ==
  ASSUME TypeOK, NEW t \in Threads, NEW r, thread' = [thread EXCEPT ![t] = r]
  PROVE  thread'[t] = r /\ Others(t)
BY DEF TypeOK, Others

LEMMA Replaced ==
  ASSUME TypeOK, NEW t \in Threads, NEW pc, NEW list,
         Assign(t, list, [thread[t] EXCEPT !.pc = pc])
  PROVE  Replaces(t, pc)
<1>1. \A u \in Threads : thread[u] \in Jobs
  BY DEF TypeOK
<1>2. Part([thread[t] EXCEPT !.pc = pc], thread[t], pc, thread[t].live, thread[t].list,
           thread[t].idx)
  BY <1>1, JobParts, Zenon
<1>3. \A u \in Threads : Part([thread[u] EXCEPT !.live = FALSE, !.list = corpus], thread[u],
                              thread[u].pc, FALSE, corpus, thread[u].idx)
  BY <1>1, JobParts, Zenon
<1>4. /\ thread'[t] = [thread[t] EXCEPT !.pc = pc]
      /\ \A u \in Threads \ {t} :
            thread'[u] = IF thread[u].live
                         THEN [thread[u] EXCEPT !.live = FALSE, !.list = corpus]
                         ELSE thread[u]
  BY DEF Assign, Frozen
<1> QED
  BY <1>2, <1>3, <1>4, Zenon DEF Replaces

(* One fact for each action of a thread.                                    *)
LEMMA Effects ==
  ASSUME TypeOK, NEW t \in Threads
  PROVE  /\ Reset(t)    => Replaces(t, "ensure")
         /\ Ensure(t)   => \/ Ends(t) /\ Loaded
                           \/ Moves(t, "load", thread[t].live, thread[t].list, thread[t].idx)
         /\ Load(t)     => \/ Ends(t) /\ UNCHANGED lock
                           \/ /\ ~Loaded /\ lock' = t
                              /\ \E list \in Listings(rows) :
                                   Moves(t, "install", thread[t].live, list, thread[t].idx)
         /\ Build(t)    => Moves(t, "install", FALSE,
                                 Last(IF thread[t].live THEN corpus ELSE thread[t].list),
                                 thread[t].idx)
         /\ Install(t)  => Replaces(t, "model")
         /\ Model(t)    => Ends(t)
         /\ Extend(t)   => Moves(t, "submit", thread[t].live, thread[t].list, thread[t].idx)
         /\ Submit(t)   => Moves(t, "build", TRUE, thread[t].list, thread[t].idx)
         /\ Check(t)    => \/ thread'[t] = Idle /\ Others(t)
                           \/ /\ Loaded
                              /\ Moves(t, "score", thread[t].live, thread[t].list, thread[t].idx)
         /\ Snapshot(t) => \E list \in Lists :
                             Moves(t, "build", thread[t].live, list, thread[t].idx)
         /\ Score(t)    => \/ thread'[t] = Idle /\ Others(t)
                           \/ model # <<>> /\ Moves(t, "collect", thread[t].live, model, 1)
         /\ Collect(t)  => \/ thread'[t] = Idle /\ Others(t)
                           \/ Moves(t, "collect", thread[t].live, thread[t].list, thread[t].idx + 1)
         /\ Add(t) /\ BelowLimit =>
              corpus' = Append(corpus, thread[t].chunk) /\ thread'[t] = Idle /\ Others(t)
<1>0. thread[t] \in Jobs
  BY DEF TypeOK
<1> DEFINE r == thread[t]
<1> USE DEF Moves, Ends
<1>1. Reset(t) => Replaces(t, "ensure")
  BY Replaced DEF Reset
<1>2. Ensure(t) => \/ Ends(t) /\ Loaded
                   \/ Moves(t, "load", r.live, r.list, r.idx)
  <2>1. Part([r EXCEPT !.pc = "load"], r, "load", r.live, r.list, r.idx)
    BY <1>0, JobParts, Zenon
  <2>2. Ensure(t) => \/ Loaded /\ thread' = [thread EXCEPT ![t] = After(t)]
                     \/ thread' = [thread EXCEPT ![t] = [r EXCEPT !.pc = "load"]]
    BY Zenon DEF Ensure, Goto
  <2> QED
    BY <2>1, <2>2, Moved, Zenon
<1>3. Load(t) => \/ Ends(t) /\ UNCHANGED lock
                 \/ /\ ~Loaded /\ lock' = t
                    /\ \E list \in Listings(rows) : Moves(t, "install", r.live, list, r.idx)
  <2>1. \A list : Part([r EXCEPT !.pc = "install", !.list = list], r, "install", r.live, list, r.idx)
    BY <1>0, JobParts, Zenon
  <2>2. Load(t) => \/ thread' = [thread EXCEPT ![t] = After(t)] /\ UNCHANGED lock
                   \/ /\ ~Loaded /\ lock' = t
                      /\ \E list \in Listings(rows) : 
                           thread' = [thread EXCEPT ![t] =
                                        [r EXCEPT !.pc = "install", !.list = list]]
    BY Zenon DEF Load
  <2>3. ASSUME NEW list \in Listings(rows),
               thread' = [thread EXCEPT ![t] = [r EXCEPT !.pc = "install", !.list = list]]
        PROVE  Moves(t, "install", r.live, list, r.idx)
    BY <2>1, <2>3, Moved, Zenon
  <2>4. thread' = [thread EXCEPT ![t] = After(t)] => Ends(t)
    BY Moved
  <2> QED
    BY <2>2, <2>3, <2>4, Zenon
<1>4. Build(t) => Moves(t, "install", FALSE, Last(IF r.live THEN corpus ELSE r.list), r.idx)
  <2> DEFINE list == Last(IF r.live THEN corpus ELSE r.list)
  <2>1. Part([r EXCEPT !.pc = "install", !.live = FALSE, !.list = list], r,
             "install", FALSE, list, r.idx)
    BY <1>0, JobParts, Zenon
  <2> QED
    BY <2>1, Moved, Zenon DEF Build
<1>5. Install(t) => Replaces(t, "model")
  BY Replaced DEF Install
<1>6. Model(t) => Ends(t)
  BY Moved DEF Model
<1>7. Extend(t) => Moves(t, "submit", r.live, r.list, r.idx)
  <2>1. Part([r EXCEPT !.pc = "submit"], r, "submit", r.live, r.list, r.idx)
    BY <1>0, JobParts, Zenon
  <2> QED
    BY <2>1, Moved, Zenon DEF Extend, Goto
<1>8. Submit(t) => Moves(t, "build", TRUE, r.list, r.idx)
  <2>1. Part([r EXCEPT !.pc = "build", !.live = TRUE], r, "build", TRUE, r.list, r.idx)
    BY <1>0, JobParts, Zenon
  <2> QED
    BY <2>1, Moved, Zenon DEF Submit
<1>9. Check(t) => \/ thread'[t] = Idle /\ Others(t)
                  \/ Loaded /\ Moves(t, "score", r.live, r.list, r.idx)
  <2>1. Part([r EXCEPT !.pc = "score"], r, "score", r.live, r.list, r.idx)
    BY <1>0, JobParts, Zenon
  <2>2. Check(t) => \/ thread' = [thread EXCEPT ![t] = Idle]
                    \/ Loaded /\ thread' = [thread EXCEPT ![t] = [r EXCEPT !.pc = "score"]]
    BY Zenon DEF Check, Goto, Return
  <2> QED
    BY <2>1, <2>2, Moved, Zenon
<1>10. Score(t) => \/ thread'[t] = Idle /\ Others(t)
                   \/ model # <<>> /\ Moves(t, "collect", r.live, model, 1)
  <2>1. Part([r EXCEPT !.pc = "collect", !.list = model, !.idx = 1], r, "collect", r.live, model, 1)
    BY <1>0, JobParts, Zenon
  <2>2. Score(t) => \/ thread' = [thread EXCEPT ![t] = Idle]
                    \/ model # <<>> /\ thread' = [thread EXCEPT ![t] =
                                       [r EXCEPT !.pc = "collect", !.list = model, !.idx = 1]]
    BY Zenon DEF Score, Return
  <2> QED
    BY <2>1, <2>2, Moved, Zenon
<1>11. Collect(t) => \/ thread'[t] = Idle /\ Others(t)
                     \/ Moves(t, "collect", r.live, r.list, r.idx + 1)
  <2>1. Part([r EXCEPT !.idx = r.idx + 1], r, r.pc, r.live, r.list, r.idx + 1)
    BY <1>0, JobParts, Zenon
  <2>2. Collect(t) => \/ thread' = [thread EXCEPT ![t] = Idle]
                      \/ /\ r.pc = "collect"
                         /\ thread' = [thread EXCEPT ![t] = [r EXCEPT !.idx = r.idx + 1]]
    BY Zenon DEF Collect, Return
  <2> QED
    BY <2>1, <2>2, Moved, Zenon
<1>12. Add(t) /\ BelowLimit =>
         corpus' = Append(corpus, r.chunk) /\ thread'[t] = Idle /\ Others(t)
  <2>1. Len(Append(corpus, r.chunk)) = Len(corpus) + 1 /\ Len(corpus) \in Nat
    BY DEF TypeOK, Lists
  <2>2. BelowLimit => Len(Append(corpus, r.chunk)) <= MaxChunks
    BY <2>1, ConstantsOK DEF BelowLimit
  <2>3. Add(t) /\ BelowLimit => /\ corpus' = Append(corpus, r.chunk)
                                /\ thread' = [thread EXCEPT ![t] = Idle]
    BY <2>2, Zenon DEF Add, Return
  <2> QED
    BY <2>3, Moved, Zenon
<1>13. Snapshot(t) => \E list \in Lists : Moves(t, "build", r.live, list, r.idx)
  <2> DEFINE kept == {i \in DOMAIN corpus : corpus[i] \notin Scraped}
             list == Picked(corpus, kept)
  <2>1. list \in Lists
    <3> HIDE DEF kept
    <3> QED
      BY PickedElements DEF TypeOK, Lists
  <2>2. Snapshot(t) => thread' = [thread EXCEPT ![t] =
                                   [r EXCEPT !.pc = "build", !.list = list]]
    BY Zenon DEF Snapshot
  <2> HIDE DEF list
  <2>3. Part([r EXCEPT !.pc = "build", !.list = list], r, "build", r.live, list, r.idx)
    BY <1>0, JobParts, Zenon
  <2>4. Snapshot(t) => Moves(t, "build", r.live, list, r.idx)
    BY <2>2, <2>3, Moved, Zenon
  <2> QED
    BY <2>1, <2>4, Zenon
<1> QED
  BY <1>1, <1>2, <1>3, <1>4, <1>5, <1>6, <1>7, <1>8, <1>9, <1>10, <1>11, <1>12, <1>13

-----------------------------------------------------------------------------
(* The invariant of the callers: whoever ingests holds a chunk of the       *)
(* database.                                                                *)
Working ==
  \A t \in Threads :
    /\ thread[t].pc \in {"add", "extend"} => thread[t].kind \in {"add", "stream"}
    /\ thread[t].kind \in {"add", "stream"} => thread[t].chunk \in born

(* Nobody starts to add, and nobody changes the call it works for.          *)
Keeps(u) == /\ thread'[u].kind = thread[u].kind /\ thread'[u].chunk = thread[u].chunk
            /\ \/ thread'[u].pc = thread[u].pc
               \/ thread'[u].pc \notin {"add", "extend"}
Leaves(u) == thread'[u].kind = "search" /\ thread'[u].pc \in {"idle", "check", "ensure"}
Clears(u) == /\ thread'[u].pc \in {"reset", "ensure", "snapshot"}
             /\ thread'[u].kind \notin {"add", "stream"}

LEMMA StillWorking ==
  ASSUME Working, born \subseteq born',
         \A u \in Threads : Keeps(u) \/ Leaves(u) \/ Clears(u)
  PROVE  Working'
BY DEF Working, Keeps, Leaves, Clears

LEMMA StepKeeps ==
  ASSUME TypeOK, Working, NEW t \in Threads, Step(t)
  PROVE  born' = born /\ \A u \in Threads : Keeps(u) \/ Leaves(u)
<1>1. (thread'[t] = Idle \/ thread'[t] = After(t)) /\ Others(t) =>
        \A u \in Threads : Keeps(u) \/ Leaves(u)
  <2>1. Idle.kind = "search" /\ Idle.pc = "idle"
    BY DEF Idle, Job
  <2> QED
    BY <2>1, AfterParts DEF Others, Keeps, Leaves
<1>2. Add(t) => \A u \in Threads : Keeps(u) \/ Leaves(u)
  <2> SUFFICES ASSUME Add(t), NEW u \in Threads PROVE Keeps(u) \/ Leaves(u)
    OBVIOUS
  <2>1. Idle.kind = "search" /\ Idle.pc = "idle"
    BY DEF Idle, Job
  <2>2. thread[u] \in Jobs
    BY DEF TypeOK
  <2> DEFINE longer == Append(corpus, thread[t].chunk)
  <2>3. Part([thread[u] EXCEPT !.live = FALSE, !.list = longer], thread[u], thread[u].pc,
             FALSE, longer, thread[u].idx)
    BY <2>2, JobParts, Zenon
  <2>4. \/ thread' = [thread EXCEPT ![t] = Idle]
        \/ thread' = [v \in Threads |->
                        IF v = t THEN Idle
                        ELSE IF thread[v].live
                             THEN [thread[v] EXCEPT !.live = FALSE, !.list = longer]
                             ELSE thread[v]]
    BY Zenon DEF Add, Return
  <2>5. CASE thread' = [thread EXCEPT ![t] = Idle]
    BY <1>1, <2>5, Moved
  <2>6. \/ thread'[u] = Idle
        \/ thread'[u] = thread[u]
        \/ thread'[u] = [thread[u] EXCEPT !.live = FALSE, !.list = longer]
        \/ thread' = [thread EXCEPT ![t] = Idle]
    BY <2>4, Zenon
  <2> QED
    BY <2>1, <2>3, <2>5, <2>6 DEF Part, Keeps, Leaves
<1>4. born' = born
  BY Zenon DEF Step, Reset, Ensure, Load, Build, Install, Model, Add, Extend, Submit,
         Snapshot, Check, Score, Collect
<1>5. CASE Reset(t) \/ Install(t)
  <2>1. Replaces(t, "ensure") \/ Replaces(t, "model")
    BY <1>5, Effects, Zenon
  <2> QED
    BY <1>4, <2>1 DEF Replaces, Part, Keeps
<1>6. CASE Ensure(t) \/ Load(t) \/ Model(t)
  <2>1. \/ Ends(t)
        \/ \E pc \in {"load", "install"} : \E list : Moves(t, pc, thread[t].live, list, thread[t].idx)
    BY <1>6, Effects, Zenon
  <2>2. Ends(t) => \A u \in Threads : Keeps(u) \/ Leaves(u)
    BY <1>1 DEF Ends
  <2>3. ASSUME NEW pc \in {"load", "install"}, NEW list,
               Moves(t, pc, thread[t].live, list, thread[t].idx)
        PROVE  \A u \in Threads : Keeps(u)
    BY <2>3 DEF Moves, Part, Others, Keeps
  <2> QED
    BY <1>4, <2>1, <2>2, <2>3, Zenon
<1>7. CASE Build(t) \/ Extend(t) \/ Submit(t) \/ Snapshot(t)
  <2>1. \E pc \in {"install", "submit", "build"} : \E live, list :
          Moves(t, pc, live, list, thread[t].idx)
    BY <1>7, Effects, Zenon
  <2> QED
    BY <1>4, <2>1 DEF Moves, Part, Others, Keeps
<1>8. CASE Check(t) \/ Score(t) \/ Collect(t)
  <2>1. \/ thread'[t] = Idle /\ Others(t)
        \/ \E pc \in {"score", "collect"} : \E list, idx :
             Moves(t, pc, thread[t].live, list, idx)
    BY <1>8, Effects, Zenon
  <2>2. ASSUME NEW pc \in {"score", "collect"}, NEW list, NEW idx,
               Moves(t, pc, thread[t].live, list, idx)
        PROVE  \A u \in Threads : Keeps(u)
    BY <2>2 DEF Moves, Part, Others, Keeps
  <2> QED
    BY <1>1, <1>4, <2>1, <2>2, Zenon
<1> QED
  BY <1>2, <1>4, <1>5, <1>6, <1>7, <1>8, Zenon DEF Step

-----------------------------------------------------------------------------
(* Type correctness of the callers and of the index.                        *)
LEMMA TypeNext == TypeOK /\ Working /\ [Next]_vars => TypeOK'
<1> SUFFICES ASSUME TypeOK, Working, [Next]_vars PROVE TypeOK'
  OBVIOUS
<1>0. /\ rows \subseteq Chunks /\ corpus \in Lists /\ calls \in Nat
      /\ \A t \in Threads : thread[t] \in Jobs
      /\ 0 \in Nat /\ <<>> \in Lists /\ FALSE \in BOOLEAN /\ TRUE \in BOOLEAN
  BY EmptySeq, Zenon DEF TypeOK, Lists
<1>1. ASSUME NEW t \in Threads, StartSearch(t) PROVE TypeOK'
  <2>1. Job("ensure", "search", 0) \in Jobs
    BY NewJobType DEF Pcs, Kinds
  <2> QED
    BY <1>1, <2>1, SetType DEF StartSearch, TypeOK
<1>2. ASSUME NEW t \in Threads, NEW kind \in {"add", "stream"}, StartIngest(t, kind)
      PROVE  TypeOK'
  <2>1. PICK c \in Chunks \ born :
          /\ rows' = rows \cup {c} /\ born' = born \cup {c}
          /\ thread' = [thread EXCEPT ![t] =
                          Job(IF kind = "add" THEN "add" ELSE "extend", kind, c)]
    BY <1>2 DEF StartIngest
  <2>2. Job(IF kind = "add" THEN "add" ELSE "extend", kind, c) \in Jobs
    BY NewJobType DEF Pcs, Kinds
  <2>3. thread' \in [Threads -> Jobs]
    BY <2>1, <2>2, SetType
  <2> QED
    BY <1>2, <2>1, <2>3 DEF StartIngest, Call, TypeOK
<1>3. ASSUME NEW t \in Threads, StartReload(t) PROVE TypeOK'
  <2>1. Job("reset", "reload", 0) \in Jobs
    BY NewJobType DEF Pcs, Kinds
  <2>2. thread' \in [Threads -> Jobs]
    BY <1>3, <2>1, SetType DEF StartReload
  <2> QED
    BY <1>3, <2>2 DEF StartReload, Call, TypeOK
<1>4. ASSUME NEW t \in Threads, StartPurge(t) PROVE TypeOK'
  <2>1. Job("snapshot", "purge", 0) \in Jobs
    BY NewJobType DEF Pcs, Kinds
  <2>2. thread' \in [Threads -> Jobs]
    BY <1>4, <2>1, SetType DEF StartPurge
  <2> QED
    BY <1>4, <2>2 DEF StartPurge, Call, TypeOK
<1>5. ASSUME Commit \/ Delete PROVE TypeOK'
  BY <1>5 DEF Commit, Delete, Call, TypeOK
<1>6. ASSUME NEW t \in Threads, Reset(t) PROVE TypeOK'
  <2>1. [thread[t] EXCEPT !.pc = "ensure"] \in Jobs
    <3>1. "ensure" \in Pcs
      BY DEF Pcs
    <3> QED
      BY <1>0, <3>1, JobType, Zenon
  <2>2. corpus' \in Lists /\ thread' \in [Threads -> Jobs]
    BY <1>0, <1>6, <2>1, AssignType DEF Reset
  <2> QED
    BY <1>0, <1>6, <2>2 DEF Reset, TypeOK
<1>7. ASSUME NEW t \in Threads, Ensure(t) PROVE TypeOK'
  <2>1. thread' \in [Threads -> Jobs]
    BY <1>7, AfterType, SetType, GotoType DEF Ensure, Pcs
  <2> QED
    BY <1>7, <2>1 DEF Ensure, TypeOK
<1>8. ASSUME NEW t \in Threads, Load(t) PROVE TypeOK'
  <2>1. ASSUME NEW list \in Listings(rows)
        PROVE  [thread[t] EXCEPT !.pc = "install", !.list = list] \in Jobs
    <3>1. list \in Lists /\ "install" \in Pcs
      BY <1>0, ListingType DEF Pcs
    <3> QED
      BY <1>0, <3>1, JobType, Zenon
  <2>2. thread' \in [Threads -> Jobs]
    BY <1>8, <2>1, AfterType, SetType DEF Load
  <2> QED
    BY <1>8, <2>2 DEF Load, TypeOK
<1>9. ASSUME NEW t \in Threads, Build(t) PROVE TypeOK'
  <2> DEFINE list == Last(IF thread[t].live THEN corpus ELSE thread[t].list)
  <2>1. list \in Lists /\ "install" \in Pcs
    BY <1>0, FieldTypes, LastType DEF Pcs
  <2>2. [thread[t] EXCEPT !.pc = "install", !.live = FALSE, !.list = list] \in Jobs
    BY <1>0, <2>1, JobType, Zenon
  <2>3. thread' \in [Threads -> Jobs]
    BY <1>9, <2>2, SetType DEF Build
  <2> QED
    BY <1>9, <2>3 DEF Build, TypeOK
<1>10. ASSUME NEW t \in Threads, Install(t) PROVE TypeOK'
  <2>1. thread[t].list \in Lists /\ "model" \in Pcs
    BY <1>0, FieldTypes DEF Pcs
  <2>2. [thread[t] EXCEPT !.pc = "model"] \in Jobs
    BY <1>0, <2>1, JobType, Zenon
  <2>3. corpus' \in Lists /\ thread' \in [Threads -> Jobs]
    BY <1>10, <2>1, <2>2, AssignType DEF Install
  <2> QED
    BY <1>10, <2>3 DEF Install, TypeOK
<1>11. ASSUME NEW t \in Threads, Hand(t), born' = born PROVE indexed' \subseteq born'
  BY <1>11 DEF Hand, TypeOK, Working
<1>12. ASSUME NEW t \in Threads, Model(t) PROVE TypeOK'
  <2>1. thread[t].list \in Lists
    BY <1>0, FieldTypes
  <2>2. thread' \in [Threads -> Jobs]
    BY <1>12, AfterType, SetType DEF Model
  <2> QED
    BY <1>11, <1>12, <2>1, <2>2 DEF Model, TypeOK
<1>13. ASSUME NEW t \in Threads, Add(t) PROVE TypeOK'
  <2> DEFINE longer == Append(corpus, thread[t].chunk)
  <2>1. thread[t].chunk \in Chunks
    BY <1>13 DEF Working, Add, TypeOK
  <2>2. longer \in Lists /\ Last(longer) \in Lists
    BY <1>0, <2>1, AppendType, LastType
  <2>3. \A u \in Threads : [thread[u] EXCEPT !.live = FALSE, !.list = longer] \in Jobs
    <3>1. "idle" \in Pcs
      BY DEF Pcs
    <3> QED
      BY <1>0, <2>2, <3>1, JobType, Zenon
  <2>4. corpus' \in Lists /\ (\/ thread' = [thread EXCEPT ![t] = Idle]
                              \/ thread' = [u \in Threads |->
                                   IF u = t THEN Idle
                                   ELSE IF thread[u].live
                                        THEN [thread[u] EXCEPT !.live = FALSE, !.list = longer]
                                        ELSE thread[u]])
    BY <1>13, <2>2, Zenon DEF Add, Return
  <2>5. thread' = [thread EXCEPT ![t] = Idle] => thread' \in [Threads -> Jobs]
    BY IdleType, SetType
  <2>6. \A u \in Threads :
          (IF u = t THEN Idle
           ELSE IF thread[u].live THEN [thread[u] EXCEPT !.live = FALSE, !.list = longer]
           ELSE thread[u]) \in Jobs
    BY <1>0, <2>3, IdleType, Zenon
  <2>7. thread' \in [Threads -> Jobs]
    BY <2>4, <2>5, <2>6, Zenon
  <2> HIDE DEF longer
  <2> QED
    BY <1>11, <1>13, <2>4, <2>7 DEF Add, TypeOK
<1>14. ASSUME NEW t \in Threads, Extend(t) PROVE TypeOK'
  <2>1. thread[t].chunk \in Chunks
    BY <1>14 DEF Working, Extend, TypeOK
  <2>2. Append(corpus, thread[t].chunk) \in Lists
    BY <1>0, <2>1, AppendType
  <2>3. thread' \in [Threads -> Jobs]
    BY <1>14, GotoType DEF Extend, Pcs
  <2> QED
    BY <1>14, <2>2, <2>3 DEF Extend, TypeOK
<1>15. ASSUME NEW t \in Threads, Submit(t) PROVE TypeOK'
  <2>1. "build" \in Pcs
    BY DEF Pcs
  <2>2. [thread[t] EXCEPT !.pc = "build", !.live = TRUE] \in Jobs
    BY <1>0, <2>1, JobType, Zenon
  <2>3. thread' \in [Threads -> Jobs]
    BY <1>15, <2>2, SetType DEF Submit
  <2> QED
    BY <1>15, <2>3 DEF Submit, TypeOK
<1>16. ASSUME NEW t \in Threads, Check(t) PROVE TypeOK'
  <2>1. thread' \in [Threads -> Jobs]
    BY <1>16, IdleType, SetType, GotoType DEF Check, Return, Pcs
  <2> QED
    BY <1>16, <2>1 DEF Check, TypeOK
<1>17. ASSUME NEW t \in Threads, Score(t) PROVE TypeOK'
  <2>1. "collect" \in Pcs /\ model \in Lists /\ 1 \in Nat
    BY DEF Pcs, TypeOK
  <2>2. [thread[t] EXCEPT !.pc = "collect", !.list = model, !.idx = 1] \in Jobs
    BY <1>0, <2>1, JobType, Zenon
  <2>3. thread' \in [Threads -> Jobs]
    BY <1>17, <2>2, IdleType, SetType DEF Score, Return
  <2> QED
    BY <1>17, <2>3 DEF Score, TypeOK
<1>18. ASSUME NEW t \in Threads, Collect(t) PROVE TypeOK'
  <2>1. thread[t].idx \in Nat /\ thread[t].idx + 1 \in Nat /\ "idle" \in Pcs
    BY <1>0, FieldTypes DEF Pcs
  <2>2. [thread[t] EXCEPT !.idx = thread[t].idx + 1] \in Jobs
    BY <1>0, <2>1, JobType, Zenon
  <2>3. thread' \in [Threads -> Jobs]
    BY <1>18, <2>2, IdleType, SetType DEF Collect, Return
  <2> QED
    BY <1>18, <2>3 DEF Collect, TypeOK
<1>19. ASSUME NEW t \in Threads, Snapshot(t) PROVE TypeOK'
  <2> DEFINE kept == {i \in DOMAIN corpus : corpus[i] \notin Scraped}
             list == Picked(corpus, kept)
  <2>1. list \in Lists /\ "build" \in Pcs
    <3> HIDE DEF kept
    <3> QED
      BY <1>0, PickedElements DEF Lists, Pcs
  <2>2. thread' = [thread EXCEPT ![t] = [thread[t] EXCEPT !.pc = "build", !.list = list]]
    BY <1>19, Zenon DEF Snapshot
  <2> HIDE DEF list
  <2>3. [thread[t] EXCEPT !.pc = "build", !.list = list] \in Jobs
    BY <1>0, <2>1, JobType, Zenon
  <2>4. thread' \in [Threads -> Jobs]
    BY <2>2, <2>3, SetType
  <2> QED
    BY <1>19, <2>4 DEF Snapshot, TypeOK
<1>20. CASE UNCHANGED vars
  BY <1>20 DEF vars, TypeOK
<1> QED
  BY <1>1, <1>2, <1>3, <1>4, <1>5, <1>6, <1>7, <1>8, <1>9, <1>10, <1>12, <1>13, <1>14, <1>15,
     <1>16, <1>17, <1>18, <1>19, <1>20, Zenon DEF Next, Step

LEMMA WorkingNext == TypeOK /\ Working /\ [Next]_vars => Working'
<1> SUFFICES ASSUME TypeOK, Working, [Next]_vars PROVE Working'
  OBVIOUS
<1>1. ASSUME NEW t \in Threads, Step(t) PROVE Working'
  BY <1>1, StepKeeps, StillWorking
<1>2. ASSUME NEW t \in Threads, NEW kind \in {"add", "stream"}, StartIngest(t, kind)
      PROVE  Working'
  <2>1. PICK c \in Chunks \ born :
          /\ born' = born \cup {c}
          /\ thread' = [thread EXCEPT ![t] =
                          Job(IF kind = "add" THEN "add" ELSE "extend", kind, c)]
    BY <1>2 DEF StartIngest
  <2>2. /\ thread'[t] = Job(IF kind = "add" THEN "add" ELSE "extend", kind, c)
        /\ \A u \in Threads \ {t} : thread'[u] = thread[u]
    BY <2>1, Moved DEF Others
  <2> QED
    BY <2>1, <2>2 DEF Job, Working
<1>3. ASSUME NEW t \in Threads, StartSearch(t) \/ StartReload(t) \/ StartPurge(t)
      PROVE  Working'
  <2>1. /\ Job("snapshot", "purge", 0).pc = "snapshot" /\ Job("snapshot", "purge", 0).kind = "purge"
        /\ Job("ensure", "search", 0).pc = "ensure" /\ Job("ensure", "search", 0).kind = "search"
        /\ Job("reset", "reload", 0).pc = "reset" /\ Job("reset", "reload", 0).kind = "reload"
    BY DEF Job
  <2>2. /\ thread'[t] \in {Job("ensure", "search", 0), Job("reset", "reload", 0),
                            Job("snapshot", "purge", 0)}
        /\ Others(t)
    BY <1>3, Moved DEF StartSearch, StartReload, StartPurge
  <2>3. born' = born
    BY <1>3 DEF StartSearch, StartReload, StartPurge
  <2> QED
    BY <2>1, <2>2, <2>3, StillWorking DEF Others, Keeps, Clears
<1>4. ASSUME Commit \/ Delete \/ UNCHANGED vars PROVE Working'
  BY <1>4 DEF Commit, Delete, vars, Working
<1> QED
  BY <1>1, <1>2, <1>3, <1>4, Zenon DEF Next

LEMMA TypeInit == Init => TypeOK /\ Working
<1> SUFFICES ASSUME Init PROVE TypeOK /\ Working
  OBVIOUS
<1>1. corpus \in Lists
  BY ListingType, NoList DEF Init
<1>2. Idle.pc = "idle" /\ Idle.kind = "search"
  BY DEF Idle, Job
<1>3. thread \in [Threads -> Jobs]
  BY IdleType DEF Init
<1> QED
  BY <1>1, <1>2, <1>3 DEF Init, TypeOK, Working

(* Every variable keeps its type, whatever calls overlap: the lists hold    *)
(* chunks, and only chunks that were in the database are handed to the      *)
(* index.                                                                   *)
THEOREM TypeCorrect == Spec => []TypeOK
<1>1. Spec => [](TypeOK /\ Working)
  BY TypeInit, TypeNext, WorkingNext, PTL DEF Spec
<1> QED
  BY <1>1, PTL

-----------------------------------------------------------------------------
(* The scores stay aligned with the corpus.                                 *)

(* build_index runs alone, the list of the model it builds begins the       *)
(* corpus until the model is there, and only a rebuild that has not copied  *)
(* its list yet shares it with the index.                                   *)
Mutex      == \A t \in Threads : thread[t].pc \in {"install", "model"} => lock = t
Building   == \A t \in Threads : thread[t].pc = "model" => Begins(thread[t].list, corpus)
LiveBuilds == \A t \in Threads : thread[t].live => thread[t].pc = "build"
AlignInv   == Mutex /\ Building /\ LiveBuilds /\ Aligned

LEMMA BeginsAppend ==
  ASSUME NEW s \in Lists, NEW l \in Lists, NEW c, Begins(s, l)
  PROVE  Begins(s, Append(l, c))
<1>1. Len(s) \in Nat /\ Len(l) \in Nat /\ Len(s) <= Len(l)
  BY DEF Lists, Begins
<1>2. Len(Append(l, c)) = Len(l) + 1 /\ \A i \in 1 .. Len(l) : Append(l, c)[i] = l[i]
  BY DEF Lists
<1>3. \A i \in 1 .. Len(s) : s[i] = l[i] /\ i \in 1 .. Len(l)
  BY <1>1 DEF Begins
<1> QED
  BY <1>1, <1>2, <1>3 DEF Begins

LEMMA BeginsSelf ==
  ASSUME NEW s \in Lists
  PROVE  Begins(s, s) /\ Begins(<<>>, s)
BY DEF Begins, Lists

(* A step outside build_index, by a thread that does not enter it.          *)
LEMMA Outside ==
  ASSUME AlignInv, NEW t \in Threads, Others(t),
         corpus' = corpus /\ model' = model /\ lock' = lock,
         thread[t].pc \notin {"install", "model"},
         thread'[t].pc \notin {"install", "model"},
         thread'[t].live => thread'[t].pc = "build"
  PROVE  AlignInv'
BY DEF AlignInv, Mutex, Building, LiveBuilds, Aligned, Others

(* A step that takes the lock to build an index.                            *)
LEMMA Enter ==
  ASSUME AlignInv, NEW t \in Threads, Others(t), lock = None, lock' = t,
         corpus' = corpus /\ model' = model,
         thread[t].pc \notin {"install", "model"},
         thread'[t].pc = "install", ~thread'[t].live
  PROVE  AlignInv'
BY ConstantsOK DEF AlignInv, Mutex, Building, LiveBuilds, Aligned, Others

(* A chunk at the end of the corpus: every list that began it still does.   *)
LEMMA Longer ==
  ASSUME TypeOK, AlignInv, NEW t \in Threads, NEW c, Others(t), corpus' = Append(corpus, c),
         model' = model /\ lock' = lock,
         thread[t].pc \notin {"install", "model"},
         thread'[t].pc \notin {"install", "model"}, ~thread'[t].live
  PROVE  AlignInv'
<1>1. \A l \in Lists : Begins(l, corpus) => Begins(l, corpus')
  BY BeginsAppend DEF TypeOK
<1>2. model \in Lists /\ \A u \in Threads : thread[u].list \in Lists
  BY FieldTypes DEF TypeOK
<1> QED
  BY <1>1, <1>2 DEF AlignInv, Mutex, Building, LiveBuilds, Aligned, Others

LEMMA AlignStep ==
  ASSUME TypeOK, Working, BelowLimit, AlignInv, NEW t \in Threads, Step(t)
  PROVE  AlignInv'
<1>0. /\ Idle.pc = "idle" /\ ~Idle.live
      /\ ~After(t).live /\ After(t).pc \in {"idle", "check"}
  BY AfterParts, Zenon DEF Idle, Job
<1>1. CASE Reset(t)
  <2>1. \A u \in Threads : thread[u].pc \notin {"install", "model"}
    BY <1>1, ConstantsOK DEF Reset, AlignInv, Mutex
  <2>2. /\ \A u \in Threads : thread'[u].pc \notin {"install", "model"}
        /\ \A u \in Threads : thread'[u].live => thread'[u].pc = "build"
    <3>1. Replaces(t, "ensure") /\ thread[t].pc = "reset"
      BY <1>1, Effects DEF Reset
    <3> QED
      BY <2>1, <3>1 DEF Replaces, Part, AlignInv, LiveBuilds
  <2>3. Begins(model', corpus')
    <3>1. model' = <<>> /\ corpus' = <<>> /\ <<>> \in Lists
      BY <1>1 DEF Reset, Assign, Lists
    <3> QED
      BY <3>1, BeginsSelf
  <2> QED
    BY <2>2, <2>3 DEF AlignInv, Mutex, Building, LiveBuilds, Aligned
<1>2. CASE Ensure(t)
  <2>1. /\ thread[t].pc = "ensure" /\ corpus' = corpus /\ model' = model /\ lock' = lock
        /\ Others(t) /\ thread'[t].pc \in {"idle", "check", "load"}
        /\ ~thread'[t].live
    BY <1>0, <1>2, Effects DEF Ensure, Ends, Moves, Part, AlignInv, LiveBuilds
  <2> QED
    BY <2>1, Outside
<1>3. CASE Load(t)
  <2>1. thread[t].pc = "load" /\ lock = None /\ corpus' = corpus /\ model' = model
    BY <1>3 DEF Load
  <2>2. \/ Others(t) /\ thread'[t].pc \in {"idle", "check"} /\ ~thread'[t].live /\ lock' = lock
        \/ Others(t) /\ thread'[t].pc = "install" /\ ~thread'[t].live /\ lock' = t
    BY <1>0, <1>3, <2>1, Effects DEF Ends, Moves, Part, AlignInv, LiveBuilds
  <2> QED
    BY <2>1, <2>2, Outside, Enter
<1>4. CASE Build(t)
  <2>1. /\ thread[t].pc = "build" /\ lock = None /\ lock' = t
        /\ corpus' = corpus /\ model' = model
    BY <1>4 DEF Build
  <2>2. Others(t) /\ thread'[t].pc = "install" /\ ~thread'[t].live
    BY <1>4, Effects DEF Moves, Part
  <2> QED
    BY <2>1, <2>2, Enter
<1>5. CASE Install(t)
  <2>1. /\ thread[t].pc = "install" /\ lock' = lock /\ corpus' = thread[t].list
        /\ thread[t].list \in Lists /\ ~thread[t].live
    BY <1>5, FieldTypes DEF Install, Assign, TypeOK, AlignInv, LiveBuilds
  <2>2. Replaces(t, "model")
    BY <1>5, Effects
  <2>3. \A u \in Threads \ {t} : thread[u].pc \notin {"install", "model"}
    BY <2>1 DEF AlignInv, Mutex
  <2>4. /\ thread'[t].pc = "model" /\ thread'[t].list = corpus' /\ ~thread'[t].live
        /\ \A u \in Threads \ {t} :
              thread'[u].pc = thread[u].pc /\ (thread'[u].live => thread[u].live)
    BY <2>1, <2>2 DEF Replaces, Part
  <2>5. Begins(corpus', corpus')
    BY <2>1, BeginsSelf
  <2> QED
    BY <2>1, <2>3, <2>4, <2>5 DEF AlignInv, Mutex, Building, LiveBuilds, Aligned
<1>6. CASE Model(t)
  <2>1. thread[t].pc = "model" /\ corpus' = corpus /\ model' = thread[t].list
    BY <1>6 DEF Model
  <2>2. Begins(thread[t].list, corpus)
    BY <2>1 DEF AlignInv, Building
  <2>3. \A u \in Threads \ {t} : thread[u].pc \notin {"install", "model"}
    BY <2>1 DEF AlignInv, Mutex
  <2>4. Others(t) /\ thread'[t].pc \in {"idle", "check"} /\ ~thread'[t].live
    BY <1>0, <1>6, Effects DEF Ends
  <2> QED
    BY <2>1, <2>2, <2>3, <2>4 DEF AlignInv, Mutex, Building, LiveBuilds, Aligned, Others
<1>7. CASE Add(t)
  <2>1. thread[t].pc = "add" /\ model' = model /\ lock' = lock
    BY <1>7 DEF Add
  <2>2. corpus' = Append(corpus, thread[t].chunk) /\ thread'[t] = Idle /\ Others(t)
    BY <1>7, Effects
  <2> QED
    BY <1>0, <2>1, <2>2, Longer
<1>8. CASE Extend(t)
  <2>1. /\ thread[t].pc = "extend" /\ corpus' = Append(corpus, thread[t].chunk)
        /\ model' = model /\ lock' = lock
    BY <1>8 DEF Extend
  <2>2. Others(t) /\ thread'[t].pc = "submit" /\ ~thread'[t].live
    BY <1>8, <2>1, Effects DEF Moves, Part, AlignInv, LiveBuilds
  <2> QED
    BY <2>1, <2>2, Longer
<1>9. CASE Submit(t)
  <2>1. thread[t].pc = "submit" /\ corpus' = corpus /\ model' = model /\ lock' = lock
    BY <1>9 DEF Submit
  <2>2. Others(t) /\ thread'[t].pc = "build"
    BY <1>9, Effects DEF Moves, Part
  <2> QED
    BY <2>1, <2>2, Outside
<1>10. CASE Check(t) \/ Score(t) \/ Collect(t)
  <2>1. /\ thread[t].pc \in {"check", "score", "collect"}
        /\ corpus' = corpus /\ model' = model /\ lock' = lock
    BY <1>10 DEF Check, Score, Collect
  <2>2. \/ thread'[t] = Idle /\ Others(t)
        \/ \E pc \in {"score", "collect"} : \E list, idx :
             Moves(t, pc, thread[t].live, list, idx)
    BY <1>10, Effects, Zenon
  <2>3. Others(t) /\ thread'[t].pc \in {"idle", "score", "collect"} /\ ~thread'[t].live
    BY <1>0, <2>1, <2>2 DEF Moves, Part, AlignInv, LiveBuilds
  <2> QED
    BY <2>1, <2>3, Outside
<1>11. CASE Snapshot(t)
  <2>1. thread[t].pc = "snapshot" /\ corpus' = corpus /\ model' = model /\ lock' = lock
    BY <1>11 DEF Snapshot
  <2>2. Others(t) /\ thread'[t].pc = "build"
    BY <1>11, Effects DEF Moves, Part
  <2> QED
    BY <2>1, <2>2, Outside
<1> QED
  BY <1>1, <1>2, <1>3, <1>4, <1>5, <1>6, <1>7, <1>8, <1>9, <1>10, <1>11, Zenon DEF Step

LEMMA Starts ==
  ASSUME TypeOK, NEW t \in Threads, NEW kind \in {"add", "stream"},
         StartIngest(t, kind) \/ StartSearch(t) \/ StartReload(t) \/ StartPurge(t)
  PROVE  \E pc \in {"add", "extend", "ensure", "reset", "snapshot"}, k \in Kinds : \E c :
           thread'[t] = Job(pc, k, c) /\ Others(t)
<1>1. CASE StartIngest(t, kind)
  <2>1. PICK c : thread' = [thread EXCEPT ![t] =
                              Job(IF kind = "add" THEN "add" ELSE "extend", kind, c)]
    BY <1>1, Zenon DEF StartIngest
  <2>2. thread'[t] = Job(IF kind = "add" THEN "add" ELSE "extend", kind, c) /\ Others(t)
    BY <2>1, Moved
  <2>3. /\ (IF kind = "add" THEN "add" ELSE "extend") \in {"add", "extend"}
        /\ kind \in Kinds
    BY DEF Kinds
  <2> QED
    BY <2>2, <2>3
<1>2. CASE StartSearch(t)
  <2>1. thread'[t] = Job("ensure", "search", 0) /\ Others(t)
    BY <1>2, Moved DEF StartSearch
  <2> QED
    BY <2>1 DEF Kinds
<1>3. CASE StartReload(t)
  <2>1. thread'[t] = Job("reset", "reload", 0) /\ Others(t)
    BY <1>3, Moved DEF StartReload
  <2> QED
    BY <2>1 DEF Kinds
<1>4. CASE StartPurge(t)
  <2>1. thread'[t] = Job("snapshot", "purge", 0) /\ Others(t)
    BY <1>4, Moved DEF StartPurge
  <2> QED
    BY <2>1 DEF Kinds
<1> QED
  BY <1>1, <1>2, <1>3, <1>4

LEMMA AlignNext == TypeOK /\ Working /\ BelowLimit /\ AlignInv /\ [Next]_vars => AlignInv'
<1> SUFFICES ASSUME TypeOK, Working, BelowLimit, AlignInv, [Next]_vars PROVE AlignInv'
  OBVIOUS
<1>1. ASSUME NEW t \in Threads, Step(t) PROVE AlignInv'
  BY <1>1, AlignStep
<1>2. ASSUME NEW t \in Threads, NEW kind \in {"add", "stream"},
             StartIngest(t, kind) \/ StartSearch(t) \/ StartReload(t) \/ StartPurge(t)
      PROVE  AlignInv'
  <2>1. /\ thread[t].pc = "idle"
        /\ corpus' = corpus /\ model' = model /\ lock' = lock
    BY <1>2 DEF StartIngest, StartSearch, StartReload, StartPurge, Busy
  <2>2. PICK pc \in {"add", "extend", "ensure", "reset", "snapshot"}, k \in Kinds : \E d :
          thread'[t] = Job(pc, k, d) /\ Others(t)
    BY <1>2, Starts
  <2>3. PICK c :
          thread'[t] = Job(pc, k, c) /\ Others(t)
    BY <2>2
  <2>4. Job(pc, k, c).pc = pc /\ ~Job(pc, k, c).live
    BY DEF Job
  <2> QED
    BY <2>1, <2>3, <2>4, Outside
<1>4. CASE Commit \/ Delete \/ UNCHANGED vars
  BY <1>4 DEF Commit, Delete, vars, AlignInv, Mutex, Building, LiveBuilds, Aligned
<1> QED
  BY <1>1, <1>2, <1>4, Zenon DEF Next

LEMMA AlignInit == Init => AlignInv
<1> SUFFICES ASSUME Init PROVE AlignInv
  OBVIOUS
<1>1. corpus \in Lists
  BY ListingType, NoList DEF Init
<1>2. Begins(model, corpus)
  BY <1>1, BeginsSelf DEF Init
<1>3. \A t \in Threads : thread[t].pc = "idle" /\ ~thread[t].live
  BY DEF Init, Idle, Job
<1> QED
  BY <1>2, <1>3 DEF AlignInv, Mutex, Building, LiveBuilds, Aligned

(* While the corpus stays below its limit, the i-th score belongs to the    *)
(* i-th chunk between two rebuilds, however many threads add, stream,       *)
(* purge, reload and load at once.                                          *)
THEOREM ScoresAligned == Spec /\ []BelowLimit => []Aligned
<1>1. Spec => [](TypeOK /\ Working)
  BY TypeInit, TypeNext, WorkingNext, PTL DEF Spec
<1>2. Spec /\ [](TypeOK /\ Working) /\ []BelowLimit => []AlignInv
  BY AlignInit, AlignNext, PTL DEF Spec
<1>3. AlignInv => Aligned
  BY DEF AlignInv
<1> QED
  BY <1>1, <1>2, <1>3, PTL

-----------------------------------------------------------------------------
(* Searches are sound when chunks are only added.                           *)

(* The calls of a server that neither streams, purges nor reloads.          *)
OnlyAdds == Calls \subseteq {"search", "add", "commit", "delete"}

(* Nobody rebuilds: the only model that is built is the first, by a load    *)
(* that found none, and a search that has the scores has those of it.       *)
FirstModel ==
  \A t \in Threads :
    /\ thread[t].pc \notin {"reset", "extend", "submit", "build", "snapshot"}
    /\ thread[t].pc \in {"install", "model"} => model = <<>>
    /\ thread[t].pc \in {"score", "collect"} => model # <<>>
    /\ thread[t].pc = "collect" => thread[t].list = model /\ thread[t].idx >= 1

LEMMA SearchSafe ==
  ASSUME TypeOK, AlignInv, FirstModel
  PROVE  SearchIsSound /\ NoSearchError
<1> SUFFICES ASSUME NEW t \in Threads
             PROVE  /\ thread[t].pc = "score" => model # <<>>
                    /\ thread[t].pc = "collect" /\ thread[t].idx <= Len(thread[t].list) =>
                         /\ thread[t].idx <= Len(corpus)
                         /\ corpus[thread[t].idx] = thread[t].list[thread[t].idx]
  BY Zenon DEF SearchIsSound, NoSearchError
<1>1. thread[t].pc = "score" => model # <<>>
  BY DEF FirstModel
<1>2. ASSUME thread[t].pc = "collect", thread[t].idx <= Len(thread[t].list)
      PROVE  /\ thread[t].idx <= Len(corpus)
             /\ corpus[thread[t].idx] = thread[t].list[thread[t].idx]
  <2>1. model # <<>> /\ thread[t].list = model /\ thread[t].idx >= 1
    BY <1>2 DEF FirstModel
  <2>2. Begins(model, corpus)
    BY <2>1 DEF FirstModel, AlignInv, Aligned
  <2>3. /\ thread[t].idx \in Nat /\ Len(model) \in Nat /\ Len(corpus) \in Nat
    BY FieldTypes DEF TypeOK, Lists
  <2>4. thread[t].idx \in 1 .. Len(model) /\ Len(model) <= Len(corpus)
    BY <1>2, <2>1, <2>2, <2>3 DEF Begins
  <2> QED
    BY <2>1, <2>2, <2>3, <2>4 DEF Begins
<1> QED
  BY <1>1, <1>2

(* A step that leaves the model alone, by a thread that does not come to    *)
(* build one and, when it comes to a search, has the model.                 *)
LEMMA ModelStays ==
  ASSUME FirstModel, NEW t \in Threads, Others(t), model' = model,
         thread'[t].pc \notin {"reset", "extend", "submit", "build", "snapshot"},
         thread'[t].pc \in {"install", "model"} => model = <<>>,
         thread'[t].pc \in {"score", "collect"} => model # <<>>,
         thread'[t].pc = "collect" => thread'[t].list = model /\ thread'[t].idx >= 1
  PROVE  FirstModel'
BY DEF FirstModel, Others

LEMMA SearchStep ==
  ASSUME TypeOK, BelowLimit, AlignInv, FirstModel, NEW t \in Threads, Step(t)
  PROVE  FirstModel'
<1>0. Idle.pc = "idle" /\ After(t).pc \in {"idle", "check"}
  BY AfterParts, Zenon DEF Idle, Job
<1>1. CASE Ensure(t)
  <2>1. Others(t) /\ model' = model /\ thread'[t].pc \in {"idle", "check", "load"}
    BY <1>0, <1>1, Effects DEF Ensure, Ends, Moves, Part
  <2> QED
    BY <2>1, ModelStays
<1>2. CASE Load(t)
  <2>1. lock = None /\ model' = model
    BY <1>2 DEF Load
  <2>2. ~Loaded => model = <<>>
    <3>1. Begins(model, corpus)
      BY <2>1, ConstantsOK DEF AlignInv, Mutex, Aligned
    <3>2. Len(model) \in Nat /\ (corpus = <<>> => Len(corpus) = 0)
          /\ (Len(model) = 0 => model = <<>>)
      BY EmptySeq DEF TypeOK, Lists
    <3> QED
      BY <3>1, <3>2 DEF Begins, Loaded
  <2>3. \/ Others(t) /\ thread'[t].pc \in {"idle", "check"}
        \/ ~Loaded /\ Others(t) /\ thread'[t].pc = "install"
    BY <1>0, <1>2, Effects DEF Ends, Moves, Part
  <2> QED
    BY <2>1, <2>2, <2>3, ModelStays
<1>3. CASE Install(t)
  <2>1. model' = model /\ model = <<>> /\ thread[t].pc = "install"
    BY <1>3 DEF Install, FirstModel
  <2>2. \A u \in Threads : ~thread[u].live
    BY DEF FirstModel, AlignInv, LiveBuilds
  <2>3. Replaces(t, "model")
    BY <1>3, Effects
  <2>4. Others(t) /\ thread'[t].pc = "model"
    BY <2>2, <2>3 DEF Replaces, Part, Others
  <2> QED
    BY <2>1, <2>4, ModelStays
<1>4. CASE Model(t)
  <2>1. thread[t].pc = "model" /\ model = <<>>
    BY <1>4 DEF Model, FirstModel
  <2>2. \A u \in Threads \ {t} : thread[u].pc \notin {"install", "model", "score", "collect"}
    BY <2>1 DEF AlignInv, Mutex, FirstModel
  <2>3. Others(t) /\ thread'[t].pc \in {"idle", "check"}
    BY <1>0, <1>4, Effects DEF Ends
  <2> QED
    BY <2>2, <2>3 DEF FirstModel, Others
<1>5. CASE Add(t)
  <2>1. model' = model /\ thread'[t] = Idle /\ Others(t)
    BY <1>5, Effects DEF Add
  <2> QED
    BY <1>0, <2>1, ModelStays
<1>6. CASE Check(t)
  <2>1. model' = model /\ (Loaded => model # <<>>)
    BY <1>6 DEF Check, Loaded
  <2>2. Others(t) /\ (thread'[t].pc = "idle" \/ (Loaded /\ thread'[t].pc = "score"))
    BY <1>0, <1>6, Effects DEF Moves, Part
  <2> QED
    BY <2>1, <2>2, ModelStays
<1>7. CASE Score(t)
  <2>1. model' = model
    BY <1>7 DEF Score
  <2>2. Others(t) /\ (\/ thread'[t].pc = "idle"
                      \/ /\ model # <<>> /\ thread'[t].pc = "collect"
                         /\ thread'[t].list = model /\ thread'[t].idx = 1)
    BY <1>0, <1>7, Effects DEF Moves, Part
  <2> QED
    BY <2>1, <2>2, ModelStays
<1>8. CASE Collect(t)
  <2>1. /\ model' = model /\ thread[t].idx \in Nat /\ thread[t].idx >= 1
        /\ model # <<>> /\ thread[t].list = model
    BY <1>8, FieldTypes DEF Collect, FirstModel, TypeOK
  <2>2. Others(t) /\ (\/ thread'[t].pc = "idle"
                      \/ /\ thread'[t].pc = "collect" /\ thread'[t].list = thread[t].list
                         /\ thread'[t].idx = thread[t].idx + 1)
    BY <1>0, <1>8, Effects DEF Moves, Part
  <2> QED
    BY <2>1, <2>2, ModelStays
<1>9. ~Reset(t) /\ ~Build(t) /\ ~Extend(t) /\ ~Submit(t) /\ ~Snapshot(t)
  BY DEF FirstModel, Reset, Build, Extend, Submit, Snapshot
<1> QED
  BY <1>1, <1>2, <1>3, <1>4, <1>5, <1>6, <1>7, <1>8, <1>9, Zenon DEF Step

LEMMA SearchNext ==
  ASSUME OnlyAdds
  PROVE  TypeOK /\ BelowLimit /\ AlignInv /\ FirstModel /\ [Next]_vars => FirstModel'
<1> SUFFICES ASSUME TypeOK, BelowLimit, AlignInv, FirstModel, [Next]_vars PROVE FirstModel'
  OBVIOUS
<1>1. ASSUME NEW t \in Threads, Step(t) PROVE FirstModel'
  BY <1>1, SearchStep
<1>2. ASSUME NEW t \in Threads, StartSearch(t) PROVE FirstModel'
  <2>1. thread'[t] = Job("ensure", "search", 0) /\ Others(t) /\ model' = model
    BY <1>2, Moved DEF StartSearch
  <2> QED
    BY <2>1, ModelStays DEF Job
<1>3. ASSUME NEW t \in Threads, StartIngest(t, "add") PROVE FirstModel'
  <2>1. PICK c : thread' = [thread EXCEPT ![t] = Job("add", "add", c)]
    BY <1>3 DEF StartIngest
  <2>2. thread'[t] = Job("add", "add", c) /\ Others(t) /\ model' = model
    BY <1>3, <2>1, Moved DEF StartIngest
  <2> QED
    BY <2>2, ModelStays DEF Job
<1>4. ASSUME NEW t \in Threads, StartIngest(t, "stream") \/ StartReload(t) \/ StartPurge(t)
      PROVE  FALSE
  BY <1>4 DEF OnlyAdds, StartIngest, StartReload, StartPurge, Call
<1>5. CASE Commit \/ Delete \/ UNCHANGED vars
  BY <1>5 DEF Commit, Delete, vars, FirstModel
<1> QED
  BY <1>1, <1>2, <1>3, <1>4, <1>5, Zenon DEF Next

LEMMA OnlyFirstModel ==
  ASSUME OnlyAdds PROVE Spec /\ []BelowLimit => [](SearchIsSound /\ NoSearchError)
<1>1. Spec => [](TypeOK /\ Working)
  BY TypeInit, TypeNext, WorkingNext, PTL DEF Spec
<1>2. Spec /\ [](TypeOK /\ Working) /\ []BelowLimit => []AlignInv
  BY AlignInit, AlignNext, PTL DEF Spec
<1>3. Init => FirstModel
  BY DEF Init, FirstModel, Idle, Job
<1>4. Spec /\ []TypeOK /\ []BelowLimit /\ []AlignInv => []FirstModel
  BY <1>3, SearchNext, OnlyAdds, PTL DEF Spec
<1>5. TypeOK /\ AlignInv /\ FirstModel => SearchIsSound /\ NoSearchError
  BY SearchSafe
<1> QED
  BY <1>1, <1>2, <1>4, <1>5, PTL

(* On a server that only adds chunks below the limit of the corpus, the     *)
(* score a search gives a chunk is the score of that chunk, however many    *)
(* searches, loads and additions overlap.                                   *)
THEOREM ScoresFitChunks ==
  ASSUME OnlyAdds PROVE Spec /\ []BelowLimit => []SearchIsSound
BY OnlyFirstModel, PTL

(* And no search of such a server meets a missing model or runs past the    *)
(* end of the corpus.                                                       *)
THEOREM SearchesReturn ==
  ASSUME OnlyAdds PROVE Spec /\ []BelowLimit => []NoSearchError
BY OnlyFirstModel, PTL

-----------------------------------------------------------------------------
(* No chunk is lost when nobody rebuilds from a copy.                       *)

(* The calls of a server whose corpus is only added to and loaded: the      *)
(* rebuilds of a stream and of a purge start from a list of their own.      *)
NoCopies == {"stream", "purge"} \cap Calls = {}

(* Nobody rebuilds, and whoever holds a chunk is about to add it.           *)
NoRebuild ==
  \A t \in Threads :
    /\ thread[t].pc \notin {"extend", "submit", "build", "snapshot"}
    /\ thread[t].kind \in {"add", "stream"} => thread[t].pc = "add"

(* The list of a load has every chunk that was handed over, for the lock    *)
(* keeps the additions out until the load is done; or it is a full one.     *)
LoadsAll ==
  \A t \in Threads : thread[t].pc \in {"install", "model"} =>
    \/ Len(thread[t].list) >= MaxChunks
    \/ rows \cap indexed \subseteq Elems(thread[t].list)
ModelComplete == model # <<>> => rows \cap indexed \subseteq Elems(corpus)
CompleteInv   == NoRebuild /\ LoadsAll /\ ModelComplete

(* A descending list of as many chunks as there are has them all.           *)
LEMMA ListingComplete ==
  ASSUME NEW S \in SUBSET Chunks, NEW list \in Listings(S)
  PROVE  Len(list) >= MaxChunks \/ S \subseteq Elems(list)
<1> DEFINE n == IF Cardinality(S) < MaxChunks THEN Cardinality(S) ELSE MaxChunks
<1>1. IsFiniteSet(S)
  BY ConstantsOK, FS_Subset
<1>2. Cardinality(S) \in Nat /\ n \in Nat
  BY <1>1, FS_CardinalityType, ConstantsOK
<1>3. list \in [1 .. n -> S] /\ \A i, j \in 1 .. n : i < j => list[i] > list[j]
  BY DEF Listings
<1>4. Len(list) = n
  BY <1>2, <1>3
<1>5. CASE Cardinality(S) < MaxChunks
  <2>1. n = Cardinality(S)
    BY <1>5
  <2> HIDE DEF n
  <2>2. \A i \in 1 .. n : list[i] \in Nat
    BY <1>3, ConstantsOK
  <2>3. ASSUME NEW i \in 1 .. n, NEW j \in 1 .. n, list[i] = list[j] PROVE i = j
    BY <1>2, <1>3, <2>2, <2>3
  <2>4. list \in Injection(1 .. n, S)
    BY <1>3, <2>3, Zenon DEF Injection, IsInjective
  <2>5. Cardinality(1 .. n) = n
    BY <1>2, FS_Interval
  <2>6. list \in Surjection(1 .. n, S)
    BY <1>1, <2>1, <2>4, <2>5, FS_Injection
  <2>7. \A c \in S : \E i \in 1 .. n : list[i] = c
    BY <2>6 DEF Surjection
  <2> QED
    BY <1>4, <2>7 DEF Elems
<1> QED
  BY <1>2, <1>4, <1>5, ConstantsOK

LEMMA ElemsGrow ==
  ASSUME NEW s \in Lists, NEW c
  PROVE  Elems(Append(s, c)) = Elems(s) \cup {c}
<1>1. /\ Len(s) \in Nat /\ Len(Append(s, c)) = Len(s) + 1
      /\ \A i \in 1 .. Len(s) : Append(s, c)[i] = s[i]
      /\ Append(s, c)[Len(s) + 1] = c
  BY DEF Lists
<1> QED
  BY <1>1 DEF Elems

LEMMA ElemsBegin ==
  ASSUME NEW s \in Lists, NEW l \in Lists, Begins(s, l)
  PROVE  Elems(s) \subseteq Elems(l) /\ Len(s) <= Len(l)
<1>1. Len(s) \in Nat /\ Len(l) \in Nat /\ Len(s) <= Len(l)
  BY DEF Lists, Begins
<1> QED
  BY <1>1 DEF Elems, Begins

(* A step that leaves the lists alone, by a thread that does not come to    *)
(* install one or to rebuild.                                               *)
LEMMA Completes ==
  ASSUME CompleteInv, NEW t \in Threads, Others(t),
         corpus' = corpus /\ model' = model,
         rows' \cap indexed' \subseteq rows \cap indexed,
         thread'[t].pc \notin {"install", "model", "extend", "submit", "build", "snapshot"},
         thread'[t].kind \in {"add", "stream"} => thread'[t].pc = "add"
  PROVE  CompleteInv'
BY DEF CompleteInv, NoRebuild, LoadsAll, ModelComplete, Others

LEMMA CompleteStep ==
  ASSUME TypeOK, BelowLimit, BelowLimit', AlignInv, CompleteInv, NEW t \in Threads, Step(t)
  PROVE  CompleteInv'
<1>0. /\ Idle.pc = "idle" /\ Idle.kind = "search"
      /\ After(t).pc \in {"idle", "check"} /\ After(t).kind = "search"
  BY AfterParts, Zenon DEF Idle, Job
<1>1. /\ \A u \in Threads : ~thread[u].live
      /\ \A pc : Replaces(t, pc) => Others(t)
  BY DEF Replaces, Others, CompleteInv, NoRebuild, AlignInv, LiveBuilds
<1>2. lock = None => \A u \in Threads : thread[u].pc \notin {"install", "model"}
  BY ConstantsOK DEF AlignInv, Mutex
<1>3. thread[t].kind \in {"add", "stream"} => thread[t].pc = "add"
  BY DEF CompleteInv, NoRebuild
<1>4. CASE Reset(t)
  <2>1. /\ thread[t].pc = "reset" /\ lock = None /\ rows' = rows /\ indexed' = indexed
        /\ model' = <<>>
    BY <1>4 DEF Reset
  <2>2. Others(t) /\ thread'[t].pc = "ensure" /\ thread'[t].kind = thread[t].kind
    BY <1>1, <1>4, Effects DEF Replaces, Part
  <2> QED
    BY <1>2, <1>3, <2>1, <2>2 DEF CompleteInv, NoRebuild, LoadsAll, ModelComplete, Others
<1>5. CASE Ensure(t)
  <2>1. /\ thread[t].pc = "ensure" /\ rows' = rows /\ indexed' = indexed
        /\ corpus' = corpus /\ model' = model
    BY <1>5 DEF Ensure
  <2>2. /\ Others(t) /\ thread'[t].pc \in {"idle", "check", "load"}
        /\ thread'[t].kind \in {"search", thread[t].kind}
    BY <1>0, <1>5, Effects DEF Ends, Moves, Part
  <2> QED
    BY <1>3, <2>1, <2>2, Completes
<1>6. CASE Load(t)
  <2>1. /\ thread[t].pc = "load" /\ rows' = rows /\ indexed' = indexed
        /\ corpus' = corpus /\ model' = model
    BY <1>6 DEF Load
  <2>2. CASE Ends(t)
    BY <1>0, <2>1, <2>2, Completes DEF Ends
  <2>3. CASE \E list \in Listings(rows) :
               Moves(t, "install", thread[t].live, list, thread[t].idx)
    <3>1. PICK list \in Listings(rows) :
                 Moves(t, "install", thread[t].live, list, thread[t].idx)
      BY <2>3
    <3>2. /\ Others(t) /\ thread'[t].pc = "install" /\ thread'[t].list = list
          /\ thread'[t].kind = thread[t].kind
      BY <3>1 DEF Moves, Part
    <3>3. Len(list) >= MaxChunks \/ rows \subseteq Elems(list)
      BY <3>1, ListingComplete DEF TypeOK
    <3> QED
      BY <1>3, <2>1, <3>2, <3>3
      DEF CompleteInv, NoRebuild, LoadsAll, ModelComplete, Others
  <2> QED
    BY <1>6, <2>2, <2>3, Effects
<1>7. CASE Install(t)
  <2>1. /\ thread[t].pc = "install" /\ rows' = rows /\ indexed' = indexed
        /\ corpus' = thread[t].list /\ model' = model
    BY <1>7 DEF Install, Assign
  <2>2. /\ Others(t) /\ thread'[t].pc = "model" /\ thread'[t].kind = thread[t].kind
        /\ thread'[t].list = thread[t].list
    BY <1>1, <1>7, Effects DEF Replaces, Part
  <2>3. ~(Len(thread[t].list) >= MaxChunks)
    <3>1. thread[t].list \in Lists
      BY FieldTypes DEF TypeOK
    <3> QED
      BY <2>1, <3>1, ConstantsOK DEF BelowLimit, Lists
  <2> QED
    BY <1>3, <2>1, <2>2, <2>3 DEF CompleteInv, NoRebuild, LoadsAll, ModelComplete, Others
<1>8. CASE Model(t)
  <2>1. thread[t].pc = "model" /\ rows' = rows /\ corpus' = corpus
    BY <1>8 DEF Model
  <2>2. indexed' = indexed
    BY <1>3, <1>8, <2>1 DEF Model, Hand
  <2>3. Others(t) /\ thread'[t].pc \in {"idle", "check"} /\ thread'[t].kind = "search"
    BY <1>0, <1>8, Effects DEF Ends
  <2>4. thread[t].list \in Lists /\ corpus \in Lists
    BY FieldTypes DEF TypeOK
  <2>5. Elems(thread[t].list) \subseteq Elems(corpus) /\ Len(thread[t].list) <= Len(corpus)
    BY <2>1, <2>4, ElemsBegin DEF AlignInv, Building
  <2>6. rows \cap indexed \subseteq Elems(corpus)
    BY <2>1, <2>4, <2>5, ConstantsOK DEF CompleteInv, LoadsAll, BelowLimit, Lists
  <2> QED
    BY <2>1, <2>2, <2>3, <2>6 DEF CompleteInv, NoRebuild, LoadsAll, ModelComplete, Others
<1>9. CASE Add(t)
  <2>1. lock = None /\ rows' = rows /\ indexed' \subseteq indexed \cup {thread[t].chunk}
        /\ model' = model
    BY <1>9 DEF Add, Hand
  <2>2. corpus' = Append(corpus, thread[t].chunk) /\ thread'[t] = Idle /\ Others(t)
    BY <1>9, Effects
  <2>3. Elems(corpus') = Elems(corpus) \cup {thread[t].chunk}
    BY <2>2, ElemsGrow DEF TypeOK
  <2> QED
    BY <1>0, <1>2, <2>1, <2>2, <2>3
    DEF CompleteInv, NoRebuild, LoadsAll, ModelComplete, Others
<1>10. CASE Check(t) \/ Score(t) \/ Collect(t)
  <2>1. /\ thread[t].pc \in {"check", "score", "collect"}
        /\ rows' = rows /\ indexed' = indexed /\ corpus' = corpus /\ model' = model
    BY <1>10 DEF Check, Score, Collect
  <2>2. \/ thread'[t] = Idle /\ Others(t)
        \/ \E pc \in {"score", "collect"} : \E list, idx :
             Moves(t, pc, thread[t].live, list, idx)
    BY <1>10, Effects, Zenon
  <2>3. /\ Others(t) /\ thread'[t].pc \in {"idle", "score", "collect"}
        /\ thread'[t].kind \in {"search", thread[t].kind}
    BY <1>0, <2>2 DEF Moves, Part
  <2> QED
    BY <1>3, <2>1, <2>3, Completes
<1>11. ~Build(t) /\ ~Extend(t) /\ ~Submit(t) /\ ~Snapshot(t)
  BY DEF CompleteInv, NoRebuild, Build, Extend, Submit, Snapshot
<1> QED
  BY <1>4, <1>5, <1>6, <1>7, <1>8, <1>9, <1>10, <1>11, Zenon DEF Step

LEMMA CompleteNext ==
  ASSUME NoCopies
  PROVE  TypeOK /\ BelowLimit /\ BelowLimit' /\ AlignInv /\ CompleteInv /\ [Next]_vars
           => CompleteInv'
<1> SUFFICES ASSUME TypeOK, BelowLimit, BelowLimit', AlignInv, CompleteInv, [Next]_vars
             PROVE  CompleteInv'
  OBVIOUS
<1>1. ASSUME NEW t \in Threads, Step(t) PROVE CompleteInv'
  BY <1>1, CompleteStep
<1>2. ASSUME NEW t \in Threads, StartSearch(t) \/ StartReload(t) PROVE CompleteInv'
  <2>1. (thread'[t] = Job("ensure", "search", 0) \/ thread'[t] = Job("reset", "reload", 0))
        /\ Others(t)
    BY <1>2, Moved DEF StartSearch, StartReload
  <2>2. /\ rows' = rows /\ indexed' = indexed /\ corpus' = corpus /\ model' = model
        /\ thread'[t].pc \in {"ensure", "reset"} /\ thread'[t].kind \in {"search", "reload"}
    BY <1>2, <2>1 DEF StartSearch, StartReload, Job
  <2> QED
    BY <2>1, <2>2, Completes
<1>3. ASSUME NEW t \in Threads, StartIngest(t, "add") PROVE CompleteInv'
  <2>1. PICK c \in Chunks \ born :
          rows' = rows \cup {c} /\ thread' = [thread EXCEPT ![t] = Job("add", "add", c)]
    BY <1>3 DEF StartIngest
  <2>2. thread'[t] = Job("add", "add", c) /\ Others(t)
    BY <2>1, Moved
  <2>3. /\ rows' \cap indexed' \subseteq rows \cap indexed
        /\ corpus' = corpus /\ model' = model
    BY <1>3, <2>1 DEF StartIngest, TypeOK
  <2>4. Job("add", "add", c).pc = "add" /\ Job("add", "add", c).kind = "add"
    BY DEF Job
  <2> QED
    BY <2>2, <2>3, <2>4, Completes
<1>4. ASSUME NEW t \in Threads, StartIngest(t, "stream") \/ StartPurge(t) PROVE FALSE
  BY <1>4 DEF NoCopies, StartIngest, StartPurge, Call
<1>5. CASE Commit \/ Delete \/ UNCHANGED vars
  <2>1. /\ corpus' = corpus /\ model' = model /\ thread' = thread
        /\ rows' \cap indexed' \subseteq rows \cap indexed
    BY <1>5 DEF Commit, Delete, vars, TypeOK
  <2> QED
    BY <2>1 DEF CompleteInv, NoRebuild, LoadsAll, ModelComplete
<1> QED
  BY <1>1, <1>2, <1>3, <1>4, <1>5, Zenon DEF Next

LEMMA CompleteInit == Init /\ BelowLimit => CompleteInv
<1> SUFFICES ASSUME Init, BelowLimit PROVE CompleteInv
  OBVIOUS
<1>1. corpus = <<>> \/ Len(corpus) >= MaxChunks \/ rows \subseteq Elems(corpus)
  BY ListingComplete DEF Init
<1>2. corpus \in Lists
  BY ListingType, NoList DEF Init
<1>3. model # <<>> => rows \subseteq Elems(corpus)
  BY <1>1, <1>2, ConstantsOK DEF BelowLimit, Lists, Init
<1>4. \A t \in Threads : thread[t].pc = "idle" /\ thread[t].kind = "search"
  BY DEF Init, Idle, Job
<1> QED
  BY <1>3, <1>4 DEF CompleteInv, NoRebuild, LoadsAll, ModelComplete

(* On a server that adds, loads and reloads below the limit of the corpus,  *)
(* a loaded index has every chunk of the database that was handed to it: no *)
(* load loses a chunk that is added meanwhile.  (A stream or a purge        *)
(* rebuilds from a list it copied before, which may lack the chunk.)        *)
THEOREM NoChunkIsLost ==
  ASSUME NoCopies PROVE Spec /\ []BelowLimit => []CorpusComplete
<1>1. Spec => [](TypeOK /\ Working)
  BY TypeInit, TypeNext, WorkingNext, PTL DEF Spec
<1>2. Spec /\ [](TypeOK /\ Working) /\ []BelowLimit => []AlignInv
  BY AlignInit, AlignNext, PTL DEF Spec
<1>3. Spec /\ []TypeOK /\ []BelowLimit /\ []AlignInv => []CompleteInv
  BY CompleteInit, CompleteNext, NoCopies, PTL DEF Spec
<1>4. CompleteInv => CorpusComplete
  BY DEF CompleteInv, ModelComplete, CorpusComplete, Loaded
<1> QED
  BY <1>1, <1>2, <1>3, <1>4, PTL

=============================================================================
