------------------------------ MODULE AnswerProofs ------------------------------
(* What the answers and their companions keep for any documents, requests  *)
(* and rules: the rules of the prompt, the tiers of the documents, the     *)
(* scope of the answers, the cache, and the totals of the conversations.   *)
EXTENDS Answers, DataLemmas, TLAPS

(* The part of a step that concerns the tiers.                             *)
ContextMove ==
  \/ \E d \in Documents, here \in BOOLEAN : Ingest(d, here)
  \/ \E a \in arriving : Arrive(a)
  \/ ContextNext
  \/ \E p \in Procs : SyncFails(p)
  \/ \E gone \in SUBSET Documents : Cascade(gone)
  \/ Forget /\ UNCHANGED rows
Aside == UNCHANGED <<rows, contextVars>>
Deletions == (SUBSET Documents) \cup {None}

(* The part of a step that concerns the rules.                             *)
RuleMove ==
  \/ \E y \in Cycles : \/ \E r \in Rules : StartCycle(y, r)
                       \/ Improve(y)
                       \/ \E score \in 0 .. MaxScore : Baseline(y, score) \/ Decide(y, score)
                       \/ Fail(y)
  \/ Reset
  \/ Crashed

LEMMA AskSteps ==
  ASSUME NEW r \in Asks,
         Advance(r) \/ Take(r) \/ Finish(r) \/ TimeOut(r) \/ Abandon(r)
  PROVE  UNCHANGED <<storeVars, ruleVars>>
<1>1. CASE Connect(r) \/ LookUp(r) \/ Converse(r) \/ Match(r) \/ Overview(r) \/ Retrieve(r)
  BY <1>1 DEF Connect, LookUp, Converse, Match, Overview, Retrieve
<1>2. CASE Rank(r) \/ Enqueue(r) \/ Begin(r) \/ Generated(r) \/ Store(r) \/ AppendVector(r) \/ Reply(r)
  BY <1>2 DEF Rank, Enqueue, Begin, Generated, Store, AppendVector, Reply
<1>3. CASE Take(r) \/ Finish(r) \/ TimeOut(r) \/ Abandon(r)
  BY <1>3 DEF Take, Finish, TimeOut, Abandon
<1> QED
  BY <1>1, <1>2, <1>3 DEF Advance

LEMMA ConversationSteps ==
  ASSUME Conversation PROVE UNCHANGED storeVars /\ (RuleMove \/ UNCHANGED ruleVars)
<1>1. UNCHANGED storeVars
  BY DEF Conversation
<1>2. CASE \E kind \in Kinds \ {"record"}, c \in Chats, by \in 0 .. MaxTasks : Edit(kind, c, by)
  BY <1>1, <1>2 DEF Edit
<1>3. CASE \E t \in 1 .. MaxTasks : TaskStep(t)
  BY <1>1, <1>3 DEF TaskStep, Look, Record, Rate, Drop, Swallow
<1> QED
  BY <1>1, <1>2, <1>3 DEF Conversation, ConversationNext, RuleMove

LEMMA StoreSteps ==
  ASSUME \/ DeletePoints \/ DeleteRows \/ ClearCache \/ CacheStep \/ CacheFault
         \/ \E d \in Documents, here \in BOOLEAN : Upload(d, here)
         \/ \E a \in arriving : Uploaded(a)
         \/ Context(ContextNext) \/ ContextFault
  PROVE  /\ UNCHANGED ruleVars
         /\ deleting \in Deletions => ContextMove \/ Aside
         /\ rows \subseteq Documents /\ deleting \in Deletions => deleting' \in Deletions
<1>1. CASE DeletePoints
  BY <1>1 DEF DeletePoints, One, Batch, Purge, Deletions, Aside
<1>2. CASE ClearCache \/ CacheStep \/ CacheFault
  BY <1>2 DEF ClearCache, CacheStep, CacheFault, Aside, storeVars
<1>3. CASE DeleteRows
  <2>1. /\ deleting \in Deletions => deleting \in SUBSET Documents
        /\ Cascade(deleting) /\ UNCHANGED ruleVars /\ deleting' = None
    BY <1>3 DEF DeleteRows, Deletions
  <2> QED
    BY <2>1 DEF ContextMove, Deletions
<1>4. CASE \E d \in Documents, here \in BOOLEAN : Upload(d, here)
  BY <1>4 DEF Upload, ContextMove
<1>5. CASE \E a \in arriving : Uploaded(a)
  BY <1>5 DEF Uploaded, ContextMove
<1>6. CASE Context(ContextNext) \/ ContextFault
  BY <1>6 DEF Context, ContextFault, ContextMove
<1> QED
  BY <1>1, <1>2, <1>3, <1>4, <1>5, <1>6

LEMMA Moves ==
  ASSUME [Next]_vars
  PROVE  /\ RuleMove \/ UNCHANGED ruleVars
         /\ deleting \in Deletions => ContextMove \/ Aside
         /\ rows \subseteq Documents /\ deleting \in Deletions => deleting' \in Deletions
<1>1. CASE UNCHANGED vars
  BY <1>1 DEF vars, storeVars, Aside
<1>2. CASE (\E a \in Asked : Ask(a)) \/ \E stream \in BOOLEAN : Complete(stream)
  BY <1>2 DEF Ask, Complete, Aside, storeVars
<1>3. CASE Restart
  BY <1>3 DEF Restart, ContextMove, RuleMove, Deletions
<1>4. CASE \/ Conversation
           \/ \E r \in Asks : Advance(r) \/ Take(r) \/ Finish(r) \/ TimeOut(r) \/ Abandon(r)
  BY <1>4, AskSteps, ConversationSteps DEF Aside, storeVars
<1> QED
  BY <1>1, <1>2, <1>3, <1>4, StoreSteps DEF Next

-----------------------------------------------------------------------------
(* The rules.  What a cycle works on is a list that has been scored, and   *)
(* none of it is unsafe: so what it writes, whether it keeps or drops its  *)
(* candidate, is the list it has scored and not only the safe part.        *)
Scored(list) == list \in scored /\ list # {} /\ list \cap Unsafe = {}
CycleType == [at : {"idle", "baseline", "candidate"}, original : SUBSET Rules,
              candidate : Rules \cup {None}, base : 0 .. MaxScore]
RuleInv ==
  /\ cycle \in [Cycles -> CycleType]
  /\ Defaults \in scored /\ scored \subseteq SUBSET Rules
  /\ file \subseteq Rules /\ (file = {} \/ Scored(file))
  /\ \A y \in Cycles : cycle[y].at # "idle" =>
       Scored(cycle[y].original) /\ cycle[y].candidate \in Rules \ Unsafe

LEMMA RulesStart == RuleInit => RuleInv
<1> SUFFICES ASSUME RuleInit PROVE RuleInv
  OBVIOUS
<1>1. Scored(Defaults)
  BY ConversationConstants DEF RuleInit, Scored
<1>2. Idle \in CycleType /\ Idle.at = "idle"
  BY ConversationConstants DEF Idle, CycleType
<1> QED
  BY <1>1, <1>2, ConversationConstants DEF RuleInit, RuleInv, Scored

LEMMA ActiveScored ==
  ASSUME RuleInv PROVE Active \subseteq Rules /\ Scored(Active)
BY ConversationConstants DEF RuleInv, Active, Scored

(* A cycle that begins, of whatever origin its rule is.                    *)
LEMMA CycleBegins ==
  ASSUME RuleInv, NEW y \in Cycles, NEW r \in Rules, StartCycle(y, r)
  PROVE  RuleInv'
<1> DEFINE new == [at |-> "baseline", original |-> Active, candidate |-> r, base |-> 0]
<1>1. new \in CycleType /\ new.original = Active /\ new.candidate = r
  BY ActiveScored, ConversationConstants DEF CycleType
<1>2. cycle' \in {cycle, [cycle EXCEPT ![y] = new]} /\ (r \in Unsafe => cycle' = cycle)
      /\ file' = file /\ scored' = scored
  BY DEF StartCycle
<1> HIDE DEF new
<1> QED
  BY <1>1, <1>2, ActiveScored DEF RuleInv, Scored

LEMMA CycleScored ==
  ASSUME RuleInv, NEW y \in Cycles, NEW score \in 0 .. MaxScore, Baseline(y, score)
  PROVE  RuleInv'
<1> DEFINE new == [cycle[y] EXCEPT !.at = "candidate", !.base = score]
<1>1. cycle[y] \in CycleType
  BY DEF RuleInv
<1>2. new \in CycleType /\ new.original = cycle[y].original /\ new.candidate = cycle[y].candidate
  BY <1>1 DEF CycleType
<1>3. cycle' = [cycle EXCEPT ![y] = new] /\ file' = file /\ scored' = scored
      /\ cycle[y].at # "idle"
  BY DEF Baseline
<1> HIDE DEF new
<1> QED
  BY <1>2, <1>3 DEF RuleInv, Scored

LEMMA CycleStops ==
  ASSUME RuleInv, NEW y \in Cycles, cycle' = [cycle EXCEPT ![y] = Idle],
         scored \subseteq scored', scored' \subseteq SUBSET Rules, file' \subseteq Rules,
         file' = {} \/ Scored(file)' \/ file' = file
  PROVE  RuleInv'
<1>1. Idle \in CycleType /\ Idle.at = "idle"
  BY ConversationConstants DEF Idle, CycleType
<1> QED
  BY <1>1 DEF RuleInv, Scored

LEMMA CycleDecides ==
  ASSUME RuleInv, NEW y \in Cycles, NEW score \in 0 .. MaxScore, Decide(y, score)
  PROVE  RuleInv'
<1> DEFINE original == cycle[y].original
           mutated  == original \cup {cycle[y].candidate}
<1>1. /\ original \subseteq Rules /\ cycle[y].candidate \in Rules /\ Scored(original)
      /\ cycle[y].candidate \notin Unsafe
  BY DEF RuleInv, Decide, CycleType
<1>2. original \ Unsafe = original /\ mutated \ Unsafe = mutated /\ mutated # {}
      /\ mutated \cap Unsafe = {}
  BY <1>1 DEF Scored
<1>3. /\ \/ file' = mutated \ Unsafe /\ scored' = scored \cup {mutated}
         \/ file' = original \ Unsafe /\ scored' = scored
      /\ cycle' = [cycle EXCEPT ![y] = Idle]
  BY DEF Decide
<1> HIDE DEF mutated, original
<1>4. mutated \subseteq Rules
  BY <1>1 DEF mutated
<1>5. scored \subseteq scored' /\ scored' \subseteq SUBSET Rules /\ file' \subseteq Rules
  BY <1>1, <1>2, <1>3, <1>4 DEF RuleInv
<1>6. Scored(file)'
  BY <1>1, <1>2, <1>3 DEF Scored
<1> QED
  BY <1>3, <1>5, <1>6, CycleStops

LEMMA RulesKept == ASSUME RuleInv, RuleMove PROVE RuleInv'
<1>1. CASE \E y \in Cycles, r \in Rules : StartCycle(y, r)
  BY <1>1, CycleBegins
<1>2. CASE \E y \in Cycles : Improve(y)
  <2>1. Suggested \subseteq Rules
    BY ConversationConstants DEF Suggested
  <2> QED
    BY <1>2, <2>1, CycleBegins DEF Improve
<1>3. CASE \E y \in Cycles, score \in 0 .. MaxScore : Baseline(y, score) \/ Decide(y, score)
  BY <1>3, CycleScored, CycleDecides
<1>4. CASE \E y \in Cycles : Fail(y)
  BY <1>4, CycleStops DEF Fail, RuleInv
<1>5. CASE Reset
  BY <1>5, ConversationConstants DEF Reset, RuleInv, Scored
<1>6. CASE Crashed
  <2>1. Idle \in CycleType /\ Idle.at = "idle"
    BY ConversationConstants DEF Idle, CycleType
  <2> QED
    BY <1>6, <2>1 DEF Crashed, RuleInv, Scored
<1> QED
  BY <1>1, <1>2, <1>3, <1>4, <1>5, <1>6 DEF RuleMove

(* Answers are generated under the defaults or under a list of rules that  *)
(* was scored as a whole, whatever cycles, resets and crashes cross.       *)
THEOREM ScoredRules == Spec => []ActiveWasScored
<1>1. RuleInit => RuleInv
  BY RulesStart
<1>2. RuleInv /\ [Next]_vars => RuleInv'
  <2> SUFFICES ASSUME RuleInv, [Next]_vars PROVE RuleInv'
    OBVIOUS
  <2>1. CASE UNCHANGED ruleVars
    BY <2>1 DEF ruleVars, RuleInv, Scored
  <2> QED
    BY <2>1, Moves, RulesKept
<1>3. RuleInv => ActiveWasScored
  BY ActiveScored DEF ActiveWasScored, Scored
<1> QED
  BY <1>1, <1>2, <1>3, PTL DEF Spec

-----------------------------------------------------------------------------
(* The tree.  A request for it that has read the tiers may miss those that *)
(* were stored since it began, no older ones; the tree it makes is stamped *)
(* with that time.                                                         *)
ProcType == [pc : {"idle", "sleep", "lock", "write", "look", "again", "build"},
             tree : BOOLEAN, seen : SUBSET (Documents \cup Uris), at : Nat]
Misses(pr)   == \A u \in DOMAIN tiers : tiers[u].since < pr.at => u \in pr.seen
Truthful(pr) == /\ pr.at <= clock
                /\ pr.pc = "build" => Misses(pr)
                /\ pr.pc = "write" => pr.seen \subseteq Documents
TreeInv ==
  /\ rows \subseteq Documents /\ clock \in Nat
  /\ DOMAIN tiers \subseteq Uris
  /\ \A u \in DOMAIN tiers : tiers[u].since \in Nat /\ tiers[u].since <= clock
  /\ proc \in [Procs -> ProcType]
  /\ \A p \in Procs : Truthful(proc[p])
  /\ \A t \in tree : t.at \in Nat /\ t.at <= clock
  /\ TreeIsRecent

LEMMA AtRest == Resting \in ProcType /\ Resting.pc = "idle" /\ Resting.at = 0 /\ ~Resting.tree
BY DEF Resting, ProcType

(* A step that only moves one of the processes.                            *)
LEMMA ProcSteps ==
  ASSUME TreeInv, NEW p \in Procs, NEW new \in ProcType, Truthful(new),
         proc' = [proc EXCEPT ![p] = new], UNCHANGED <<rows, tiers, tree, clock>>
  PROVE  TreeInv'
BY DEF TreeInv, Truthful, Misses, TreeIsRecent

LEMMA PcSteps ==
  ASSUME TreeInv, NEW p \in Procs, NEW pc \in {"sleep", "lock", "again"}, Step(p, pc)
  PROVE  \E new \in ProcType : /\ Truthful(new) /\ new.pc = pc
                               /\ proc' = [proc EXCEPT ![p] = new]
<1> DEFINE new == [proc[p] EXCEPT !.pc = pc]
<1>1. proc[p] \in ProcType /\ proc[p].at <= clock
  BY DEF TreeInv, Truthful
<1>2. new \in ProcType /\ new.pc = pc /\ new.at = proc[p].at
  BY <1>1 DEF ProcType
<1>3. proc' = [proc EXCEPT ![p] = new]
  BY DEF Step
<1> QED
  BY <1>1, <1>2, <1>3 DEF Truthful

LEMMA Ends ==
  ASSUME TreeInv, NEW p \in Procs, End(p)
  PROVE  Truthful(Resting) /\ Resting \in ProcType /\ proc' = [proc EXCEPT ![p] = Resting]
BY AtRest DEF End, Truthful, TreeInv

LEMMA Scanned ==
  ASSUME TreeInv, NEW p \in Procs, Scan(p)
  PROVE  \E new \in ProcType : /\ Truthful(new) /\ new.pc = "write" /\ new.seen = rows
                               /\ proc' = [proc EXCEPT ![p] = new]
<1> DEFINE new == [proc[p] EXCEPT !.pc = "write", !.seen = rows]
<1>1. proc[p] \in ProcType /\ proc[p].at <= clock /\ rows \subseteq Documents
  BY DEF TreeInv, Truthful
<1>2. new \in ProcType /\ new.pc = "write" /\ new.at = proc[p].at /\ new.seen = rows
  BY <1>1 DEF ProcType
<1>3. proc' = [proc EXCEPT ![p] = new]
  BY DEF Scan
<1> QED
  BY <1>1, <1>2, <1>3 DEF Truthful

LEMMA Requested ==
  ASSUME TreeInv, NEW r \in Readers, GetTree(r) PROVE TreeInv'
<1> DEFINE new == [Resting EXCEPT !.pc = "look", !.tree = TRUE, !.at = clock]
<1>1. new \in ProcType /\ new.pc = "look" /\ new.at = clock
  BY DEF TreeInv, ProcType, Resting
<1>2. proc' = [proc EXCEPT ![r] = new] /\ UNCHANGED <<rows, tiers, tree, clock>>
  BY DEF GetTree
<1>3. Truthful(new)
  BY <1>1 DEF Truthful, TreeInv
<1> QED
  BY <1>1, <1>2, <1>3, ProcSteps DEF Procs

LEMMA TiersRead ==
  ASSUME TreeInv, NEW r \in Readers, LookAt(r) PROVE TreeInv'
<1> DEFINE new == [proc[r] EXCEPT !.pc = "build", !.seen = DOMAIN tiers]
<1>1. UNCHANGED <<rows, tiers, tree, clock>> /\ r \in Procs
  BY DEF LookAt, Procs
<1>2. CASE Step(r, "lock")
  BY <1>1, <1>2, PcSteps, ProcSteps
<1>3. CASE proc' = [proc EXCEPT ![r] = new]
  <2>1. proc[r] \in ProcType /\ proc[r].at <= clock /\ DOMAIN tiers \subseteq Uris
    BY <1>1 DEF TreeInv, Truthful
  <2>2. new \in ProcType /\ new.pc = "build" /\ new.at = proc[r].at /\ new.seen = DOMAIN tiers
    BY <2>1 DEF ProcType
  <2>3. Truthful(new)
    BY <2>1, <2>2 DEF Truthful, Misses
  <2> QED
    BY <1>1, <1>3, <2>2, <2>3, ProcSteps
<1> QED
  BY <1>2, <1>3 DEF LookAt

LEMMA Built ==
  ASSUME TreeInv, NEW r \in Readers, Build(r) PROVE TreeInv'
<1>1. r \in Procs /\ End(r) /\ proc[r].pc = "build" /\ UNCHANGED <<rows, tiers, clock>>
      /\ tree' = {[uris |-> proc[r].seen, at |-> proc[r].at]}
  BY DEF Build, Procs
<1>2. proc[r].at \in Nat /\ proc[r].at <= clock /\ Misses(proc[r])
  BY <1>1 DEF TreeInv, Truthful, ProcType
<1> QED
  BY <1>1, <1>2, Ends DEF TreeInv, Truthful, Misses, TreeIsRecent

(* What a commit does to the tiers: it adds some, stamped with the time.   *)
Adds(p) ==
  /\ DOMAIN tiers \subseteq DOMAIN tiers' /\ DOMAIN tiers' \subseteq Uris
  /\ \A u \in DOMAIN tiers : tiers'[u] = tiers[u]
  /\ \A u \in DOMAIN tiers' \ DOMAIN tiers :
       /\ tiers'[u].since = clock /\ tiers'[u].of \in proc[p].seen
       /\ Uri[tiers'[u].of] = u
  /\ \A d \in proc[p].seen : Uri[d] \in DOMAIN tiers'
  /\ tree' = {} /\ UNCHANGED owed

LEMMA Commits ==
  ASSUME TreeInv, NEW p \in Procs, Write(p)
  PROVE  \/ GiveUp(p) /\ ~(Missing(proc[p].seen) \subseteq rows)
         \/ /\ Adds(p)
            /\ IF proc[p].tree THEN Step(p, "again") ELSE End(p)
<1> DEFINE new == Missing(proc[p].seen)
<1> SUFFICES ASSUME ~(GiveUp(p) /\ ~(new \subseteq rows))
             PROVE  Adds(p) /\ IF proc[p].tree THEN Step(p, "again") ELSE End(p)
  OBVIOUS
<1>1. PICK first \in Firsts(new) :
        tiers' = [u \in DOMAIN tiers \cup DOMAIN first |->
                   IF u \in DOMAIN tiers THEN tiers[u] ELSE [of |-> first[u], since |-> clock]]
  BY DEF Write
<1>2. tree' = {} /\ UNCHANGED owed /\ IF proc[p].tree THEN Step(p, "again") ELSE End(p)
  BY DEF Write
<1>3. /\ DOMAIN first = {Uri[d] : d \in new}
      /\ \A u \in DOMAIN first : first[u] \in new /\ Uri[first[u]] = u
  BY <1>1 DEF Firsts
<1>4. new = {d \in proc[p].seen : Uri[d] \notin DOMAIN tiers}
  BY DEF Missing
<1>5. proc[p].seen \subseteq Documents /\ DOMAIN tiers \subseteq Uris
  BY DEF Write, TreeInv, Truthful
<1> HIDE DEF new
<1>6. DOMAIN first \subseteq Uris
  BY <1>3, <1>4, <1>5 DEF Uris
<1> QED
  BY <1>1, <1>2, <1>3, <1>4, <1>5, <1>6 DEF Adds

LEMMA Written ==
  ASSUME TreeInv, NEW p \in Procs, Write(p) PROVE TreeInv'
<1>1. UNCHANGED <<rows, clock>>
  BY DEF Write
<1>2. CASE GiveUp(p)
  BY <1>1, <1>2, Ends, ProcSteps DEF GiveUp
<1>3. CASE Adds(p) /\ IF proc[p].tree THEN Step(p, "again") ELSE End(p)
  <2>1. PICK new \in ProcType : /\ Truthful(new) /\ new.pc \in {"idle", "again"}
                                /\ proc' = [proc EXCEPT ![p] = new]
    BY <1>3, Ends, PcSteps, AtRest
  <2>2. \A q \in Procs : proc'[q].pc = "build" =>
          proc'[q] = proc[q] /\ Misses(proc[q])
    BY <2>1 DEF TreeInv, Truthful
  <2>3. \A q \in Procs : /\ proc'[q] \in ProcType /\ proc'[q].at <= clock
                         /\ proc'[q].pc = "write" => proc'[q].seen \subseteq Documents
    BY <2>1 DEF TreeInv, Truthful
  <2>4. \A u \in DOMAIN tiers' : tiers'[u].since \in Nat /\ tiers'[u].since <= clock
    BY <1>3 DEF Adds, TreeInv
  <2>5. \A q \in Procs : proc'[q].pc = "build" => Misses(proc[q])'
    BY <1>3, <2>2, <2>3 DEF Misses, Adds, TreeInv, ProcType
  <2>6. tree' = {} /\ DOMAIN tiers' \subseteq Uris /\ proc' \in [Procs -> ProcType]
    BY <1>3, <2>1 DEF Adds, TreeInv
  <2> QED
    BY <1>1, <2>2, <2>3, <2>4, <2>5, <2>6 DEF TreeInv, Truthful, Misses, TreeIsRecent
<1> QED
  BY <1>2, <1>3, Commits

(* The other steps, and what they do to the tiers.                         *)
LEMMA TaskWoken ==
  ASSUME TreeInv, Trigger PROVE UNCHANGED <<rows, tiers, tree, clock>> => TreeInv'
<1>1. CASE UNCHANGED proc
  BY <1>1 DEF TreeInv, Truthful, Misses, TreeIsRecent
<1>2. CASE Step("task", "sleep")
  BY <1>2, PcSteps, ProcSteps DEF Procs
<1> QED
  BY <1>1, <1>2 DEF Trigger

LEMMA ContextNextKeeps ==
  ASSUME TreeInv, ContextNext PROVE TreeInv'
<1>1. CASE Wake \/ \E r \in Readers : Synchronise(r)
  BY <1>1, PcSteps, ProcSteps DEF Wake, Synchronise, Procs
<1>2. CASE \E p \in Procs : Scan(p)
  BY <1>2, Scanned, ProcSteps DEF Scan
<1>3. CASE \E p \in Procs : Write(p)
  BY <1>3, Written
<1>4. CASE \E r \in Readers : LookAt(r) \/ Build(r) \/ GetTree(r)
  BY <1>4, TiersRead, Built, Requested
<1>5. CASE Tick
  BY <1>5 DEF Tick, TreeInv, Truthful, Misses, TreeIsRecent, ProcType
<1> QED
  BY <1>1, <1>2, <1>3, <1>4, <1>5 DEF ContextNext, ContextStep

LEMMA TreeKept ==
  ASSUME TreeInv, ContextMove \/ Aside PROVE TreeInv'
<1>1. CASE Aside
  BY <1>1 DEF Aside, contextVars, TreeInv, Truthful, Misses, TreeIsRecent
<1>2. CASE ContextNext
  BY <1>2, ContextNextKeeps
<1>3. CASE \E d \in Documents, here \in BOOLEAN : Ingest(d, here)
  BY <1>3 DEF Ingest, TreeInv, Truthful, Misses, TreeIsRecent
<1>4. CASE \E a \in arriving : Arrive(a)
  <2>1. UNCHANGED <<rows, tiers, tree, clock>> /\ (Trigger \/ UNCHANGED proc)
    BY <1>4 DEF Arrive
  <2> QED
    BY <2>1, TaskWoken DEF TreeInv, Truthful, Misses, TreeIsRecent
<1>5. CASE \E p \in Procs : SyncFails(p)
  BY <1>5, Ends, ProcSteps DEF SyncFails, GiveUp
<1>6. CASE \E gone \in SUBSET Documents : Cascade(gone)
  <2>1. PICK gone \in SUBSET Documents : Cascade(gone)
    BY <1>6
  <2>2. /\ DOMAIN tiers' \subseteq DOMAIN tiers
        /\ \A u \in DOMAIN tiers' : tiers'[u] = tiers[u]
        /\ rows' \subseteq rows /\ UNCHANGED <<proc, tree, clock>>
    BY <2>1 DEF Cascade, Restrict
  <2> QED
    BY <2>2 DEF TreeInv, Truthful, Misses, TreeIsRecent
<1>7. CASE Forget /\ UNCHANGED rows
  BY <1>7, AtRest DEF Forget, TreeInv, Truthful, Misses, TreeIsRecent
<1> QED
  BY <1>1, <1>2, <1>3, <1>4, <1>5, <1>6, <1>7 DEF ContextMove

Started == /\ rows = Documents /\ tiers = <<>> /\ clock = 0 /\ AnswerInit
LEMMA TreeStarts == Started => TreeInv /\ deleting \in Deletions
BY AtRest DEF Started, AnswerInit, ContextInit, TreeInv, Truthful, TreeIsRecent, Misses, Deletions

(* A tree in memory lacks no tier that was stored before the time it is    *)
(* stamped with, whatever the requests and synchronisations that cross.    *)
THEOREM TreeStaysRecent == Spec => []TreeIsRecent
<1> DEFINE Inv == TreeInv /\ deleting \in Deletions
<1>1. Started => Inv
  BY TreeStarts
<1>2. Inv /\ [Next]_vars => Inv'
  BY Moves, TreeKept DEF TreeInv
<1>3. Inv => TreeIsRecent
  BY DEF TreeInv
<1> QED
  BY <1>1, <1>2, <1>3, PTL DEF Spec, Started

-----------------------------------------------------------------------------
(* The debounced synchronisation.  Where transactions exclude one another, *)
(* what a synchronisation has read is what the database holds until it     *)
(* commits; where no two documents share a tier, a tier goes only with its *)
(* document.                                                               *)
Apart == OneWriter /\ \A d, e \in Documents : Uri[d] = Uri[e] => d = e

Current(p) == proc[p].pc = "write" => proc[p].seen = rows
FollowInv ==
  /\ TreeInv
  /\ owed \subseteq rows /\ \A a \in arriving : a.doc \in rows
  /\ \A u \in DOMAIN tiers : tiers[u].of \in Documents /\ Uri[tiers[u].of] = u
  /\ \A p, q \in Procs : proc[p].pc = "write" /\ proc[q].pc = "write" => p = q
  /\ \A p \in Procs : Current(p)
  /\ proc["task"].pc \in {"idle", "sleep", "lock", "write"} /\ ~proc["task"].tree
  /\ TiersFollow

(* A step of a process that neither begins nor ends a transaction.         *)
LEMMA OthersFollow ==
  ASSUME FollowInv, TreeInv', NEW p \in Readers, NEW new \in ProcType, new.pc # "write",
         proc' = [proc EXCEPT ![p] = new],
         UNCHANGED <<rows, arriving, tiers, owed>>
  PROVE  FollowInv'
<1>1. p \in Procs /\ p # "task" /\ "task" \in Procs
  BY ContextConstants DEF Procs
<1>2. \A q \in Procs : proc'[q] = IF q = p THEN new ELSE proc[q]
  BY DEF FollowInv, TreeInv
<1> QED
  BY <1>1, <1>2 DEF FollowInv, TiersFollow, Coming, Current

LEMMA TaskFollows ==
  ASSUME FollowInv, TreeInv', NEW new \in ProcType, ~new.tree,
         proc' = [proc EXCEPT !["task"] = new],
         new.pc \in {"sleep", "lock"}, proc["task"].pc \in {"idle", "sleep", "lock"},
         UNCHANGED <<rows, tiers>>, arriving' \subseteq arriving,
         owed' \subseteq owed \cup {a.doc : a \in arriving}
  PROVE  FollowInv'
<1>1. "task" \in Procs
  BY DEF Procs
<1>2. \A q \in Procs : proc'[q] = IF q = "task" THEN new ELSE proc[q]
  BY <1>1 DEF FollowInv, TreeInv
<1> QED
  BY <1>1, <1>2 DEF FollowInv, TiersFollow, Coming, Current

LEMMA ScanFollows ==
  ASSUME FollowInv, TreeInv', NEW p \in Procs, Scan(p)
  PROVE  FollowInv'
<1>1. PICK new \in ProcType : /\ new.pc = "write" /\ new.seen = rows
                              /\ proc' = [proc EXCEPT ![p] = new]
  BY Scanned DEF FollowInv
<1>2. \A q \in Procs : proc'[q] = IF q = p THEN new ELSE proc[q]
  BY <1>1 DEF FollowInv, TreeInv
<1>3. \A q \in Procs : proc[q].pc # "write"
  BY DEF Scan
<1>4. proc'["task"].tree = proc["task"].tree /\ "task" \in Procs
  BY DEF Scan, Procs, FollowInv, TreeInv, ProcType
<1>5. UNCHANGED <<rows, arriving, tiers, owed>>
  BY DEF Scan
<1> QED
  BY <1>1, <1>2, <1>3, <1>4, <1>5 DEF FollowInv, TiersFollow, Coming, Current

(* The end of a transaction, with or without effect.                       *)
LEMMA WriteFollows ==
  ASSUME FollowInv, TreeInv', NEW p \in Procs, Write(p) \/ SyncFails(p), Apart
  PROVE  FollowInv'
<1>1. proc[p].pc = "write" /\ proc[p].seen = rows /\ UNCHANGED <<rows, arriving>>
  BY DEF Write, SyncFails, FollowInv, Current
<1>2. "task" \in Procs /\ rows \subseteq Documents
  BY DEF Procs, FollowInv, TreeInv
<1>3. CASE GiveUp(p)
  <2>1. owed' = owed \ rows /\ UNCHANGED tiers /\ proc' = [proc EXCEPT ![p] = Resting]
    BY <1>1, <1>3, Ends DEF GiveUp, FollowInv
  <2>2. \A q \in Procs : proc'[q] = IF q = p THEN Resting ELSE proc[q]
    BY <2>1 DEF FollowInv, TreeInv
  <2> QED
    BY <1>1, <1>2, <2>1, <2>2, AtRest DEF FollowInv, TiersFollow, Coming, Current
<1>4. CASE Adds(p) /\ IF proc[p].tree THEN Step(p, "again") ELSE End(p)
  <2>1. PICK new \in ProcType : /\ proc' = [proc EXCEPT ![p] = new]
                                /\ new.pc \in {"idle", "again"}
                                /\ p = "task" => new = Resting
    BY <1>4, Ends, PcSteps, AtRest DEF FollowInv
  <2>2. \A q \in Procs : proc'[q] = IF q = p THEN new ELSE proc[q]
    BY <2>1 DEF FollowInv, TreeInv
  <2>3. \A d \in rows : Uri[d] \in DOMAIN tiers'
    BY <1>1, <1>4 DEF Adds
  <2>4. \A u \in DOMAIN tiers' : tiers'[u].of \in Documents /\ Uri[tiers'[u].of] = u
    BY <1>1, <1>2, <1>4 DEF Adds, FollowInv
  <2>5. UNCHANGED owed
    BY <1>4 DEF Adds
  <2> QED
    BY <1>1, <1>2, <2>1, <2>2, <2>3, <2>4, <2>5, AtRest DEF FollowInv, TiersFollow, Coming, Current
<1>5. Write(p) => GiveUp(p) \/ (Adds(p) /\ IF proc[p].tree THEN Step(p, "again") ELSE End(p))
  BY Commits DEF FollowInv
<1> QED
  BY <1>3, <1>4, <1>5 DEF SyncFails

LEMMA NextFollows ==
  ASSUME FollowInv, TreeInv', ContextNext, Apart PROVE FollowInv'
<1>1. CASE Wake
  <2>1. PICK new \in ProcType : new.pc = "lock" /\ proc' = [proc EXCEPT !["task"] = new]
    BY <1>1, PcSteps DEF Wake, Procs, FollowInv
  <2>2. proc'["task"].tree = proc["task"].tree /\ proc'["task"] = new
    BY <1>1, <2>1 DEF Wake, Step, Procs, FollowInv, TreeInv, ProcType
  <2> QED
    BY <1>1, <2>1, <2>2, TaskFollows DEF Wake, FollowInv
<1>2. CASE \E r \in Readers : Synchronise(r)
  BY <1>2, PcSteps, OthersFollow DEF Synchronise, Procs, FollowInv
<1>3. CASE \E p \in Procs : Scan(p) \/ Write(p)
  BY <1>3, ScanFollows, WriteFollows
<1>4. CASE \E r \in Readers : LookAt(r) \/ Build(r) \/ GetTree(r)
  <2>1. PICK r \in Readers : LookAt(r) \/ Build(r) \/ GetTree(r)
    BY <1>4
  <2>2. r \in Procs /\ proc[r] \in ProcType /\ DOMAIN tiers \subseteq Uris /\ clock \in Nat
    BY DEF Procs, FollowInv, TreeInv
  <2>3. UNCHANGED <<rows, arriving, tiers, owed>>
    BY <2>1 DEF LookAt, Build, GetTree
  <2> DEFINE built == [proc[r] EXCEPT !.pc = "build", !.seen = DOMAIN tiers]
             asked == [Resting EXCEPT !.pc = "look", !.tree = TRUE, !.at = clock]
  <2>4. /\ built \in ProcType /\ built.pc = "build"
        /\ asked \in ProcType /\ asked.pc = "look"
    BY <2>2 DEF ProcType, Resting
  <2>5. \/ Step(r, "lock") \/ End(r)
        \/ proc' = [proc EXCEPT ![r] = built] \/ proc' = [proc EXCEPT ![r] = asked]
    BY <2>1 DEF LookAt, Build, GetTree
  <2> HIDE DEF built, asked
  <2>6. \E new \in ProcType : new.pc # "write" /\ proc' = [proc EXCEPT ![r] = new]
    BY <2>2, <2>4, <2>5, PcSteps, Ends, AtRest DEF FollowInv
  <2> QED
    BY <2>3, <2>6, OthersFollow
<1>5. CASE Tick
  BY <1>5 DEF Tick, FollowInv, TiersFollow, Coming, Current
<1> QED
  BY <1>1, <1>2, <1>3, <1>4, <1>5 DEF ContextNext, ContextStep

LEMMA MoveFollows ==
  ASSUME FollowInv, TreeInv', ContextMove \/ Aside, Apart PROVE FollowInv'
<1>0. "task" \in Procs
  BY DEF Procs
<1>1. CASE Aside
  BY <1>1 DEF Aside, contextVars, FollowInv, TiersFollow, Coming, Current
<1>2. CASE ContextNext
  BY <1>2, NextFollows
<1>3. CASE \E d \in Documents, here \in BOOLEAN : Ingest(d, here)
  <2>1. PICK d \in Documents, here \in BOOLEAN : Ingest(d, here)
    BY <1>3
  <2>2. /\ rows' = rows \cup {d} /\ d \notin rows /\ UNCHANGED <<proc, tiers, owed>>
        /\ arriving' = arriving \cup {[doc |-> d, here |-> here]}
        /\ \A p \in Procs : proc[p].pc # "write"
    BY <2>1 DEF Ingest, MayBeginContext, Apart
  <2> QED
    BY <1>0, <2>2 DEF FollowInv, TiersFollow, Coming, Current
<1>4. CASE \E a \in arriving : Arrive(a)
  <2>1. PICK a \in arriving : Arrive(a)
    BY <1>4
  <2>2. /\ arriving' = arriving \ {a} /\ a.doc \in rows /\ UNCHANGED <<rows, tiers>>
        /\ owed' \subseteq owed \cup {a.doc}
        /\ owed' = owed \/ Trigger
    BY <2>1 DEF Arrive, FollowInv
  <2>3. CASE UNCHANGED proc
    <3>1. owed' = owed \/ proc["task"].pc # "idle"
      BY <2>2, <2>3, AtRest, <1>0 DEF Trigger, Step, FollowInv, TreeInv, ProcType
    <3> QED
      BY <1>0, <2>2, <2>3, <3>1 DEF FollowInv, TiersFollow, Coming, Current
  <2>4. CASE proc["task"].pc = "idle" /\ Step("task", "sleep")
    <3>1. PICK new \in ProcType : new.pc = "sleep" /\ proc' = [proc EXCEPT !["task"] = new]
      BY <1>0, <2>4, PcSteps DEF FollowInv
    <3>2. ~new.tree
      BY <1>0, <2>4, <3>1 DEF Step, FollowInv, TreeInv, ProcType
    <3> QED
      BY <2>1, <2>2, <2>4, <3>1, <3>2, TaskFollows
  <2> QED
    BY <2>1, <2>3, <2>4 DEF Arrive, Trigger
<1>5. CASE \E p \in Procs : SyncFails(p)
  BY <1>5, WriteFollows
<1>6. CASE \E gone \in SUBSET Documents : Cascade(gone)
  <2>1. PICK gone \in SUBSET Documents : Cascade(gone)
    BY <1>6
  <2>2. /\ rows' = rows \ gone /\ owed' = owed \ gone /\ UNCHANGED proc
        /\ arriving' = {a \in arriving : a.doc \notin gone}
        /\ \A p \in Procs : proc[p].pc # "write"
        /\ DOMAIN tiers' = {u \in DOMAIN tiers : tiers[u].of \notin gone}
        /\ \A u \in DOMAIN tiers' : tiers'[u] = tiers[u]
    BY <2>1 DEF Cascade, MayBeginContext, Apart, Restrict
  <2>3. \A d \in rows' : Uri[d] \in DOMAIN tiers => Uri[d] \in DOMAIN tiers'
    BY <2>2 DEF FollowInv, TreeInv, Apart
  <2> QED
    BY <1>0, <2>2, <2>3 DEF FollowInv, TiersFollow, Coming, Current
<1>7. CASE Forget /\ UNCHANGED rows
  BY <1>0, <1>7, AtRest DEF Forget, FollowInv, TiersFollow, Coming, Current
<1> QED
  BY <1>1, <1>2, <1>3, <1>4, <1>5, <1>6, <1>7 DEF ContextMove

(* A document that this process has ingested has its tier or will get it,  *)
(* where transactions exclude one another and no two documents share one.  *)
THEOREM DocumentsGetTiers == ASSUME Apart PROVE Spec => []TiersFollow
<1> DEFINE Inv == FollowInv /\ deleting \in Deletions
<1>1. Started => Inv
  BY TreeStarts, AtRest
  DEF Started, AnswerInit, ContextInit, FollowInv, TiersFollow, Current, Procs
<1>2. Inv /\ [Next]_vars => Inv'
  BY Moves, TreeKept, MoveFollows DEF TreeInv, FollowInv
<1>3. Inv => TiersFollow
  BY DEF FollowInv
<1> QED
  BY <1>1, <1>2, <1>3, PTL DEF Spec, Started

-----------------------------------------------------------------------------
(* The requests.  What a request is to cite is of its scope.               *)
AskType == [pc : Stages, question : Questions, scope : Scopes,
            stream : BOOLEAN, chat : Chats, docs : SUBSET Documents,
            low : BOOLEAN, mode : {"rag", "general", "chat", "overview"}]
Answering == Stages \ {"reply", "end"}
Cited(a) == /\ a.mode # "overview" => a.docs \subseteq InScope(a.scope)
            /\ a.pc \in Answering => a.mode # "overview"
AskInv == ask \in [Asks -> AskType] /\ \A r \in Asks : Cited(ask[r])

LEMMA AskSet ==
  ASSUME AskInv, NEW r \in Asks, NEW new \in AskType, Cited(new),
         ask' = [ask EXCEPT ![r] = new]
  PROVE  AskInv'
BY DEF AskInv, Cited, InScope

(* Until it has an answer, no request is answered with an overview.        *)
LEMMA InAnswering ==
  ASSUME AskInv, NEW r \in Asks, ask[r].pc \in Answering
  PROVE  ask[r].mode # "overview" /\ ask[r].docs \subseteq InScope(ask[r].scope)
BY DEF AskInv, Cited

LEMMA Goes ==
  ASSUME AskInv, NEW r \in Asks, NEW stage \in Stages, Goto(r, stage),
         ask[r].pc \in Answering \/ stage \in {"reply", "end"}
  PROVE  AskInv'
<1> DEFINE new == [ask[r] EXCEPT !.pc = stage]
<1>1. ask[r] \in AskType /\ Cited(ask[r])
  BY DEF AskInv
<1>2. /\ new \in AskType /\ new.docs = ask[r].docs /\ new.scope = ask[r].scope
      /\ new.mode = ask[r].mode /\ new.pc = stage
  BY <1>1 DEF AskType
<1>4. Cited(new)
  BY <1>1, <1>2 DEF Cited, Answering
<1>3. ask' = [ask EXCEPT ![r] = new]
  BY DEF Goto
<1> HIDE DEF new
<1> QED
  BY <1>2, <1>3, <1>4, AskSet

LEMMA Cites ==
  ASSUME AskInv, NEW r \in Asks, NEW stage \in Stages, NEW low \in BOOLEAN,
         NEW docs, docs \subseteq InScope(ask[r].scope), With(r, stage, docs, low),
         ask[r].pc \in Answering
  PROVE  AskInv'
<1> DEFINE new == [ask[r] EXCEPT !.pc = stage, !.docs = docs, !.low = low]
<1>1. ask[r] \in AskType /\ docs \in SUBSET Documents
  BY DEF AskInv, InScope
<1>2. /\ new \in AskType /\ new.docs = docs /\ new.scope = ask[r].scope
      /\ new.mode = ask[r].mode
  BY <1>1 DEF AskType
<1>4. Cited(new)
  BY <1>2, InAnswering DEF Cited
<1>3. ask' = [ask EXCEPT ![r] = new]
  BY DEF With
<1> HIDE DEF new
<1> QED
  BY <1>2, <1>3, <1>4, AskSet

LEMMA JudgedCites ==
  ASSUME AskInv, NEW r \in Asks, NEW docs, docs \subseteq InScope(ask[r].scope), Judged(r, docs),
         ask[r].pc \in Answering
  PROVE  AskInv'
<1> DEFINE new == [ask[r] EXCEPT !.pc = "generate", !.docs = {}, !.mode = "general"]
<1>1. ask[r] \in AskType /\ ask[r].low \in BOOLEAN
  BY DEF AskInv, AskType
<1>2. new \in AskType /\ Cited(new)
  BY <1>1 DEF AskType, Stages, Cited
<1>3. "generate" \in Stages /\ "reply" \in Stages
  BY DEF Stages
<1>4. CASE ask' = [ask EXCEPT ![r].pc = "generate", ![r].docs = {}, ![r].mode = "general"]
  <2>1. ask' = [ask EXCEPT ![r] = new]
    BY <1>4
  <2> HIDE DEF new
  <2> QED
    BY <1>2, <2>1, AskSet
<1>5. CASE With(r, "reply", {}, TRUE)
  BY <1>3, <1>5, Cites
<1>6. CASE With(r, "generate", docs, ask[r].low)
  BY <1>1, <1>3, <1>6, Cites
<1> QED
  BY <1>4, <1>5, <1>6 DEF Judged

LEMMA AnsweredCites ==
  ASSUME AskInv, NEW r \in Asks, Answered(r), ask[r].pc \in Answering PROVE AskInv'
<1>1. ask[r].docs \subseteq InScope(ask[r].scope) /\ {"store", "end"} \subseteq Stages
  BY InAnswering DEF Stages
<1>2. CASE Grounded(r)
  BY <1>1, <1>2, Cites, JudgedCites DEF Grounded
<1>3. CASE General(r)
  BY <1>1, <1>3, Cites, Goes DEF General
<1> QED
  BY <1>2, <1>3 DEF Answered

LEMMA NotAsked == Unasked \in AskType /\ Unasked.docs = {} /\ Unasked.mode = "rag"
BY AnswerConstants, CacheConstants, ConversationConstants DEF Unasked, AskType, Stages

-----------------------------------------------------------------------------
(* The cache.  What it serves is of the scope of its key, and was stored   *)
(* since the last clear.                                                   *)
Entries == {e \in [key : Questions \X Scopes, answer : SUBSET Documents, stored : Nat,
                   fresh : BOOLEAN] : e.answer \subseteq InScope(e.key[2])}
VectorEntries == {v \in [class : Classes, scope : Scopes, answer : SUBSET Documents,
                         stored : Nat, fresh : BOOLEAN] : v.answer \subseteq InScope(v.scope)}
Since(n, S) == {e \in S : e.stored = n}
CacheInv ==
  /\ clears \in Nat
  /\ memory \in Seq(Since(clears, Entries)) /\ Len(memory) <= MemoryMax
  /\ vectors \in Seq(Since(clears, VectorEntries)) /\ Len(vectors) <= VectorMax
  /\ redis \subseteq Entries
  /\ ~flushing /\ ~missed => \A e \in redis : e.stored = clears

LEMMA NewEntries ==
  ASSUME CacheInv, NEW q \in Questions, NEW s \in Scopes, NEW a, a \subseteq InScope(s)
  PROVE  /\ Entry(Key(q, s), a) \in Since(clears, Entries)
         /\ VectorEntry(q, s, a) \in Since(clears, VectorEntries)
<1>1. Key(q, s) \in Questions \X Scopes /\ Key(q, s)[2] = s
  BY DEF Key
<1>2. Class[q] \in Classes /\ a \in SUBSET Documents /\ clears \in Nat
  BY CacheConstants DEF InScope, CacheInv
<1> HIDE DEF Key
<1>3. Entry(Key(q, s), a) \in Since(clears, Entries)
  BY <1>1, <1>2 DEF Entry, Entries, Since
<1>4. VectorEntry(q, s, a) \in Since(clears, VectorEntries)
  BY <1>2 DEF VectorEntry, VectorEntries, Since, Embedded
<1> QED
  BY <1>3, <1>4

LEMMA TrimmedFits ==
  ASSUME NEW T, NEW seq \in Seq(T), Len(seq) <= MemoryMax, NEW k
  PROVE  Trimmed(k, seq) \in Seq(T) /\ Len(Trimmed(k, seq)) < MemoryMax
<1> DEFINE W == Without(seq, k)
<1>1. W \in Seq(T) /\ Len(W) <= Len(seq)
  BY PickedElements DEF Without
<1> HIDE DEF W
<1>2. MemoryMax \in Nat \ {0}
  BY CacheConstants
<1>3. CASE Len(W) = Len(seq) /\ Len(seq) >= MemoryMax
  <2>1. seq # <<>> /\ Tail(seq) \in Seq(T) /\ Len(Tail(seq)) = Len(seq) - 1
    BY <1>2, <1>3
  <2> QED
    BY <1>2, <1>3, <2>1 DEF Trimmed, W
<1>4. CASE ~(Len(W) = Len(seq) /\ Len(seq) >= MemoryMax)
  BY <1>1, <1>2, <1>4 DEF Trimmed, W
<1> QED
  BY <1>3, <1>4

LEMMA ExactPut ==
  ASSUME CacheInv, NEW k, NEW a, Entry(k, a) \in Since(clears, Entries), PutExact(k, a),
         UNCHANGED <<flushing, clears, missed>>
  PROVE  /\ memory' \in Seq(Since(clears, Entries)) /\ Len(memory') <= MemoryMax
         /\ redis' \subseteq Entries
         /\ ~flushing /\ ~missed => \A e \in redis' : e.stored = clears
<1> DEFINE S == Since(clears, Entries)
<1>1. S \subseteq Entries /\ \A e \in S : e.stored = clears
  BY DEF Since
<1>2. memory \in Seq(S) /\ Len(memory) <= MemoryMax
  BY DEF CacheInv
<1>3. Unexpired(memory) \in Seq(S) /\ Len(Unexpired(memory)) <= MemoryMax
  <2>1. Unexpired(memory) \in Seq(S) /\ Len(Unexpired(memory)) <= Len(memory)
    BY <1>2, PickedElements DEF Unexpired
  <2> QED
    BY <1>2, <2>1, CacheConstants
<1> HIDE DEF S
<1>4. Entry(k, a) \in S
  BY DEF S
<1>5. CASE link = "up" /\ reachable
  BY <1>1, <1>2, <1>4, <1>5 DEF PutExact, CacheInv, S
<1>6. CASE ~(link = "up" /\ reachable)
  <2>1. PICK seq \in {memory, Unexpired(memory)} : memory' = Append(Trimmed(k, seq), Entry(k, a))
    BY <1>6 DEF PutExact
  <2>2. Trimmed(k, seq) \in Seq(S) /\ Len(Trimmed(k, seq)) < MemoryMax
    BY <1>2, <1>3, <2>1, TrimmedFits
  <2>3. memory' \in Seq(S) /\ Len(memory') = Len(Trimmed(k, seq)) + 1
    BY <1>4, <2>1, <2>2
  <2>4. UNCHANGED redis
    BY <1>6 DEF PutExact
  <2> QED
    BY <2>2, <2>3, <2>4, CacheConstants DEF CacheInv, S
<1> QED
  BY <1>5, <1>6

LEMMA VectorPut ==
  ASSUME CacheInv, NEW q \in Questions, NEW s \in Scopes, NEW a, a \subseteq InScope(s),
         PutVector(q, s, a)
  PROVE  vectors' \in Seq(Since(clears, VectorEntries)) /\ Len(vectors') <= VectorMax
<1> DEFINE S == Since(clears, VectorEntries)
           base == IF Len(vectors) >= VectorMax THEN Tail(vectors) ELSE vectors
<1>1. vectors \in Seq(S) /\ Len(vectors) <= VectorMax /\ VectorMax \in Nat \ {0}
  BY CacheConstants DEF CacheInv
<1>2. VectorEntry(q, s, a) \in S
  BY NewEntries
<1> HIDE DEF S
<1>3. base \in Seq(S) /\ Len(base) < VectorMax
  <2>1. CASE Len(vectors) >= VectorMax
    <3>1. vectors # <<>> /\ Tail(vectors) \in Seq(S) /\ Len(Tail(vectors)) = Len(vectors) - 1
      BY <1>1, <2>1
    <3> QED
      BY <1>1, <2>1, <3>1
  <2> QED
    BY <1>1, <2>1
<1>4. vectors' = Append(base, VectorEntry(q, s, a))
  BY DEF PutVector
<1> HIDE DEF base
<1> QED
  BY <1>1, <1>2, <1>3, <1>4 DEF S

LEMMA LookedUp ==
  ASSUME CacheInv, NEW k
  PROVE  Looked(k) \in Seq(Since(clears, Entries)) /\ Len(Looked(k)) <= MemoryMax
<1> DEFINE S == Since(clears, Entries)
           W == Without(memory, k)
           e == CHOOSE x \in InMemory(k) : TRUE
<1>1. memory \in Seq(S) /\ Len(memory) <= MemoryMax /\ MemoryMax \in Nat
  BY CacheConstants DEF CacheInv
<1>2. W \in Seq(S) /\ Len(W) <= Len(memory)
  BY <1>1, PickedElements DEF Without
<1>3. CASE InRedis(k) # {} \/ InMemory(k) = {}
  BY <1>1, <1>3 DEF Looked
<1>4. CASE ~(InRedis(k) # {} \/ InMemory(k) = {})
  <2>1. e \in InMemory(k)
    BY <1>4
  <2>2. PICK i \in DOMAIN memory : e = memory[i] /\ memory[i].key = k
    BY <2>1 DEF InMemory, Elements
  <2> HIDE DEF S, W, e
  <2>3. e \in S /\ Len(W) < Len(memory)
    <3>1. i \notin {j \in DOMAIN memory : memory[j].key # k}
      BY <2>2
    <3>2. ~(DOMAIN memory \subseteq {j \in DOMAIN memory : memory[j].key # k})
      BY <2>2, <3>1
    <3>3. Len(W) < Len(memory)
      BY <1>1, <3>2, PickedElements DEF Without, W
    <3> QED
      BY <1>1, <2>2, <3>3
  <2>4. Looked(k) \in {Append(W, e), W}
    BY <1>4 DEF Looked, W, e
  <2>5. Append(W, e) \in Seq(S) /\ Len(Append(W, e)) = Len(W) + 1
    BY <1>2, <2>3
  <2>6. Len(W) \in Nat /\ Len(memory) \in Nat
    BY <1>1, <1>2
  <2> QED
    BY <1>1, <1>2, <2>3, <2>4, <2>5, <2>6 DEF S
<1> QED
  BY <1>3, <1>4

LEMMA CacheInScope ==
  ASSUME CacheInv, NEW q \in Questions, NEW s \in Scopes
  PROVE  \A docs \in Found(Key(q, s)) \cup Similar(q, s) : docs \subseteq InScope(s)
<1>1. Elements(memory) \subseteq Entries /\ Elements(vectors) \subseteq VectorEntries
      /\ redis \subseteq Entries
  BY DEF CacheInv, Elements, Since
<1>2. \A e \in Entries : e.key = <<q, s>> => e.answer \subseteq InScope(s)
  BY DEF Entries
<1>3. \A v \in VectorEntries : v.scope = s => v.answer \subseteq InScope(s)
  BY DEF VectorEntries
<1>4. Found(Key(q, s)) \subseteq {e.answer : e \in {x \in Entries : x.key = <<q, s>>}}
  BY <1>1 DEF Found, InRedis, InMemory, Key
<1>5. Similar(q, s) \subseteq {v.answer : v \in {x \in VectorEntries : x.scope = s}}
  BY <1>1 DEF Similar
<1> HIDE DEF Entries, VectorEntries
<1> QED
  BY <1>2, <1>3, <1>4, <1>5

LEMMA Finds ==
  ASSUME AskInv, CacheInv, \A u \in DOMAIN tiers : tiers[u].of \in Documents, NEW r \in Asks,
         Connect(r) \/ LookUp(r) \/ Converse(r) \/ Match(r) \/ Overview(r) \/ Retrieve(r)
  PROVE  AskInv'
<1>1. /\ {"dial", "look", "match", "retrieve", "rank", "reply"} \subseteq Stages
      /\ ask[r].question \in Questions /\ ask[r].scope \in Scopes
  BY DEF Stages, AskInv, AskType
<1>7. ask[r].pc \in Answering
  BY DEF Connect, LookUp, Converse, Match, Overview, Retrieve, At, Answering, Stages
<1>2. CASE Connect(r) \/ Converse(r)
  BY <1>1, <1>2, <1>7, Goes DEF Connect, Converse
<1>3. CASE LookUp(r)
  <2>1. \A docs \in Found(ScopedKey(r)) : docs \subseteq InScope(ask[r].scope)
    BY <1>1, CacheInScope DEF ScopedKey
  <2> QED
    BY <1>1, <1>3, <1>7, <2>1, Goes, Cites DEF LookUp
<1>4. CASE Match(r)
  <2>1. \A docs \in Similar(ask[r].question, ask[r].scope) : docs \subseteq InScope(ask[r].scope)
    BY <1>1, CacheInScope
  <2> QED
    BY <1>1, <1>4, <1>7, <2>1, Goes, Cites DEF Match
<1>5. CASE Overview(r)
  <2>1. PICK docs \in {{}} \cup {{tiers[u].of} : u \in Overviewed(ask[r].scope)} :
          ask' = [ask EXCEPT ![r].pc = "reply", ![r].docs = docs, ![r].mode = "overview"]
    BY <1>5 DEF Overview
  <2> DEFINE new == [ask[r] EXCEPT !.pc = "reply", !.docs = docs, !.mode = "overview"]
  <2>2. docs \subseteq Documents
    BY <2>1 DEF Overviewed
  <2>3. new \in AskType /\ Cited(new)
    BY <1>1, <2>2 DEF AskInv, AskType, Cited, Answering
  <2>4. ask' = [ask EXCEPT ![r] = new]
    BY <2>1
  <2> HIDE DEF new
  <2> QED
    BY <2>3, <2>4, AskSet
<1>6. CASE Retrieve(r)
  <2>1. PICK dense \in Dense(r), sparse \in Sparse(r) :
               \/ Judged(r, {})
               \/ With(r, "rank", dense \cup sparse, FALSE)
    BY <1>6 DEF Retrieve
  <2>2. dense \cup sparse \subseteq InScope(ask[r].scope)
    BY <2>1 DEF Dense, Sparse, Scoped
  <2> QED
    BY <1>1, <1>7, <2>1, <2>2, Cites, JudgedCites
<1> QED
  BY <1>2, <1>3, <1>4, <1>5, <1>6

LEMMA AnswersCite ==
  ASSUME AskInv, NEW r \in Asks,
         \/ Rank(r) \/ Enqueue(r) \/ Begin(r) \/ Generated(r) \/ Store(r) \/ AppendVector(r)
         \/ Reply(r) \/ Take(r) \/ Finish(r) \/ TimeOut(r) \/ Abandon(r)
  PROVE  AskInv'
<1>1. {"ranking", "queued", "generating", "append", "reply", "end"} \subseteq Stages
  BY DEF Stages
<1>2. CASE Rank(r)
  <2>3. ask[r].pc \in Answering
    BY <1>2 DEF Rank, At, Answering, Stages
  <2>1. CASE Goto(r, "ranking")
    BY <1>1, <2>1, <2>3, Goes
  <2>2. ASSUME NEW docs \in Reranked(ask[r].docs), NEW evidence \in Graded(docs),
               Judged(r, evidence)
        PROVE  AskInv'
    <3>1. evidence \subseteq ask[r].docs /\ ask[r].docs \subseteq InScope(ask[r].scope)
      BY <2>2, <2>3, InAnswering DEF Reranked, Graded
    <3>2. evidence \subseteq InScope(ask[r].scope)
      BY <3>1
    <3> QED
      BY <2>2, <2>3, <3>2, JudgedCites
  <2> QED
    BY <1>2, <2>1, <2>2 DEF Rank
<1>3. CASE Enqueue(r) \/ Begin(r) \/ Generated(r)
  <2>1. ask[r].pc \in Answering
    BY <1>3 DEF Enqueue, Begin, Generated, At, Answering, Stages
  <2> QED
    BY <1>1, <1>3, <2>1, Goes, AnsweredCites DEF Enqueue, Begin, Generated
<1>4. CASE TimeOut(r) \/ Abandon(r)
  <2>1. TimeOut(r) => ask[r].pc \in Answering
    BY DEF TimeOut, At, Answering, Stages
  <2> QED
    BY <1>1, <1>4, <2>1, Goes, AnsweredCites DEF TimeOut, Abandon
<1>5. CASE Store(r) \/ AppendVector(r) \/ Reply(r)
  <2>1. Store(r) \/ AppendVector(r) => ask[r].pc \in Answering
    BY DEF Store, AppendVector, At, Answering, Stages
  <2> QED
    BY <1>1, <1>5, <2>1, Goes DEF Store, AppendVector, Reply
<1>6. CASE Take(r) \/ Finish(r)
  BY <1>6 DEF Take, Finish, AskInv
<1> QED
  BY <1>2, <1>3, <1>4, <1>5, <1>6

LEMMA Starts ==
  ASSUME AskInv, asks \in 0 .. MaxAsks,
         (\E a \in Asked : Ask(a)) \/ (\E stream \in BOOLEAN : Complete(stream)) \/ Restart
  PROVE  AskInv'
<1>1. CASE \E a \in Asked : Ask(a)
  <2>1. PICK a \in Asked : Ask(a)
    BY <1>1
  <2> DEFINE new == [Unasked EXCEPT !.pc = "look", !.question = a.question, !.scope = a.scope,
                                    !.stream = a.stream, !.chat = a.chat]
  <2>2. a \in [question : Questions, scope : Scopes, stream : BOOLEAN, chat : Chats]
    BY AnswerConstants
  <2>3. new \in AskType /\ Cited(new)
    BY <2>2, NotAsked DEF AskType, Stages, Cited
  <2>4. ask' = [ask EXCEPT ![asks + 1] = new] /\ asks < MaxAsks
    BY <2>1 DEF Ask
  <2>5. asks + 1 \in Asks
    BY <2>4, AnswerConstants DEF Asks
  <2> HIDE DEF new
  <2> QED
    BY <2>3, <2>4, <2>5, AskSet
<1>2. CASE \E stream \in BOOLEAN : Complete(stream)
  <2>1. PICK stream \in BOOLEAN : Complete(stream)
    BY <1>2
  <2> DEFINE new == [Unasked EXCEPT !.pc = "generate", !.stream = stream, !.mode = "chat"]
  <2>2. new \in AskType /\ Cited(new)
    BY <2>1, NotAsked DEF AskType, Stages, Cited
  <2>3. ask' = [ask EXCEPT ![asks + 1] = new] /\ asks < MaxAsks
    BY <2>1 DEF Complete
  <2>4. asks + 1 \in Asks
    BY <2>3, AnswerConstants DEF Asks
  <2> HIDE DEF new
  <2> QED
    BY <2>2, <2>3, <2>4, AskSet
<1>3. CASE Restart
  <2>1. ask' = [r \in Asks |-> IF At(r, "none") THEN ask[r] ELSE [ask[r] EXCEPT !.pc = "end"]]
    BY <1>3 DEF Restart
  <2>2. ASSUME NEW r \in Asks
        PROVE  ask'[r] \in AskType /\ Cited(ask'[r])
    <3> DEFINE new == [ask[r] EXCEPT !.pc = "end"]
    <3>1. ask[r] \in AskType /\ Cited(ask[r])
      BY DEF AskInv
    <3>2. new \in AskType /\ Cited(new)
      BY <3>1 DEF AskType, Stages, Cited, Answering
    <3>3. ask'[r] \in {ask[r], new}
      BY <2>1
    <3> HIDE DEF new
    <3> QED
      BY <3>1, <3>2, <3>3
  <2> QED
    BY <2>1, <2>2 DEF AskInv, Cited, InScope
<1> QED
  BY <1>1, <1>2, <1>3

(* A step that is none of a request.                                       *)
Elsewhere ==
  \/ DeletePoints \/ DeleteRows \/ ClearCache \/ CacheStep \/ CacheFault
  \/ Conversation
  \/ \E d \in Documents, here \in BOOLEAN : Upload(d, here)
  \/ \E a \in arriving : Uploaded(a)
  \/ Context(ContextNext) /\ UNCHANGED faults
  \/ ContextFault

LEMMA AskKept ==
  ASSUME AskInv, CacheInv, asks \in 0 .. MaxAsks, [Next]_vars,
         \A u \in DOMAIN tiers : tiers[u].of \in Documents
  PROVE  AskInv'
<1>1. CASE UNCHANGED vars \/ Elsewhere
  <2>1. UNCHANGED ask
    BY <1>1 DEF vars, Elsewhere, DeletePoints, DeleteRows, ClearCache, CacheStep, CacheFault,
         Conversation, Upload, Uploaded, Context, ContextFault
  <2> QED
    BY <2>1 DEF AskInv, Cited, InScope
<1>2. CASE (\E a \in Asked : Ask(a)) \/ (\E stream \in BOOLEAN : Complete(stream)) \/ Restart
  BY <1>2, Starts
<1>3. CASE \E r \in Asks : Advance(r) \/ Take(r) \/ Finish(r) \/ TimeOut(r) \/ Abandon(r)
  BY <1>3, Finds, AnswersCite DEF Advance
<1> QED
  BY <1>1, <1>2, <1>3 DEF Next, Elsewhere

-----------------------------------------------------------------------------
LEMMA EmptySeq == \A T : <<>> \in Seq(T) /\ Len(<<>>) = 0
OBVIOUS

(* A step that leaves the cache alone.                                     *)
LEMMA CacheAside == ASSUME CacheInv, UNCHANGED cacheVars PROVE CacheInv'
BY DEF CacheInv, cacheVars

LEMMA CacheServes ==
  ASSUME AskInv, CacheInv, NEW r \in Asks, Connect(r) \/ LookUp(r) \/ Match(r)
  PROVE  CacheInv'
<1>1. CASE Connect(r)
  BY <1>1 DEF Connect, CacheInv
<1>2. CASE LookUp(r)
  BY <1>2, LookedUp DEF LookUp, CacheInv
<1>3. CASE Match(r)
  <2>1. vectors' = Swept /\ UNCHANGED <<memory, redis, flushing, clears, missed>>
    BY <1>3 DEF Match
  <2>2. vectors \in Seq(Since(clears, VectorEntries)) /\ Len(vectors) <= VectorMax
    BY DEF CacheInv
  <2>3. Swept \in Seq(Since(clears, VectorEntries)) /\ Len(Swept) <= Len(vectors)
    BY <2>2, PickedElements DEF Swept, Unexpired
  <2>4. Len(Swept) <= VectorMax
    BY <2>2, <2>3, CacheConstants
  <2> QED
    BY <2>1, <2>3, <2>4 DEF CacheInv
<1> QED
  BY <1>1, <1>2, <1>3

LEMMA CacheTakes ==
  ASSUME AskInv, CacheInv, NEW r \in Asks, Store(r) \/ AppendVector(r)
  PROVE  CacheInv'
<1>1. /\ ask[r].question \in Questions /\ ask[r].scope \in Scopes
      /\ ask[r].docs \subseteq InScope(ask[r].scope)
  <2>1. ask[r].pc \in Answering
    BY DEF Store, AppendVector, At, Answering, Stages
  <2> QED
    BY <2>1, InAnswering DEF AskInv, AskType
<1>2. CASE Store(r)
  <2>1. /\ PutExact(ScopedKey(r), ask[r].docs) /\ UNCHANGED <<flushing, clears, missed>>
        /\ \/ UNCHANGED vectors
           \/ PutVector(ask[r].question, ask[r].scope, ask[r].docs)
    BY <1>2 DEF Store
  <2>2. Entry(ScopedKey(r), ask[r].docs) \in Since(clears, Entries)
    BY <1>1, NewEntries DEF ScopedKey
  <2>3. /\ memory' \in Seq(Since(clears, Entries)) /\ Len(memory') <= MemoryMax
        /\ redis' \subseteq Entries
        /\ ~flushing /\ ~missed => \A e \in redis' : e.stored = clears
    BY <2>1, <2>2, ExactPut
  <2>4. vectors' \in Seq(Since(clears, VectorEntries)) /\ Len(vectors') <= VectorMax
    BY <1>1, <2>1, VectorPut DEF CacheInv
  <2> QED
    BY <2>1, <2>3, <2>4 DEF CacheInv
<1>3. CASE AppendVector(r)
  BY <1>1, <1>3, VectorPut DEF AppendVector, CacheInv
<1> QED
  BY <1>2, <1>3

LEMMA CacheCleared == ASSUME CacheInv, Clear PROVE CacheInv'
<1>1. memory' = <<>> /\ vectors' = <<>> /\ clears' \in Nat /\ redis' \subseteq Entries
  BY DEF Clear, CacheInv
<1>2. flushing' \/ missed'
  BY DEF Clear
<1> QED
  BY <1>1, <1>2, EmptySeq, CacheConstants DEF CacheInv

LEMMA Ages ==
  ASSUME NEW n, NEW i \in DOMAIN memory, memory \in Seq(Since(n, Entries))
  PROVE  /\ [memory EXCEPT ![i].fresh = FALSE] \in Seq(Since(n, Entries))
         /\ Len([memory EXCEPT ![i].fresh = FALSE]) = Len(memory)
<1> DEFINE new == [memory[i] EXCEPT !.fresh = FALSE]
<1>1. memory[i] \in Since(n, Entries)
  OBVIOUS
<1>2. new \in Since(n, Entries)
  BY <1>1 DEF Since, Entries
<1> HIDE DEF new
<1>3. [memory EXCEPT ![i] = new] \in Seq(Since(n, Entries))
      /\ Len([memory EXCEPT ![i] = new]) = Len(memory)
  BY <1>2
<1> QED
  BY <1>3 DEF new

LEMMA VectorAges ==
  ASSUME NEW n, NEW i \in DOMAIN vectors, vectors \in Seq(Since(n, VectorEntries))
  PROVE  /\ [vectors EXCEPT ![i].fresh = FALSE] \in Seq(Since(n, VectorEntries))
         /\ Len([vectors EXCEPT ![i].fresh = FALSE]) = Len(vectors)
<1> DEFINE new == [vectors[i] EXCEPT !.fresh = FALSE]
<1>1. vectors[i] \in Since(n, VectorEntries)
  OBVIOUS
<1>2. new \in Since(n, VectorEntries)
  BY <1>1 DEF Since, VectorEntries
<1> HIDE DEF new
<1>3. [vectors EXCEPT ![i] = new] \in Seq(Since(n, VectorEntries))
      /\ Len([vectors EXCEPT ![i] = new]) = Len(vectors)
  BY <1>2
<1> QED
  BY <1>3 DEF new

LEMMA Expires == ASSUME CacheInv, Expire PROVE CacheInv'
<1>1. CASE (\E i \in DOMAIN memory : memory' = [memory EXCEPT ![i].fresh = FALSE])
           /\ UNCHANGED <<vectors, redis, flushing, clears, missed>>
  BY <1>1, Ages DEF CacheInv
<1>2. CASE (\E i \in DOMAIN vectors : vectors' = [vectors EXCEPT ![i].fresh = FALSE])
           /\ UNCHANGED <<memory, redis, flushing, clears, missed>>
  BY <1>2, VectorAges DEF CacheInv
<1>3. CASE (\E e \in redis : redis' = redis \ {e})
           /\ UNCHANGED <<memory, vectors, flushing, clears, missed>>
  BY <1>3 DEF CacheInv
<1> QED
  BY <1>1, <1>2, <1>3 DEF Expire

LEMMA CacheKept ==
  ASSUME AskInv, CacheInv, [Next]_vars PROVE CacheInv'
<1>1. CASE \E r \in Asks : Advance(r) \/ Take(r) \/ Finish(r) \/ TimeOut(r) \/ Abandon(r)
  <2>1. PICK r \in Asks : Advance(r) \/ Take(r) \/ Finish(r) \/ TimeOut(r) \/ Abandon(r)
    BY <1>1
  <2>2. CASE Connect(r) \/ LookUp(r) \/ Match(r) \/ Store(r) \/ AppendVector(r)
    BY <2>2, CacheServes, CacheTakes
  <2>3. CASE Converse(r) \/ Overview(r) \/ Retrieve(r) \/ Rank(r) \/ Enqueue(r)
    BY <2>3, CacheAside DEF Converse, Overview, Retrieve, Rank, Enqueue
  <2>4. CASE Begin(r) \/ Generated(r) \/ Reply(r) \/ Take(r) \/ Finish(r) \/ TimeOut(r) \/ Abandon(r)
    BY <2>4, CacheAside DEF Begin, Generated, Reply, Take, Finish, TimeOut, Abandon
  <2> QED
    BY <2>1, <2>2, <2>3, <2>4 DEF Advance
<1>2. CASE DeleteRows \/ ClearCache
  BY <1>2, CacheCleared DEF DeleteRows, ClearCache
<1>3. CASE CacheStep \/ CacheFault
  <2>1. CASE Flush \/ Diagnose \/ Outage
    BY <2>1 DEF Flush, Diagnose, Outage, CacheInv
  <2> QED
    BY <1>3, <2>1, Expires DEF CacheStep, CacheFault
<1>4. CASE Restart
  <2>1. memory' = <<>> /\ vectors' = <<>> /\ UNCHANGED <<clears, redis>>
    BY <1>4 DEF Restart
  <2>2. ~flushing' /\ ~missed' => ~flushing /\ ~missed
    BY <1>4 DEF Restart
  <2> QED
    BY <2>1, <2>2, EmptySeq, CacheConstants DEF CacheInv
<1>5. CASE \/ \E a \in Asked : Ask(a)
           \/ \E stream \in BOOLEAN : Complete(stream)
           \/ DeletePoints \/ Conversation
           \/ \E d \in Documents, here \in BOOLEAN : Upload(d, here)
           \/ \E a \in arriving : Uploaded(a)
           \/ Context(ContextNext) \/ ContextFault \/ UNCHANGED vars
  <2>1. UNCHANGED cacheVars
    BY <1>5 DEF Ask, Complete, DeletePoints, Conversation, Upload, Uploaded, Context,
         ContextFault, vars
  <2> QED
    BY <2>1, CacheAside
<1> QED
  BY <1>1, <1>2, <1>3, <1>4, <1>5 DEF Next

-----------------------------------------------------------------------------
(* The step of the stored conversations in a step of the whole.            *)
chatRows == <<sessions, messages, tasks, spawned, writer>>
ChatStep ==
  \/ \E kind \in Kinds, c \in Chats, low \in BOOLEAN, by \in Nat : Spawn(kind, c, low, by)
  \/ \E t \in 1 .. MaxTasks : TaskStep(t)
  \/ Crashed
  \/ UNCHANGED chatRows

LEMMA ChatSteps ==
  ASSUME AskInv, [Next]_vars PROVE ChatStep
<1>1. CASE \/ \E a \in Asked : Ask(a)
           \/ \E stream \in BOOLEAN : Complete(stream)
           \/ DeletePoints \/ DeleteRows \/ ClearCache \/ CacheStep \/ CacheFault
           \/ \E d \in Documents, here \in BOOLEAN : Upload(d, here)
           \/ \E a \in arriving : Uploaded(a)
           \/ Context(ContextNext) \/ ContextFault \/ UNCHANGED vars
  <2>1. UNCHANGED chatVars
    BY <1>1 DEF Ask, Complete, DeletePoints, DeleteRows, ClearCache, CacheStep, CacheFault,
         Upload, Uploaded, Context, ContextFault, vars
  <2> QED
    BY <2>1 DEF chatVars, chatRows, ChatStep
<1>2. CASE Restart
  BY <1>2 DEF Restart, ChatStep
<1>3. CASE Conversation
  <2>1. CASE \E kind \in Kinds \ {"record"}, c \in Chats, by \in 0 .. MaxTasks : Edit(kind, c, by)
    <3>1. PICK kind \in Kinds, c \in Chats, by \in 0 .. MaxTasks : Edit(kind, c, by)
      BY <2>1
    <3>2. Spawn(kind, c, FALSE, by)
      BY <3>1 DEF Edit
    <3>3. by \in Nat /\ FALSE \in BOOLEAN
      OBVIOUS
    <3> QED
      BY <3>2, <3>3 DEF ChatStep
  <2>2. CASE \E t \in 1 .. MaxTasks : TaskStep(t)
    BY <2>2 DEF ChatStep
  <2>3. CASE UNCHANGED chatVars
    BY <2>3 DEF chatVars, chatRows, ChatStep
  <2>4. CASE \/ \E y \in Cycles : \/ \E q \in Rules : StartCycle(y, q)
                                  \/ Improve(y)
                                  \/ \E score \in 0 .. MaxScore : Baseline(y, score) \/ Decide(y, score)
                                  \/ Fail(y)
             \/ Reset
    <3>1. UNCHANGED chatVars
      BY <2>4 DEF StartCycle, Improve, Baseline, Decide, Fail, Reset
    <3> QED
      BY <3>1, <2>3
  <2> QED
    BY <1>3, <2>1, <2>2, <2>4 DEF Conversation, ConversationNext
<1>4. CASE \E r \in Asks : Advance(r) \/ Take(r) \/ Finish(r) \/ TimeOut(r) \/ Abandon(r)
  <2>1. PICK r \in Asks : Advance(r) \/ Take(r) \/ Finish(r) \/ TimeOut(r) \/ Abandon(r)
    BY <1>4
  <2>2. CASE Reply(r)
    <3>1. ask[r].chat \in Chats /\ ask[r].low \in BOOLEAN /\ "record" \in Kinds /\ 0 \in Nat
      BY DEF AskInv, AskType, Kinds
    <3>2. Spawn("record", ask[r].chat, ask[r].low, 0)
      BY <2>2 DEF Reply
    <3> QED
      BY <3>1, <3>2 DEF ChatStep
  <2>3. CASE ~Reply(r)
    <3>1. UNCHANGED chatVars
      BY <2>1, <2>3 DEF Advance, Connect, LookUp, Converse, Match, Overview, Retrieve, Rank,
           Enqueue, Begin, Generated, Store, AppendVector, Take, Finish, TimeOut, Abandon
    <3> QED
      BY <3>1 DEF chatVars, chatRows, ChatStep
  <2> QED
    BY <2>2, <2>3
<1> QED
  BY <1>1, <1>2, <1>3, <1>4 DEF Next

-----------------------------------------------------------------------------
(* The rows of the conversations and the tasks that write them.            *)
ChatTypes ==
  /\ sessions \in [Chats -> Session]
  /\ messages \subseteq Message
  /\ tasks \in [1 .. MaxTasks -> Task \cup {None}]
  /\ spawned \in 0 .. MaxTasks /\ writer \in 0 .. MaxTasks

LEMMA SessionTypes == NoSession \in Session /\ {NoSession} \cup Session = Session
<1>1. NoSession \in Session
  BY DEF NoSession, Session
<1> QED
  BY <1>1

LEMMA TaskFields ==
  ASSUME ChatTypes, NEW t \in 1 .. MaxTasks, Running(t)
  PROVE  /\ tasks[t] \in Task /\ t \in Nat
         /\ tasks[t].chat \in Chats /\ tasks[t].seen \in Session /\ tasks[t].low \in BOOLEAN
<1>1. tasks[t] \in Task /\ t \in Nat
  BY ConversationConstants DEF ChatTypes, Running
<1> QED
  BY <1>1, SessionTypes DEF Task

LEMMA TaskSet ==
  ASSUME ChatTypes, NEW t \in 1 .. MaxTasks, NEW new \in Task, tasks' = [tasks EXCEPT ![t] = new]
  PROVE  tasks' \in [1 .. MaxTasks -> Task \cup {None}]
BY DEF ChatTypes

LEMMA Closes ==
  ASSUME ChatTypes, NEW t \in 1 .. MaxTasks, Running(t), Close(t)
  PROVE  /\ tasks' \in [1 .. MaxTasks -> Task \cup {None}] /\ writer' \in 0 .. MaxTasks
         /\ tasks'[t].at = "end"
         /\ \A u \in 1 .. MaxTasks : u # t => tasks'[u] = tasks[u]
         /\ writer' = IF writer = t THEN 0 ELSE writer
<1> DEFINE new == [tasks[t] EXCEPT !.at = "end"]
<1>1. tasks[t] \in Task
  BY TaskFields
<1>2. new \in Task /\ new.at = "end"
  BY <1>1 DEF Task
<1>3. tasks' = [tasks EXCEPT ![t] = new] /\ writer' = IF writer = t THEN 0 ELSE writer
  BY DEF Close, ReleaseTask
<1>4. DOMAIN tasks = 1 .. MaxTasks
  BY DEF ChatTypes
<1> HIDE DEF new
<1>5. writer' \in 0 .. MaxTasks
  BY <1>3, ConversationConstants DEF ChatTypes
<1> QED
  BY <1>2, <1>3, <1>4, <1>5, TaskSet

LEMMA Spawns ==
  ASSUME ChatTypes, NEW kind \in Kinds, NEW c \in Chats, NEW low \in BOOLEAN, NEW by \in Nat,
         Spawn(kind, c, low, by)
  PROVE  /\ tasks' \in [1 .. MaxTasks -> Task \cup {None}]
         /\ spawned' = spawned + 1 /\ spawned' \in 1 .. MaxTasks
         /\ tasks'[spawned'].at = "new"
         /\ \A u \in 1 .. MaxTasks : u # spawned' => tasks'[u] = tasks[u]
         /\ UNCHANGED <<sessions, messages, writer>>
<1> DEFINE new == [kind |-> kind, chat |-> c, low |-> low, by |-> by, at |-> "new",
                   seen |-> NoSession, message |-> 0, marked |-> {}]
<1>1. new \in Task /\ new.at = "new"
  BY DEF Task
<1>2. tasks' = [tasks EXCEPT ![spawned + 1] = new] /\ spawned' = spawned + 1
      /\ spawned < MaxTasks /\ UNCHANGED <<sessions, messages, writer>>
  BY DEF Spawn
<1>3. spawned + 1 \in 1 .. MaxTasks /\ DOMAIN tasks = 1 .. MaxTasks
  BY <1>2, ConversationConstants DEF ChatTypes
<1> HIDE DEF new
<1> QED
  BY <1>1, <1>2, <1>3, TaskSet

(* What the first step of a task leaves of it.                             *)
Begins(t, new) ==
  /\ tasks' = [tasks EXCEPT ![t] = new] /\ writer' = IF Sqlite THEN t ELSE writer
  /\ new \in Task /\ new.at = "write"
  /\ new.kind \in {"record", "up", "down"} => new.seen = sessions[new.chat]
  /\ new.kind \in {"up", "down"} => \E m \in messages : m.n = new.message /\ m.chat = new.chat

LEMMA Looks ==
  ASSUME ChatTypes, NEW t \in 1 .. MaxTasks, Look(t)
  PROVE  /\ UNCHANGED <<sessions, messages, spawned>>
         /\ tasks[t].at = "new" /\ Running(t) /\ MayBegin(t)
         /\ Close(t) \/ \E new \in Task : Begins(t, new)
<1>1. /\ UNCHANGED <<sessions, messages, spawned>>
      /\ tasks[t].at = "new" /\ Running(t) /\ MayBegin(t)
  BY DEF Look
<1>2. /\ tasks[t] \in Task /\ tasks[t].chat \in Chats
  BY <1>1, TaskFields
<1>3. CASE tasks[t].kind = "record"
  <2> DEFINE new == [tasks[t] EXCEPT !.at = "write", !.seen = sessions[tasks[t].chat]]
  <2>1. tasks' = [tasks EXCEPT ![t] = new] /\ writer' = IF Sqlite THEN t ELSE writer
    BY <1>3 DEF Look, BeginTask
  <2>2. sessions[tasks[t].chat] \in {NoSession} \cup Session
    BY <1>2 DEF ChatTypes
  <2>3. /\ new \in Task /\ new.at = "write" /\ new.seen = sessions[new.chat]
        /\ new.kind = "record"
    BY <1>2, <1>3, <2>2 DEF Task
  <2> HIDE DEF new
  <2>4. Begins(t, new)
    BY <2>1, <2>3 DEF Begins
  <2> QED
    BY <1>1, <2>3, <2>4
<1>4. CASE tasks[t].kind \in {"up", "down"}
  <2>1. CASE Rated(tasks[t]) = {}
    BY <1>1, <1>4, <2>1 DEF Look
  <2>2. CASE Rated(tasks[t]) # {}
    <3>1. PICK m \in Rated(tasks[t]) :
               /\ tasks' = [tasks EXCEPT ![t].at = "write", ![t].message = m.n,
                                         ![t].chat = m.chat, ![t].seen = sessions[m.chat]]
               /\ BeginTask(t)
      BY <1>4, <2>2 DEF Look
    <3> DEFINE new == [tasks[t] EXCEPT !.at = "write", !.message = m.n, !.chat = m.chat,
                                       !.seen = sessions[m.chat]]
    <3>2. m \in messages /\ m \in Message
      BY <3>1 DEF Rated, Of, ChatTypes
    <3>3. m.n \in Nat /\ m.chat \in Chats /\ sessions[m.chat] \in {NoSession} \cup Session
      BY <3>2 DEF Message, ChatTypes
    <3>4. tasks' = [tasks EXCEPT ![t] = new] /\ writer' = IF Sqlite THEN t ELSE writer
      BY <3>1 DEF BeginTask
    <3>5. /\ new \in Task /\ new.at = "write" /\ new.seen = sessions[new.chat]
          /\ m.n = new.message /\ m.chat = new.chat
      BY <1>2, <3>3 DEF Task
    <3> HIDE DEF new
    <3>6. Begins(t, new)
      BY <3>2, <3>4, <3>5 DEF Begins
    <3> QED
      BY <1>1, <3>5, <3>6
  <2> QED
    BY <2>1, <2>2
<1>5. CASE tasks[t].kind \in {"delete", "purge"}
  <2>1. PICK marked \in Marked(tasks[t]) :
             /\ tasks' = [tasks EXCEPT ![t].at = "write", ![t].marked = marked]
             /\ BeginTask(t)
    BY <1>5 DEF Look
  <2> DEFINE new == [tasks[t] EXCEPT !.at = "write", !.marked = marked]
  <2>2. marked \in SUBSET Chats
    BY <1>2, <2>1 DEF Marked
  <2>3. new \in Task /\ new.at = "write" /\ new.kind \in {"delete", "purge"}
    BY <1>2, <1>5, <2>2 DEF Task
  <2>4. tasks' = [tasks EXCEPT ![t] = new] /\ writer' = IF Sqlite THEN t ELSE writer
    BY <2>1 DEF BeginTask
  <2> HIDE DEF new
  <2>5. Begins(t, new)
    BY <2>3, <2>4 DEF Begins
  <2> QED
    BY <1>1, <2>3, <2>5
<1> QED
  BY <1>2, <1>3, <1>4, <1>5 DEF Task, Kinds

LEMMA RecordWrites ==
  ASSUME ChatTypes, NEW t \in 1 .. MaxTasks, Running(t), Record(t)
  PROVE  /\ Close(t) /\ UNCHANGED spawned /\ tasks[t].at = "write" /\ tasks[t].kind = "record"
         /\ Recorded(t, tasks[t]) \in Session
         /\ tasks[t].seen = sessions[tasks[t].chat] =>
              /\ sessions' = [sessions EXCEPT ![tasks[t].chat] = Recorded(t, tasks[t])]
              /\ messages' = messages \cup {[chat |-> tasks[t].chat, n |-> t, low |-> tasks[t].low,
                                             feedback |-> "none", votes |-> 0]}
<1>1. /\ tasks[t] \in Task /\ t \in Nat /\ tasks[t].chat \in Chats
      /\ tasks[t].seen \in Session /\ tasks[t].low \in BOOLEAN
  BY TaskFields
<1>2. sessions[tasks[t].chat] \in Session
  BY <1>1 DEF ChatTypes
<1>3. Recorded(t, tasks[t]) \in Session
  <2>1. PICK row : row = sessions[tasks[t].chat]
    OBVIOUS
  <2>2. PICK task : task = tasks[t]
    OBVIOUS
  <2> DEFINE new == [row EXCEPT !.count = task.seen.count + 2, !.low = @ \/ task.low]
             low == row.low \/ task.low
  <2>3. row \in Session /\ task.seen \in Session /\ task.low \in BOOLEAN
    BY <1>1, <1>2, <2>1, <2>2
  <2>4. task.seen.count + 2 \in Nat
    BY <2>3 DEF Session
  <2>5. low \in BOOLEAN
    BY <2>3 DEF Session
  <2>6. [row EXCEPT !.count = task.seen.count + 2, !.low = low] \in Session
    <3> HIDE DEF low
    <3> QED
      BY <2>3, <2>4, <2>5 DEF Session
  <2>7. new \in Session
    BY <2>6
  <2>8. [id |-> t, count |-> 2, score |-> 0, negative |-> FALSE, low |-> task.low] \in Session
    BY <1>1, <2>3 DEF Session
  <2> HIDE DEF new
  <2>9. Recorded(t, tasks[t]) = IF task.seen = NoSession
          THEN [id |-> t, count |-> 2, score |-> 0, negative |-> FALSE, low |-> task.low]
          ELSE new
    BY <2>1, <2>2 DEF Recorded, new
  <2> QED
    BY <2>7, <2>8, <2>9
<1> QED
  BY <1>3 DEF Record, Same


(* A row that shows what the messages S say.                               *)
Tally(row, S) ==
  IF row = NoSession THEN S = {}
  ELSE /\ row.count = 2 * Cardinality(S)
       /\ row.score = SumVotes(S)
       /\ row.low = \E m \in S : m.low
       /\ (\E m \in S : m.feedback = "down") => row.negative

LEMMA TotalsAre == TotalsMatch <=> \A c \in Chats : Tally(sessions[c], Of(c))
BY DEF TotalsMatch, Tally, Stored, SumVotes

Fresh(t, low) == [id |-> t, count |-> 2, score |-> 0, negative |-> FALSE, low |-> low]

LEMMA OneMessage ==
  ASSUME NEW m \in Message, m.votes = 0, m.feedback = "none", NEW t \in Nat \ {0}
  PROVE  Tally(Fresh(t, m.low), {m})
<1>1. Cardinality({m}) = 1 /\ IsFiniteSet({m})
  BY FS_Singleton
<1>2. SumVotes({m}) = 0
  <2>1. SumVotes({m}) = m.votes + SumVotes({m} \ {m})
    BY <1>1, VotesAdd DEF Message
  <2>2. {m} \ {m} = {}
    OBVIOUS
  <2> QED
    BY <2>1, <2>2, NoVotes
<1>3. Fresh(t, m.low) # NoSession
  BY DEF Fresh, NoSession
<1>4. m.low = \E o \in {m} : o.low
  BY DEF Message
<1> QED
  BY <1>1, <1>2, <1>3, <1>4 DEF Tally, Fresh

LEMMA MessageAdded ==
  ASSUME NEW S \in SUBSET Message, IsFiniteSet(S), NEW row \in Session, Tally(row, S),
         row # NoSession,
         NEW m \in Message, m \notin S, m.votes = 0, m.feedback = "none",
         NEW new \in Session, new.count = row.count + 2, new.score = row.score,
         new.negative = row.negative, new.low = (row.low \/ m.low)
  PROVE  Tally(new, S \cup {m})
<1> DEFINE T == S \cup {m}
<1>1. IsFiniteSet(T) /\ Cardinality(T) = Cardinality(S) + 1 /\ Cardinality(S) \in Nat
  BY FS_AddElement, FS_CardinalityType
<1>2. T \ {m} = S /\ m \in T /\ \A o \in T : o.votes \in Int
  BY DEF Message
<1> HIDE DEF T
<1>3. SumVotes(T) = m.votes + SumVotes(S) /\ SumVotes(S) \in Int
  BY <1>1, <1>2, VotesAdd
<1>4. /\ row.count = 2 * Cardinality(S) /\ row.score = SumVotes(S)
      /\ row.low = \E o \in S : o.low
      /\ (\E o \in S : o.feedback = "down") => row.negative
  BY DEF Tally
<1>5. new.count = 2 * Cardinality(T) /\ new.score = SumVotes(T)
  BY <1>1, <1>3, <1>4
<1>6. new # NoSession
  BY <1>1, <1>5 DEF NoSession
<1>7. new.low = \E o \in T : o.low
  BY <1>4 DEF T
<1>8. (\E o \in T : o.feedback = "down") => new.negative
  BY <1>4 DEF T
<1> QED
  BY <1>5, <1>6, <1>7, <1>8 DEF Tally, T

LEMMA MessageRated ==
  ASSUME NEW S \in SUBSET Message, IsFiniteSet(S), NEW row \in Session, Tally(row, S),
         NEW m \in S, NEW rated \in Message, rated \notin S \ {m}, NEW v \in {1, -1},
         rated.votes = m.votes + v, rated.low = m.low,
         NEW new \in Session, new.count = row.count, new.score = row.score + v,
         new.low = row.low, new.negative = (row.negative \/ rated.feedback = "down")
  PROVE  Tally(new, (S \ {m}) \cup {rated})
<1> DEFINE R == S \ {m}
           T == R \cup {rated}
<1>1. /\ IsFiniteSet(R) /\ Cardinality(R) = Cardinality(S) - 1
      /\ Cardinality(S) \in Nat \ {0} /\ Cardinality(R) \in Nat
  BY FS_RemoveElement, FS_CardinalityType, FS_EmptySet
<1>2. IsFiniteSet(T) /\ Cardinality(T) = Cardinality(R) + 1
  BY <1>1, FS_AddElement
<1>3. T \ {rated} = R /\ rated \in T /\ \A o \in T \cup S : o.votes \in Int
  BY DEF Message
<1> HIDE DEF R, T
<1>4. SumVotes(T) = rated.votes + SumVotes(R) /\ SumVotes(R) \in Int
  BY <1>2, <1>3, VotesAdd
<1>5. SumVotes(S) = m.votes + SumVotes(R) /\ m.votes \in Int
  BY <1>3, VotesAdd DEF R
<1>6. row # NoSession
  BY DEF Tally
<1>7. /\ row.count = 2 * Cardinality(S) /\ row.score = SumVotes(S)
      /\ row.low = \E o \in S : o.low
      /\ (\E o \in S : o.feedback = "down") => row.negative
  BY <1>6 DEF Tally
<1>8. new.count = 2 * Cardinality(T) /\ new.score = SumVotes(T)
  BY <1>1, <1>2, <1>4, <1>5, <1>7
<1>9. new # NoSession
  <2>1. new.count # 0
    BY <1>1, <1>2, <1>8
  <2> QED
    BY <2>1 DEF NoSession
<1>10. new.low = \E o \in T : o.low
  <2>1. (\E o \in T : o.low) <=> (\E o \in S : o.low)
    BY DEF T, R
  <2> QED
    BY <1>7, <2>1
<1>11. (\E o \in T : o.feedback = "down") => new.negative
  BY <1>7 DEF T, R
<1> QED
  BY <1>8, <1>9, <1>10, <1>11 DEF Tally, T, R

(* What a task has read is what the database holds until it writes: it is  *)
(* the one that has SQLite's lock.                                         *)
Holds(t) ==
  /\ writer = t
  /\ tasks[t].kind \in {"record", "up", "down"} => tasks[t].seen = sessions[tasks[t].chat]
  /\ tasks[t].kind \in {"up", "down"} =>
       \E m \in messages : m.n = tasks[t].message /\ m.chat = tasks[t].chat
LockInv ==
  /\ ChatTypes
  /\ IsFiniteSet(messages)
  /\ \A m, o \in messages : m.n = o.n => m = o
  /\ \A m \in messages : m.n \in 1 .. spawned /\ ~Running(m.n)
  /\ \A t \in 1 .. MaxTasks : t > spawned => ~Running(t)
  /\ \A t \in 1 .. MaxTasks : Running(t) /\ tasks[t].at = "write" => Holds(t)
  /\ \A c \in Chats : Tally(sessions[c], Of(c))

(* A step that writes neither row nor message.                             *)
LEMMA NothingWritten ==
  ASSUME LockInv, ChatTypes', spawned' >= spawned, UNCHANGED <<sessions, messages>>,
         \A t \in 1 .. MaxTasks : /\ t > spawned' => ~Running(t)'
                                  /\ t \in 1 .. spawned /\ ~Running(t) => ~Running(t)'
                                  /\ Running(t)' /\ tasks'[t].at = "write" => Holds(t)'
  PROVE  LockInv'
<1>1. \A c \in Chats : Tally(sessions[c], Of(c))'
  BY DEF LockInv, Tally, Of
<1>2. \A m \in messages' : m.n \in 1 .. spawned' /\ ~Running(m.n)'
  BY ConversationConstants DEF LockInv, ChatTypes
<1> QED
  BY <1>1, <1>2 DEF LockInv

LEMMA SpawnKeeps ==
  ASSUME LockInv, NEW kind \in Kinds, NEW c \in Chats, NEW low \in BOOLEAN, NEW by \in Nat,
         Spawn(kind, c, low, by)
  PROVE  LockInv'
<1>1. /\ tasks' \in [1 .. MaxTasks -> Task \cup {None}]
      /\ spawned' = spawned + 1 /\ spawned' \in 1 .. MaxTasks
      /\ tasks'[spawned'].at = "new"
      /\ \A u \in 1 .. MaxTasks : u # spawned' => tasks'[u] = tasks[u]
      /\ UNCHANGED <<sessions, messages, writer>>
  BY Spawns DEF LockInv
<1>2. ChatTypes'
  BY <1>1 DEF LockInv, ChatTypes
<1>3. ASSUME NEW t \in 1 .. MaxTasks
      PROVE  /\ t > spawned' => ~Running(t)'
             /\ t \in 1 .. spawned /\ ~Running(t) => ~Running(t)'
             /\ Running(t)' /\ tasks'[t].at = "write" => Holds(t)'
  <2>1. CASE t = spawned'
    BY <1>1, <2>1 DEF LockInv, ChatTypes
  <2>2. CASE t # spawned'
    <3>1. tasks'[t] = tasks[t] /\ (t > spawned' => t > spawned)
      BY <1>1, <2>2 DEF LockInv, ChatTypes
    <3> QED
      BY <1>1, <3>1 DEF LockInv, Running, Holds
  <2> QED
    BY <2>1, <2>2
<1>4. spawned' >= spawned
  BY <1>1 DEF LockInv, ChatTypes
<1> QED
  BY <1>1, <1>2, <1>3, <1>4, NothingWritten

LEMMA CloseKeeps ==
  ASSUME LockInv, NEW t \in 1 .. MaxTasks, Running(t), Close(t),
         UNCHANGED <<sessions, messages, spawned>>
  PROVE  LockInv'
<1>1. /\ tasks' \in [1 .. MaxTasks -> Task \cup {None}] /\ writer' \in 0 .. MaxTasks
      /\ tasks'[t].at = "end"
      /\ \A u \in 1 .. MaxTasks : u # t => tasks'[u] = tasks[u]
      /\ writer' = IF writer = t THEN 0 ELSE writer
  BY Closes DEF LockInv
<1>2. ChatTypes'
  BY <1>1 DEF LockInv, ChatTypes
<1>3. ASSUME NEW u \in 1 .. MaxTasks
      PROVE  /\ u > spawned' => ~Running(u)'
             /\ u \in 1 .. spawned /\ ~Running(u) => ~Running(u)'
             /\ Running(u)' /\ tasks'[u].at = "write" => Holds(u)'
  <2>1. CASE u = t
    BY <1>1, <2>1 DEF Running
  <2>2. CASE u # t
    <3>1. tasks'[u] = tasks[u]
      BY <1>1, <2>2
    <3>2. writer = u => writer' = u
      BY <1>1, <2>2
    <3> QED
      BY <3>1, <3>2 DEF LockInv, Running, Holds
  <2> QED
    BY <2>1, <2>2
<1>4. spawned' >= spawned
  BY DEF LockInv, ChatTypes
<1> QED
  BY <1>2, <1>3, <1>4, NothingWritten

LEMMA LookKeeps ==
  ASSUME LockInv, Sqlite, NEW t \in 1 .. MaxTasks, Look(t)
  PROVE  LockInv'
<1>1. /\ UNCHANGED <<sessions, messages, spawned>>
      /\ tasks[t].at = "new" /\ Running(t) /\ MayBegin(t)
      /\ Close(t) \/ \E new \in Task : Begins(t, new)
  BY Looks DEF LockInv
<1>2. CASE Close(t)
  BY <1>1, <1>2, CloseKeeps
<1>3. ASSUME NEW new \in Task, Begins(t, new) PROVE LockInv'
  <2>1. /\ tasks' = [tasks EXCEPT ![t] = new] /\ writer' = t
        /\ new.at = "write"
        /\ new.kind \in {"record", "up", "down"} => new.seen = sessions[new.chat]
        /\ new.kind \in {"up", "down"} => \E m \in messages : m.n = new.message /\ m.chat = new.chat
    BY <1>3 DEF Begins
  <2>2. tasks'[t] = new /\ \A u \in 1 .. MaxTasks : u # t => tasks'[u] = tasks[u]
    BY <2>1 DEF LockInv, ChatTypes
  <2>3. ChatTypes'
    BY <1>1, <2>1, TaskSet, ConversationConstants DEF LockInv, ChatTypes
  <2>4. writer \in {0, t}
    BY <1>1 DEF MayBegin
  <2>5. ASSUME NEW u \in 1 .. MaxTasks
        PROVE  /\ u > spawned' => ~Running(u)'
               /\ u \in 1 .. spawned /\ ~Running(u) => ~Running(u)'
               /\ Running(u)' /\ tasks'[u].at = "write" => Holds(u)'
    <3>1. CASE u = t
      <4>1. Holds(u)'
        BY <1>1, <2>1, <2>2, <3>1 DEF Holds
      <4>2. ~(u > spawned') /\ Running(u)
        BY <1>1, <3>1 DEF LockInv
      <4> QED
        BY <4>1, <4>2
    <3>2. CASE u # t
      <4>1. tasks'[u] = tasks[u] /\ writer # u
        BY <2>2, <2>4, <3>2
      <4> QED
        BY <1>1, <4>1 DEF LockInv, Running, Holds
    <3> QED
      BY <3>1, <3>2
  <2>6. spawned' >= spawned
    BY <1>1 DEF LockInv, ChatTypes
  <2> QED
    BY <1>1, <2>3, <2>5, <2>6, NothingWritten
<1> QED
  BY <1>1, <1>2, <1>3

(* A step of the holder of the lock that writes, and ends the task.        *)
LEMMA WriterKeeps ==
  ASSUME LockInv, NEW t \in 1 .. MaxTasks, Running(t), tasks[t].at = "write", Close(t),
         UNCHANGED spawned,
         sessions' \in [Chats -> Session], messages' \subseteq Message, IsFiniteSet(messages'),
         \A m, o \in messages' : m.n = o.n => m = o,
         \A m \in messages' : m.n = t \/ \E o \in messages : o.n = m.n,
         \A c \in Chats : Tally(sessions[c], Of(c))'
  PROVE  LockInv'
<1>1. /\ tasks' \in [1 .. MaxTasks -> Task \cup {None}] /\ writer' \in 0 .. MaxTasks
      /\ tasks'[t].at = "end"
      /\ \A u \in 1 .. MaxTasks : u # t => tasks'[u] = tasks[u]
  BY Closes DEF LockInv
<1>2. ChatTypes'
  BY <1>1 DEF LockInv, ChatTypes
<1>3. \A u \in 1 .. MaxTasks : ~Running(u) \/ u = t => ~Running(u)'
  BY <1>1 DEF Running
<1>4. \A u \in 1 .. MaxTasks : ~(Running(u)' /\ tasks'[u].at = "write")
  <2>1. ASSUME NEW u \in 1 .. MaxTasks, Running(u)', tasks'[u].at = "write" PROVE FALSE
    <3>1. u # t /\ tasks'[u] = tasks[u]
      BY <1>1, <1>3, <2>1
    <3>2. Running(u) /\ tasks[u].at = "write"
      BY <2>1, <3>1 DEF Running
    <3>3. writer = u /\ writer = t
      BY <3>2 DEF LockInv, Holds
    <3> QED
      BY <3>1, <3>3
  <2> QED
    BY <2>1
<1>5. t \in 1 .. spawned /\ spawned \in 0 .. MaxTasks
  BY DEF LockInv, ChatTypes
<1>6. \A m \in messages' : m.n \in 1 .. spawned' /\ ~Running(m.n)'
  <2>1. ASSUME NEW m \in messages' PROVE m.n \in 1 .. spawned /\ ~Running(m.n)'
    <3>1. CASE m.n = t
      BY <1>3, <1>5, <3>1
    <3>2. CASE \E o \in messages : o.n = m.n
      <4>1. m.n \in 1 .. spawned /\ ~Running(m.n)
        BY <3>2 DEF LockInv
      <4>2. m.n \in 1 .. MaxTasks
        BY <1>5, <4>1, ConversationConstants
      <4>3. PICK u \in 1 .. MaxTasks : u = m.n
        BY <4>2
      <4>4. ~Running(u)
        BY <4>1, <4>3
      <4>5. ~Running(u)'
        BY <1>3, <4>4
      <4>6. ~Running(m.n)'
        BY <4>3, <4>5 DEF Running
      <4> QED
        BY <4>1, <4>6
    <3> QED
      BY <3>1, <3>2
  <2> QED
    BY <2>1
<1>7. \A u \in 1 .. MaxTasks : u > spawned' => ~Running(u)'
  BY <1>3 DEF LockInv
<1> QED
  BY <1>2, <1>4, <1>6, <1>7 DEF LockInv


LEMMA RecordKeeps ==
  ASSUME LockInv, NEW t \in 1 .. MaxTasks, Record(t)
  PROVE  LockInv'
<1> DEFINE c == tasks[t].chat
           m == [chat |-> c, n |-> t, low |-> tasks[t].low, feedback |-> "none", votes |-> 0]
           new == Recorded(t, tasks[t])
<1>1. Running(t) /\ tasks[t].at = "write" /\ tasks[t].kind = "record"
  BY DEF Record
<1>2. tasks[t].seen = sessions[c] /\ ChatTypes
  BY <1>1 DEF LockInv, Holds
<1>3. /\ Close(t) /\ UNCHANGED spawned /\ new \in Session
      /\ sessions' = [sessions EXCEPT ![c] = new]
      /\ messages' = messages \cup {m}
  BY <1>1, <1>2, RecordWrites
<1>4. c \in Chats /\ tasks[t].low \in BOOLEAN /\ t \in Nat \ {0}
  BY <1>1, <1>2, TaskFields
<1>5. m \in Message /\ m.chat = c /\ m.n = t /\ m.votes = 0 /\ m.feedback = "none"
      /\ m.low = tasks[t].low
  BY <1>4 DEF Message
<1>6. \A o \in messages : o.n # t
  BY <1>1 DEF LockInv
<1>7. sessions[c] \in Session /\ messages \subseteq Message /\ IsFiniteSet(messages)
  BY <1>4, SessionTypes DEF LockInv, ChatTypes
<1>8. new = IF sessions[c] = NoSession THEN Fresh(t, tasks[t].low)
            ELSE [sessions[c] EXCEPT !.count = sessions[c].count + 2, !.low = @ \/ tasks[t].low]
  BY <1>2 DEF Recorded, Fresh
<1>9. IsFiniteSet(Of(c)) /\ Of(c) \in SUBSET Message /\ Tally(sessions[c], Of(c))
  BY <1>4, <1>7, FS_Subset DEF Of, LockInv
<1>10. sessions[c] # NoSession =>
         /\ new.count = sessions[c].count + 2 /\ new.score = sessions[c].score
         /\ new.negative = sessions[c].negative /\ new.low = (sessions[c].low \/ tasks[t].low)
  BY <1>7, <1>8 DEF Session
<1> HIDE DEF m, new, c
<1>11. Tally(new, Of(c) \cup {m})
  <2>1. CASE sessions[c] = NoSession
    <3>1. Of(c) = {} /\ new = Fresh(t, m.low)
      BY <1>5, <1>8, <1>9, <2>1 DEF Tally
    <3>2. Of(c) \cup {m} = {m}
      BY <3>1
    <3> QED
      BY <1>4, <1>5, <3>1, <3>2, OneMessage
  <2>2. CASE sessions[c] # NoSession
    <3>1. m \notin Of(c)
      BY <1>5, <1>6 DEF Of
    <3> QED
      BY <1>3, <1>5, <1>7, <1>9, <1>10, <2>2, <3>1, MessageAdded
  <2> QED
    BY <2>1, <2>2
<1>12. ASSUME NEW d \in Chats PROVE Tally(sessions[d], Of(d))'
  <2>1. CASE d = c
    <3>1. Of(d)' = Of(c) \cup {m} /\ sessions'[d] = new
      BY <1>3, <1>4, <1>5, <2>1 DEF Of, LockInv, ChatTypes
    <3> QED
      BY <1>11, <3>1 DEF Tally
  <2>2. CASE d # c
    <3>1. Of(d)' = Of(d) /\ sessions'[d] = sessions[d] /\ Tally(sessions[d], Of(d))
      BY <1>3, <1>5, <2>2 DEF Of, LockInv, ChatTypes
    <3> QED
      BY <3>1 DEF Tally
  <2> QED
    BY <2>1, <2>2
<1>13. /\ sessions' \in [Chats -> Session] /\ messages' \subseteq Message /\ IsFiniteSet(messages')
       /\ \A a, b \in messages' : a.n = b.n => a = b
       /\ \A a \in messages' : a.n = t \/ \E o \in messages : o.n = a.n
  <2>1. IsFiniteSet(messages')
    BY <1>3, <1>7, FS_AddElement
  <2>2. \A a, b \in messages' : a.n = b.n => a = b
    BY <1>3, <1>5, <1>6 DEF LockInv
  <2> QED
    BY <1>2, <1>3, <1>5, <1>7, <2>1, <2>2 DEF ChatTypes
<1> QED
  BY <1>1, <1>3, <1>12, <1>13, WriterKeeps

MessageAs(m, kind, votes) == [m EXCEPT !.feedback = kind, !.votes = votes]
SessionAs(row, score, negative) == [row EXCEPT !.score = score, !.negative = negative]

LEMMA RatedFields ==
  ASSUME NEW m \in Message, NEW kind \in {"up", "down"}, NEW votes \in Int
  PROVE  /\ MessageAs(m, kind, votes) \in Message
         /\ MessageAs(m, kind, votes).votes = votes
         /\ MessageAs(m, kind, votes).low = m.low
         /\ MessageAs(m, kind, votes).feedback = kind
         /\ MessageAs(m, kind, votes).chat = m.chat
         /\ MessageAs(m, kind, votes).n = m.n
BY DEF Message, MessageAs

LEMMA RatedTotals ==
  ASSUME NEW row \in Session, NEW score \in Int, NEW negative \in BOOLEAN
  PROVE  /\ SessionAs(row, score, negative) \in Session
         /\ SessionAs(row, score, negative).count = row.count
         /\ SessionAs(row, score, negative).score = score
         /\ SessionAs(row, score, negative).low = row.low
         /\ SessionAs(row, score, negative).negative = negative
BY DEF Session, SessionAs

LEMMA RateKeeps ==
  ASSUME LockInv, NEW t \in 1 .. MaxTasks, Rate(t)
  PROVE  LockInv'
<1> DEFINE c == tasks[t].chat
           kind == tasks[t].kind
<1>1. Running(t) /\ tasks[t].at = "write" /\ kind \in {"up", "down"} /\ Close(t) /\ UNCHANGED spawned
  BY DEF Rate
<1>2. /\ tasks[t].seen = sessions[c] /\ ChatTypes
      /\ \E m \in messages : m.n = tasks[t].message /\ m.chat = c
  BY <1>1 DEF LockInv, Holds
<1>3. PICK m \in messages : m.n = tasks[t].message /\ m.chat = c
  BY <1>2
<1> DEFINE rated == [m EXCEPT !.feedback = kind, !.votes = @ + Vote(kind)]
           row == sessions[c]
           new == [row EXCEPT !.score = row.score + Vote(kind), !.negative = @ \/ kind = "down"]
<1>4. /\ sessions' = [sessions EXCEPT ![c] = new]
      /\ messages' = {IF o.n # m.n THEN o
                      ELSE [o EXCEPT !.feedback = kind, !.votes = @ + Vote(kind)] : o \in messages}
  <2>1. Same(tasks[t]) /\ \E o \in messages : o.n = tasks[t].message
    BY <1>2 DEF Same
  <2>2. sessions' = [sessions EXCEPT ![c].score = tasks[t].seen.score + Vote(kind),
                                     ![c].negative = @ \/ kind = "down"]
    BY <2>1 DEF Rate
  <2> QED
    BY <1>2, <1>3, <2>1, <2>2 DEF Rate
<1>5. messages' = (messages \ {m}) \cup {rated}
  BY <1>3, <1>4 DEF LockInv
<1>6. c \in Chats /\ messages \subseteq Message /\ m \in Message /\ IsFiniteSet(messages)
      /\ row \in Session /\ Vote(kind) \in {1, -1}
  <2>1. c \in Chats
    BY <1>1, <1>2, TaskFields
  <2> QED
    BY <1>2, <1>3, <2>1, SessionTypes DEF LockInv, ChatTypes, Vote
<1>7. /\ rated \in Message /\ rated.votes = m.votes + Vote(kind) /\ rated.low = m.low
      /\ rated.feedback = kind /\ rated.chat = c /\ rated.n = m.n
  <2> DEFINE votes == m.votes + Vote(kind)
  <2>1. rated = MessageAs(m, kind, votes)
    BY DEF MessageAs
  <2>2. votes \in Int
    BY <1>6 DEF Message
  <2> HIDE DEF rated, votes, kind
  <2>3. m \in Message /\ kind \in {"up", "down"}
    BY <1>1, <1>6
  <2>4. /\ rated \in Message /\ rated.votes = votes /\ rated.low = m.low
        /\ rated.feedback = kind /\ rated.chat = m.chat /\ rated.n = m.n
    BY <2>1, <2>2, <2>3, RatedFields
  <2> QED
    BY <1>3, <2>4 DEF votes
<1>8. /\ new \in Session /\ new.count = row.count /\ new.score = row.score + Vote(kind)
      /\ new.low = row.low /\ new.negative = (row.negative \/ rated.feedback = "down")
  <2> DEFINE negative == row.negative \/ kind = "down"
  <2>1. negative \in BOOLEAN
    BY <1>6 DEF Session
  <2> DEFINE score == row.score + Vote(kind)
  <2>2. new = SessionAs(row, score, negative)
    BY DEF SessionAs
  <2>3. score \in Int
    BY <1>6 DEF Session
  <2> HIDE DEF new, score, negative, row, kind
  <2>4. /\ new \in Session /\ new.count = row.count /\ new.score = score
        /\ new.low = row.low /\ new.negative = negative
    BY <1>6, <2>1, <2>2, <2>3, RatedTotals
  <2> QED
    BY <1>7, <2>4 DEF score, negative
<1>9. IsFiniteSet(Of(c)) /\ Of(c) \in SUBSET Message /\ Tally(row, Of(c)) /\ m \in Of(c)
  BY <1>3, <1>6, FS_Subset DEF Of, LockInv
<1> HIDE DEF rated, new, c, kind, row
<1>10. rated \notin Of(c) \ {m}
  BY <1>3, <1>7 DEF Of, LockInv
<1>11. Tally(new, (Of(c) \ {m}) \cup {rated})
  BY <1>6, <1>7, <1>8, <1>9, <1>10, MessageRated
<1>12. ASSUME NEW d \in Chats PROVE Tally(sessions[d], Of(d))'
  <2>1. CASE d = c
    <3>1. Of(d)' = (Of(c) \ {m}) \cup {rated} /\ sessions'[d] = new
      BY <1>3, <1>4, <1>5, <1>6, <1>7, <2>1 DEF Of, LockInv, ChatTypes
    <3> QED
      BY <1>11, <3>1 DEF Tally
  <2>2. CASE d # c
    <3>1. Of(d)' = Of(d) /\ sessions'[d] = sessions[d] /\ Tally(sessions[d], Of(d))
      BY <1>3, <1>4, <1>5, <1>7, <2>2 DEF Of, LockInv, ChatTypes
    <3> QED
      BY <3>1 DEF Tally
  <2> QED
    BY <2>1, <2>2
<1>13. /\ sessions' \in [Chats -> Session] /\ messages' \subseteq Message /\ IsFiniteSet(messages')
       /\ \A a, b \in messages' : a.n = b.n => a = b
       /\ \A a \in messages' : a.n = t \/ \E o \in messages : o.n = a.n
  <2>1. IsFiniteSet(messages')
    BY <1>5, <1>6, FS_AddElement, FS_RemoveElement
  <2>2. \A a, b \in messages' : a.n = b.n => a = b
    BY <1>3, <1>5, <1>7 DEF LockInv
  <2>3. sessions' \in [Chats -> Session]
    BY <1>2, <1>4, <1>6, <1>8, SessionTypes DEF ChatTypes
  <2>4. messages' \subseteq Message /\ \A a \in messages' : \E o \in messages : o.n = a.n
    BY <1>3, <1>5, <1>6, <1>7
  <2> QED
    BY <2>1, <2>2, <2>3, <2>4
<1> QED
  BY <1>1, <1>12, <1>13, WriterKeeps

LEMMA DropKeeps ==
  ASSUME LockInv, NEW t \in 1 .. MaxTasks, Drop(t)
  PROVE  LockInv'
<1> DEFINE gone == tasks[t].marked
<1>1. /\ Running(t) /\ tasks[t].at = "write" /\ Close(t) /\ UNCHANGED spawned
      /\ sessions' = [c \in Chats |-> IF c \in gone THEN NoSession ELSE sessions[c]]
      /\ messages' = {m \in messages : m.chat \notin gone}
  BY DEF Drop
<1>2. sessions' \in [Chats -> Session] /\ messages' \subseteq messages /\ messages \subseteq Message
  BY <1>1, SessionTypes DEF LockInv, ChatTypes
<1>3. IsFiniteSet(messages')
  BY <1>2, FS_Subset DEF LockInv
<1> HIDE DEF gone
<1>4. ASSUME NEW d \in Chats PROVE Tally(sessions[d], Of(d))'
  <2>1. CASE d \in gone
    BY <1>1, <2>1 DEF Tally, Of
  <2>2. CASE d \notin gone
    <3>1. Of(d)' = Of(d) /\ sessions'[d] = sessions[d] /\ Tally(sessions[d], Of(d))
      BY <1>1, <2>2 DEF Of, LockInv
    <3> QED
      BY <3>1 DEF Tally
  <2> QED
    BY <2>1, <2>2
<1>5. /\ \A a, b \in messages' : a.n = b.n => a = b
      /\ \A a \in messages' : a.n = t \/ \E o \in messages : o.n = a.n
  BY <1>2 DEF LockInv
<1> QED
  BY <1>1, <1>2, <1>3, <1>4, <1>5, WriterKeeps

LEMMA CrashKeeps ==
  ASSUME LockInv, Crashed PROVE LockInv'
<1>1. /\ tasks' = [t \in 1 .. MaxTasks |->
                     IF tasks[t] = None THEN None ELSE [tasks[t] EXCEPT !.at = "end"]]
      /\ writer' = 0 /\ UNCHANGED <<sessions, messages, spawned>>
  BY DEF Crashed
<1>2. ASSUME NEW t \in 1 .. MaxTasks PROVE tasks'[t] \in Task \cup {None} /\ ~Running(t)'
  <2>1. CASE tasks[t] = None
    BY <1>1, <2>1 DEF Running
  <2>2. CASE tasks[t] # None
    <3>1. tasks[t] \in Task /\ tasks'[t] = [tasks[t] EXCEPT !.at = "end"]
      BY <1>1, <2>2 DEF LockInv, ChatTypes
    <3>2. tasks'[t] \in Task /\ tasks'[t].at = "end"
      BY <3>1 DEF Task
    <3> QED
      BY <3>2 DEF Running
  <2> QED
    BY <2>1, <2>2
<1>3. ChatTypes'
  BY <1>1, <1>2, ConversationConstants DEF LockInv, ChatTypes
<1>4. spawned' >= spawned
  BY <1>1 DEF LockInv, ChatTypes
<1> QED
  BY <1>1, <1>2, <1>3, <1>4, NothingWritten

LEMMA TotalsKept ==
  ASSUME LockInv, Sqlite, ChatStep PROVE LockInv'
<1>1. CASE \E kind \in Kinds, c \in Chats, low \in BOOLEAN, by \in Nat : Spawn(kind, c, low, by)
  BY <1>1, SpawnKeeps
<1>2. CASE \E t \in 1 .. MaxTasks : TaskStep(t)
  <2>1. PICK t \in 1 .. MaxTasks : TaskStep(t)
    BY <1>2
  <2>2. CASE Swallow(t)
    BY <2>2, CloseKeeps DEF Swallow
  <2> QED
    BY <2>1, <2>2, LookKeeps, RecordKeeps, RateKeeps, DropKeeps DEF TaskStep
<1>3. CASE Crashed
  BY <1>3, CrashKeeps
<1>4. CASE UNCHANGED chatRows
  <2>1. ChatTypes' /\ spawned' >= spawned
    BY <1>4 DEF chatRows, LockInv, ChatTypes
  <2> QED
    BY <1>4, <2>1, NothingWritten DEF chatRows, LockInv, Running, Holds
<1> QED
  BY <1>1, <1>2, <1>3, <1>4 DEF ChatStep

LEMMA TotalsStart == ChatInit => LockInv
<1> SUFFICES ASSUME ChatInit PROVE LockInv
  OBVIOUS
<1>1. ChatTypes
  BY SessionTypes, ConversationConstants DEF ChatInit, ChatTypes
<1>2. IsFiniteSet(messages) /\ messages = {}
  BY FS_EmptySet DEF ChatInit
<1>3. \A t \in 1 .. MaxTasks : ~Running(t)
  BY DEF ChatInit, Running
<1>4. \A c \in Chats : Tally(sessions[c], Of(c))
  BY DEF ChatInit, Tally, Of
<1> QED
  BY <1>1, <1>2, <1>3, <1>4 DEF LockInv

LEMMA ChatTypesKept ==
  ASSUME ChatTypes, ChatStep PROVE ChatTypes'
<1>1. CASE \E kind \in Kinds, c \in Chats, low \in BOOLEAN, by \in Nat : Spawn(kind, c, low, by)
  <2>1. PICK kind \in Kinds, c \in Chats, low \in BOOLEAN, by \in Nat : Spawn(kind, c, low, by)
    BY <1>1
  <2> QED
    BY <2>1, Spawns DEF ChatTypes
<1>2. ASSUME NEW t \in 1 .. MaxTasks, TaskStep(t) PROVE ChatTypes'
  <2>1. UNCHANGED spawned /\ Running(t)
    BY <1>2 DEF TaskStep, Look, Record, Rate, Drop, Swallow
  <2>2. Close(t) => /\ tasks' \in [1 .. MaxTasks -> Task \cup {None}]
                    /\ writer' \in 0 .. MaxTasks
    BY <2>1, Closes
  <2>3. CASE Swallow(t)
    BY <2>1, <2>2, <2>3 DEF Swallow, ChatTypes
  <2>4. CASE Look(t)
    <3>1. CASE Close(t)
      BY <2>1, <2>2, <2>4, <3>1 DEF Look, ChatTypes
    <3>2. ASSUME NEW new \in Task, Begins(t, new) PROVE ChatTypes'
      <4>1. tasks' = [tasks EXCEPT ![t] = new] /\ writer' = IF Sqlite THEN t ELSE writer
        BY <3>2 DEF Begins
      <4>2. UNCHANGED <<sessions, messages, spawned>>
        BY <2>4 DEF Look
      <4> QED
        BY <4>1, <4>2, TaskSet DEF ChatTypes
    <3> QED
      BY <2>4, <3>1, <3>2, Looks
  <2>5. CASE Record(t)
    <3> DEFINE m == [chat |-> tasks[t].chat, n |-> t, low |-> tasks[t].low,
                     feedback |-> "none", votes |-> 0]
    <3>1. Close(t) /\ Recorded(t, tasks[t]) \in Session
      BY <2>1, <2>5, RecordWrites
    <3>2. m \in Message
      BY <2>1, TaskFields DEF Message
    <3>3. \/ UNCHANGED <<sessions, messages>>
          \/ /\ sessions' = [sessions EXCEPT ![tasks[t].chat] = Recorded(t, tasks[t])]
             /\ messages' = messages \cup {m}
      BY <2>5 DEF Record
    <3> HIDE DEF m
    <3>4. sessions' \in [Chats -> Session] /\ messages' \subseteq Message
      BY <3>1, <3>2, <3>3 DEF ChatTypes
    <3> QED
      BY <2>1, <2>2, <3>1, <3>4 DEF ChatTypes
  <2>6. CASE Rate(t)
    <3> DEFINE kind == tasks[t].kind
               c    == tasks[t].chat
               row  == sessions[c]
               score == tasks[t].seen.score + Vote(kind)
               negative == row.negative \/ kind = "down"
    <3>1. Close(t) /\ kind \in {"up", "down"}
      BY <2>6 DEF Rate
    <3>2. c \in Chats /\ tasks[t].seen \in Session
      BY <2>1, TaskFields
    <3>3. row \in Session /\ Vote(kind) \in {1, -1}
      BY <3>2 DEF ChatTypes, Vote
    <3>4. score \in Int /\ negative \in BOOLEAN
      BY <3>2, <3>3 DEF Session
    <3>5. \/ UNCHANGED <<sessions, messages>>
          \/ /\ sessions' = [sessions EXCEPT ![c].score = score, ![c].negative = @ \/ kind = "down"]
             /\ messages' = {IF m.n # tasks[t].message THEN m
                             ELSE MessageAs(m, kind, m.votes + Vote(kind)) : m \in messages}
      BY <2>6 DEF Rate, MessageAs
    <3>6. sessions' \in {sessions, [sessions EXCEPT ![c] = SessionAs(row, score, negative)]}
      BY <3>5 DEF SessionAs
    <3> HIDE DEF kind, c, row, score, negative
    <3>7. sessions' \in [Chats -> Session]
      BY <3>3, <3>4, <3>6, RatedTotals DEF ChatTypes
    <3>8. \A m \in messages : MessageAs(m, kind, m.votes + Vote(kind)) \in Message
      <4> SUFFICES ASSUME NEW m \in messages
                   PROVE  MessageAs(m, kind, m.votes + Vote(kind)) \in Message
        OBVIOUS
      <4>1. m \in Message
        BY DEF ChatTypes
      <4>2. m.votes + Vote(kind) \in Int
        BY <3>3, <4>1 DEF Message
      <4> QED
        BY <3>1, <4>1, <4>2, RatedFields
    <3>9. messages' \subseteq Message
      BY <3>5, <3>8 DEF ChatTypes
    <3> QED
      BY <2>1, <2>2, <3>1, <3>7, <3>9 DEF ChatTypes
  <2>7. CASE Drop(t)
    BY <2>1, <2>2, <2>7, SessionTypes DEF Drop, ChatTypes
  <2> QED
    BY <1>2, <2>3, <2>4, <2>5, <2>6, <2>7 DEF TaskStep
<1>3. CASE Crashed
  <2>1. ASSUME NEW t \in 1 .. MaxTasks PROVE tasks'[t] \in Task \cup {None}
    <3>1. tasks'[t] \in {None, [tasks[t] EXCEPT !.at = "end"]}
          /\ (tasks[t] = None => tasks'[t] = None)
      BY <1>3 DEF Crashed
    <3>2. tasks[t] \in Task => [tasks[t] EXCEPT !.at = "end"] \in Task
      BY DEF Task
    <3> QED
      BY <3>1, <3>2 DEF ChatTypes
  <2> QED
    BY <1>3, <2>1, ConversationConstants DEF Crashed, ChatTypes
<1>4. CASE UNCHANGED chatRows
  BY <1>4 DEF chatRows, ChatTypes
<1> QED
  BY <1>1, <1>2, <1>3, <1>4 DEF ChatStep

-----------------------------------------------------------------------------
(* The counters, the queue and the threads, and what the stores hold.      *)
GpuTypes ==
  /\ queue \in Seq(Asks) /\ device \in {0} \cup Asks /\ loaded \in BOOLEAN
  /\ worker \in [Asks -> {"none", "waiting", "running", "done"}]
PlaceInv ==
  /\ asks \in 0 .. MaxAsks /\ faults \in 0 .. MaxFaults
  /\ edits \in 0 .. MaxEdits /\ cycles \in 0 .. MaxCycles
  /\ GpuTypes
  /\ points \subseteq Documents /\ corpus \subseteq Documents

LEMMA CountsKept ==
  ASSUME PlaceInv, [Next]_vars
  PROVE  /\ asks' \in 0 .. MaxAsks /\ faults' \in 0 .. MaxFaults
         /\ edits' \in 0 .. MaxEdits /\ cycles' \in 0 .. MaxCycles
<1>0. /\ asks \in 0 .. MaxAsks /\ faults \in 0 .. MaxFaults
      /\ edits \in 0 .. MaxEdits /\ cycles \in 0 .. MaxCycles
  BY DEF PlaceInv
<1>1. asks' = asks \/ (asks < MaxAsks /\ asks' = asks + 1)
  <2>1. CASE \E r \in Asks : Advance(r) \/ Take(r) \/ Finish(r) \/ TimeOut(r) \/ Abandon(r)
    BY <2>1 DEF Advance, Connect, LookUp, Converse, Match, Overview, Retrieve, Rank,
         Enqueue, Begin, Generated, Store, AppendVector, Reply, Take, Finish, TimeOut, Abandon
  <2>2. CASE ~ \E r \in Asks : Advance(r) \/ Take(r) \/ Finish(r) \/ TimeOut(r) \/ Abandon(r)
    BY <2>2 DEF Next, vars, Ask, Complete, DeletePoints, DeleteRows, ClearCache, CacheStep,
         CacheFault, Restart, Conversation, Upload, Uploaded, Context, ContextFault
  <2> QED
    BY <2>1, <2>2
<1>2. faults' = faults \/ (faults < MaxFaults /\ faults' = faults + 1)
  <2>1. CASE \E r \in Asks : Advance(r) \/ Take(r) \/ Finish(r) \/ TimeOut(r) \/ Abandon(r)
    BY <2>1 DEF Advance, Connect, LookUp, Converse, Match, Overview, Retrieve, Rank,
         Enqueue, Begin, Generated, Store, AppendVector, Reply, Take, Finish, TimeOut, Abandon
  <2>2. CASE ~ \E r \in Asks : Advance(r) \/ Take(r) \/ Finish(r) \/ TimeOut(r) \/ Abandon(r)
    BY <2>2 DEF Next, vars, Ask, Complete, DeletePoints, DeleteRows, ClearCache, CacheStep,
         CacheFault, Restart, Conversation, Upload, Uploaded, Context, ContextFault
  <2> QED
    BY <2>1, <2>2
<1>3. /\ edits' = edits \/ (edits < MaxEdits /\ edits' = edits + 1)
      /\ cycles' = cycles \/ (cycles < MaxCycles /\ cycles' = cycles + 1)
  <2>1. CASE \E r \in Asks : Advance(r) \/ Take(r) \/ Finish(r) \/ TimeOut(r) \/ Abandon(r)
    BY <2>1 DEF Advance, Connect, LookUp, Converse, Match, Overview, Retrieve, Rank,
         Enqueue, Begin, Generated, Store, AppendVector, Reply, Take, Finish, TimeOut, Abandon,
         chatVars, ruleVars
  <2>2. CASE Conversation \/ Restart
    BY <2>2 DEF Restart, Crashed, Conversation, ConversationNext, Edit, TaskStep, Look, Record,
         Rate, Drop, Swallow, StartCycle, Improve, Baseline, Decide, Fail, Reset,
         chatVars, ruleVars
  <2>3. CASE ~ \/ \E r \in Asks : Advance(r) \/ Take(r) \/ Finish(r) \/ TimeOut(r) \/ Abandon(r)
               \/ Conversation \/ Restart
    BY <2>3 DEF Next, vars, Ask, Complete, DeletePoints, DeleteRows, ClearCache, CacheStep,
         CacheFault, Upload, Uploaded, Context, ContextFault, chatVars, ruleVars
  <2> QED
    BY <2>1, <2>2, <2>3
<1> QED
  BY <1>0, <1>1, <1>2, <1>3, AnswerConstants, ConversationConstants

LEMMA Departs ==
  ASSUME NEW q \in Seq(Asks), NEW r PROVE Depart(q, r) \in Seq(Asks)
BY PickedElements DEF Depart

LEMMA PlacesKept ==
  ASSUME PlaceInv, rows \subseteq Documents, arriving \subseteq [doc : Documents, here : BOOLEAN],
         [Next]_vars
  PROVE  PlaceInv'
<1>1. GpuTypes'
  <2>1. ASSUME NEW r \in Asks,
               Advance(r) \/ Take(r) \/ Finish(r) \/ TimeOut(r) \/ Abandon(r)
        PROVE  /\ queue' \in {queue, Append(queue, r), Depart(queue, r)}
               /\ device' \in {device, 0, r} /\ loaded' = loaded
               /\ \/ worker' = worker
                  \/ \E at \in {"waiting", "running", "done"} : worker' = [worker EXCEPT ![r] = at]
    <3>1. CASE Connect(r) \/ LookUp(r) \/ Converse(r) \/ Match(r) \/ Overview(r) \/ Retrieve(r)
      BY <3>1 DEF Connect, LookUp, Converse, Match, Overview, Retrieve, gpuVars
    <3>2. CASE Rank(r) \/ Enqueue(r) \/ Generated(r) \/ Store(r) \/ AppendVector(r) \/ Reply(r)
      BY <3>2 DEF Rank, Enqueue, Generated, Store, AppendVector, Reply, gpuVars
    <3>3. CASE Begin(r) \/ Take(r) \/ Finish(r) \/ TimeOut(r) \/ Abandon(r)
      BY <3>3 DEF Begin, Take, Finish, TimeOut, Abandon
    <3> QED
      BY <2>1, <3>1, <3>2, <3>3 DEF Advance
  <2>2. ASSUME NEW r \in Asks,
               Advance(r) \/ Take(r) \/ Finish(r) \/ TimeOut(r) \/ Abandon(r)
        PROVE  GpuTypes'
    <3>1. Append(queue, r) \in Seq(Asks) /\ Depart(queue, r) \in Seq(Asks)
      BY Departs DEF PlaceInv, GpuTypes
    <3> QED
      BY <2>1, <2>2, <3>1 DEF PlaceInv, GpuTypes
  <2>3. CASE Restart
    BY <2>3, EmptySeq DEF Restart, GpuTypes
  <2>4. CASE \/ \E a \in Asked : Ask(a)
             \/ \E stream \in BOOLEAN : Complete(stream)
             \/ Elsewhere \/ UNCHANGED vars
    <3>1. UNCHANGED gpuVars
      BY <2>4 DEF Elsewhere, vars, Ask, Complete, DeletePoints, DeleteRows, ClearCache,
         CacheStep, CacheFault, Conversation, Upload, Uploaded, Context, ContextFault
    <3> QED
      BY <3>1 DEF gpuVars, PlaceInv, GpuTypes
  <2> QED
    BY <2>2, <2>3, <2>4 DEF Next, Elsewhere
<1>2. points' \subseteq Documents /\ corpus' \subseteq Documents
  <2>1. CASE \E r \in Asks : Advance(r) \/ Take(r) \/ Finish(r) \/ TimeOut(r) \/ Abandon(r)
    BY <2>1, AskSteps DEF storeVars, PlaceInv
  <2>2. CASE \E a \in arriving : Uploaded(a)
    BY <2>2 DEF Uploaded, PlaceInv
  <2>3. CASE DeletePoints \/ Restart
    BY <2>3 DEF DeletePoints, Restart, PlaceInv
  <2>4. CASE UNCHANGED <<points, corpus>>
    BY <2>4 DEF PlaceInv
  <2>5. CASE Conversation
    BY <2>4, <2>5 DEF Conversation, storeVars
  <2> QED
    BY <2>1, <2>2, <2>3, <2>4, <2>5 DEF Next, vars, storeVars, Ask, Complete, DeleteRows,
       ClearCache, CacheStep, CacheFault, Upload, Context, ContextFault
<1> QED
  BY <1>1, <1>2, CountsKept DEF PlaceInv

-----------------------------------------------------------------------------
(* The tiers of the documents.                                             *)
TierType == [of : Documents, since : 0 .. MaxClock]
Trees    == [uris : SUBSET Uris, at : 0 .. MaxClock]
ContextInv ==
  /\ TreeInv
  /\ arriving \subseteq [doc : Documents, here : BOOLEAN]
  /\ \A u \in DOMAIN tiers : tiers[u] \in TierType
  /\ folders \subseteq {Root} \cup UNION {Folder[d] : d \in Documents}
  /\ \A p \in Procs : proc[p].pc = "build" => proc[p].seen \subseteq Uris
  /\ Cardinality(tree) <= 1 /\ tree \subseteq Trees
  /\ clock \in 0 .. MaxClock /\ owed \subseteq Documents /\ visits \in 0 .. MaxVisits

LEMMA NoTree == Cardinality({}) <= 1 /\ {} \subseteq Trees
BY FS_EmptySet

LEMMA OneTree == ASSUME NEW t \in Trees PROVE Cardinality({t}) <= 1 /\ {t} \subseteq Trees
BY FS_Singleton

LEMMA ContextTyped == ASSUME ContextInv PROVE ContextTypeOK
<1>1. \A p \in Procs : proc[p] \in ProcType /\ proc[p].at \in 0 .. MaxClock
  BY ContextConstants DEF ContextInv, TreeInv, Truthful, ProcType
<1>2. \A p \in Procs :
        proc[p] \in [pc : {"idle", "sleep", "lock", "write", "look", "again", "build"},
                     tree : BOOLEAN, seen : SUBSET (Documents \cup Uris), at : 0 .. MaxClock]
  BY <1>1 DEF ProcType
<1> QED
  BY <1>2 DEF ContextInv, TreeInv, ContextTypeOK, TierType, Trees

(* A step of a process that leaves the tiers.                              *)
LEMMA ProcTyped ==
  ASSUME ContextInv, TreeInv', NEW p \in Procs, NEW new \in ProcType,
         new.pc = "build" => new.seen \subseteq Uris,
         proc' = [proc EXCEPT ![p] = new],
         UNCHANGED <<tiers, folders, clock>>, arriving' \subseteq arriving,
         tree' \in {{}, tree}, owed' \subseteq Documents, visits' \in 0 .. MaxVisits
  PROVE  ContextInv'
<1>1. \A q \in Procs : proc'[q] = IF q = p THEN new ELSE proc[q]
  BY DEF ContextInv, TreeInv
<1>2. Cardinality(tree') <= 1 /\ tree' \subseteq Trees
  <2>1. CASE tree' = {}
    BY <2>1, NoTree
  <2>2. CASE tree' = tree
    BY <2>2 DEF ContextInv
  <2> QED
    BY <2>1, <2>2
<1> QED
  BY <1>1, <1>2 DEF ContextInv, TierType, Trees

LEMMA StepTyped ==
  ASSUME ContextInv, TreeInv', NEW p \in Procs,
         (\E pc \in {"sleep", "lock", "again"} : Step(p, pc)) \/ End(p),
         UNCHANGED <<tiers, folders, clock>>, arriving' \subseteq arriving,
         tree' \in {{}, tree}, owed' \subseteq Documents, visits' \in 0 .. MaxVisits
  PROVE  ContextInv'
<1>1. \E new \in ProcType : new.pc # "build" /\ proc' = [proc EXCEPT ![p] = new]
  <2>1. CASE End(p)
    BY <2>1, Ends, AtRest DEF ContextInv
  <2>2. CASE \E pc \in {"sleep", "lock", "again"} : Step(p, pc)
    BY <2>2, PcSteps DEF ContextInv
  <2> QED
    BY <2>1, <2>2
<1> QED
  BY <1>1, ProcTyped

LEMMA WriteTyped ==
  ASSUME ContextInv, TreeInv', NEW p \in Procs, Write(p)
  PROVE  ContextInv'
<1> DEFINE new == Missing(proc[p].seen)
<1>1. UNCHANGED <<rows, arriving, clock, visits>> /\ proc[p].seen \subseteq Documents
  BY DEF Write, ContextInv, TreeInv, Truthful
<1>2. CASE GiveUp(p)
  <2>1. End(p) /\ owed' \subseteq owed /\ UNCHANGED <<tiers, folders, tree>>
    BY <1>2 DEF GiveUp
  <2> QED
    BY <1>1, <2>1, StepTyped DEF ContextInv
<1>3. CASE ~GiveUp(p)
  <2>1. PICK first \in Firsts(new) :
          tiers' = [u \in DOMAIN tiers \cup DOMAIN first |->
                     IF u \in DOMAIN tiers THEN tiers[u] ELSE [of |-> first[u], since |-> clock]]
    BY <1>3 DEF Write
  <2>2. /\ folders' = folders \cup {Root} \cup UNION {Folder[d] : d \in proc[p].seen}
        /\ tree' = {} /\ UNCHANGED owed /\ IF proc[p].tree THEN Step(p, "again") ELSE End(p)
    BY <1>3 DEF Write
  <2>3. new \subseteq Documents /\ first \in [{Uri[d] : d \in new} -> new]
    BY <1>1, <2>1 DEF Missing, Firsts
  <2> HIDE DEF new
  <2>4. \A u \in DOMAIN first : [of |-> first[u], since |-> clock] \in TierType
    BY <2>3 DEF TierType, ContextInv
  <2>5. \A u \in DOMAIN tiers' : tiers'[u] \in TierType
    BY <2>1, <2>4 DEF ContextInv
  <2>6. folders' \subseteq {Root} \cup UNION {Folder[d] : d \in Documents}
    BY <1>1, <2>2 DEF ContextInv
  <2>7. \E next \in ProcType : next.pc # "build" /\ proc' = [proc EXCEPT ![p] = next]
    BY <2>2, Ends, AtRest, PcSteps DEF ContextInv
  <2>8. \A q \in Procs : proc'[q].pc = "build" => proc'[q].seen \subseteq Uris
    BY <2>7 DEF ContextInv, TreeInv
  <2>9. Cardinality(tree') <= 1 /\ tree' \subseteq Trees
    BY <2>2, NoTree
  <2> QED
    BY <1>1, <2>2, <2>5, <2>6, <2>8, <2>9 DEF ContextInv
<1> QED
  BY <1>2, <1>3

LEMMA ReaderTyped ==
  ASSUME ContextInv, TreeInv', NEW r \in Readers, LookAt(r) \/ Build(r) \/ GetTree(r)
  PROVE  ContextInv'
<1>1. r \in Procs /\ proc[r] \in ProcType /\ DOMAIN tiers \subseteq Uris /\ clock \in Nat
  BY DEF Procs, ContextInv, TreeInv
<1>2. CASE LookAt(r)
  <2> DEFINE built == [proc[r] EXCEPT !.pc = "build", !.seen = DOMAIN tiers]
  <2>1. UNCHANGED <<rows, arriving, tiers, folders, tree, clock, owed, visits>>
    BY <1>2 DEF LookAt
  <2>2. CASE Step(r, "lock")
    BY <1>1, <2>1, <2>2, StepTyped DEF ContextInv
  <2>3. CASE proc' = [proc EXCEPT ![r] = built]
    <3>1. built \in ProcType /\ built.seen \subseteq Uris
      BY <1>1 DEF ProcType
    <3> HIDE DEF built
    <3> QED
      BY <1>1, <2>1, <2>3, <3>1, ProcTyped DEF ContextInv
  <2> QED
    BY <1>2, <2>2, <2>3 DEF LookAt
<1>3. CASE GetTree(r)
  <2> DEFINE asked == [Resting EXCEPT !.pc = "look", !.tree = TRUE, !.at = clock]
  <2>1. asked \in ProcType /\ asked.pc = "look"
    BY <1>1 DEF ProcType, Resting
  <2>2. /\ proc' = [proc EXCEPT ![r] = asked] /\ visits' \in 0 .. MaxVisits
        /\ UNCHANGED <<rows, arriving, tiers, folders, tree, clock, owed>>
    BY <1>3, ContextConstants DEF GetTree, Visit, ContextInv
  <2> HIDE DEF asked
  <2> QED
    BY <1>1, <2>1, <2>2, ProcTyped DEF ContextInv
<1>4. CASE Build(r)
  <2>1. /\ End(r) /\ tree' = {[uris |-> proc[r].seen, at |-> proc[r].at]}
        /\ proc[r].pc = "build" /\ UNCHANGED <<rows, arriving, tiers, folders, clock, owed, visits>>
    BY <1>4 DEF Build
  <2>2. [uris |-> proc[r].seen, at |-> proc[r].at] \in Trees
    <3>1. proc[r].seen \subseteq Uris /\ proc[r].at \in Nat /\ proc[r].at <= clock
      BY <1>1, <2>1 DEF ContextInv, TreeInv, Truthful, ProcType
    <3>2. proc[r].at \in 0 .. MaxClock
      BY <3>1, ContextConstants DEF ContextInv
    <3> QED
      BY <3>1, <3>2 DEF Trees
  <2>3. Cardinality(tree') <= 1 /\ tree' \subseteq Trees
    BY <2>1, <2>2, OneTree
  <2>4. proc' = [proc EXCEPT ![r] = Resting]
    BY <1>1, <2>1, Ends DEF ContextInv
  <2>5. \A q \in Procs : proc'[q].pc = "build" => proc'[q].seen \subseteq Uris
    BY <2>4, AtRest DEF ContextInv, TreeInv
  <2> QED
    BY <2>1, <2>3, <2>5 DEF ContextInv
<1> QED
  BY <1>2, <1>3, <1>4

LEMMA ContextKept ==
  ASSUME ContextInv, TreeInv', ContextMove \/ Aside PROVE ContextInv'
<1>0. "task" \in Procs
  BY DEF Procs
<1>1. CASE Aside
  BY <1>1 DEF Aside, contextVars, ContextInv
<1>2. CASE ContextNext
  <2>1. CASE Wake
    BY <1>0, <2>1, StepTyped DEF Wake, ContextInv
  <2>2. CASE \E r \in Readers : Synchronise(r)
    <3>1. PICK r \in Readers : Synchronise(r)
      BY <2>2
    <3>2. visits' \in 0 .. MaxVisits
      BY <3>1, ContextConstants DEF Synchronise, Visit, ContextInv
    <3> QED
      BY <3>1, <3>2, StepTyped DEF Synchronise, ContextInv, Procs
  <2>3. CASE \E p \in Procs : Scan(p)
    <3>1. PICK p \in Procs : Scan(p)
      BY <2>3
    <3>2. \E new \in ProcType : new.pc = "write" /\ proc' = [proc EXCEPT ![p] = new]
      BY <3>1, Scanned DEF ContextInv
    <3> QED
      BY <3>1, <3>2, ProcTyped DEF Scan, ContextInv
  <2>4. CASE \E p \in Procs : Write(p)
    BY <2>4, WriteTyped
  <2>5. CASE \E r \in Readers : LookAt(r) \/ Build(r) \/ GetTree(r)
    BY <2>5, ReaderTyped
  <2>6. CASE Tick
    <3>1. clock' \in 0 .. MaxClock
      BY <2>6, ContextConstants DEF Tick, ContextInv
    <3> QED
      BY <2>6, <3>1 DEF Tick, ContextInv
  <2> QED
    BY <1>2, <2>1, <2>2, <2>3, <2>4, <2>5, <2>6 DEF ContextNext, ContextStep
<1>3. CASE \E d \in Documents, here \in BOOLEAN : Ingest(d, here)
  <2>1. PICK d \in Documents, here \in BOOLEAN : Ingest(d, here)
    BY <1>3
  <2>2. visits' \in 0 .. MaxVisits
    BY <2>1, ContextConstants DEF Ingest, Visit, ContextInv
  <2>3. arriving' \subseteq [doc : Documents, here : BOOLEAN]
    BY <2>1 DEF Ingest, ContextInv
  <2> QED
    BY <2>1, <2>2, <2>3 DEF Ingest, ContextInv
<1>4. CASE \E a \in arriving : Arrive(a)
  <2>1. PICK a \in arriving : Arrive(a)
    BY <1>4
  <2>2. /\ a.doc \in Documents /\ arriving' \subseteq arriving
        /\ owed' \subseteq owed \cup {a.doc}
        /\ UNCHANGED <<rows, tiers, folders, tree, clock, visits>>
        /\ Trigger \/ UNCHANGED proc
    BY <2>1 DEF Arrive, ContextInv
  <2>3. owed' \subseteq Documents
    BY <2>2 DEF ContextInv
  <2>4. CASE UNCHANGED proc
    BY <2>2, <2>3, <2>4 DEF ContextInv
  <2>5. CASE Step("task", "sleep")
    BY <1>0, <2>2, <2>3, <2>5, StepTyped DEF ContextInv
  <2> QED
    BY <2>2, <2>4, <2>5 DEF Trigger
<1>5. CASE \E p \in Procs : SyncFails(p)
  BY <1>5, StepTyped DEF SyncFails, GiveUp, ContextInv
<1>6. CASE \E gone \in SUBSET Documents : Cascade(gone)
  <2>1. PICK gone \in SUBSET Documents : Cascade(gone)
    BY <1>6
  <2>2. /\ DOMAIN tiers' \subseteq DOMAIN tiers
        /\ \A u \in DOMAIN tiers' : tiers'[u] = tiers[u]
        /\ arriving' \subseteq arriving /\ owed' \subseteq owed
        /\ UNCHANGED <<folders, proc, tree, clock, visits>>
    BY <2>1 DEF Cascade, Restrict
  <2> QED
    BY <2>2 DEF ContextInv
<1>7. CASE Forget /\ UNCHANGED rows
  <2>1. /\ tree' = {} /\ owed' = {} /\ arriving' \subseteq arriving
        /\ UNCHANGED <<tiers, folders, clock, visits>>
        /\ \A p \in Procs : proc'[p] = Resting
    BY <1>7 DEF Forget
  <2>2. Cardinality(tree') <= 1 /\ tree' \subseteq Trees
    BY <2>1, NoTree
  <2> QED
    BY <2>1, <2>2, AtRest DEF ContextInv
<1> QED
  BY <1>1, <1>2, <1>3, <1>4, <1>5, <1>6, <1>7 DEF ContextMove

-----------------------------------------------------------------------------
(* All of it.                                                              *)
TypeInv ==
  /\ AskInv /\ CacheInv /\ PlaceInv /\ ChatTypes /\ RuleInv /\ ContextInv
  /\ deleting \in Deletions

Begun ==
  /\ Started /\ folders = {} /\ visits = 0 /\ loaded \in BOOLEAN
  /\ asks = 0 /\ faults = 0 /\ edits = 0 /\ cycles = 0
  /\ CacheInit /\ ChatInit /\ RuleInit

LEMMA TypesStart == Begun => TypeInv
<1> SUFFICES ASSUME Begun PROVE TypeInv
  OBVIOUS
<1>1. AskInv
  <2>1. ask = [r \in Asks |-> Unasked]
    BY DEF Begun, Started, AnswerInit
  <2> QED
    BY <2>1, NotAsked DEF AskInv, Cited
<1>2. CacheInv
  BY EmptySeq, CacheConstants DEF Begun, CacheInit, CacheInv
<1>3. PlaceInv
  BY EmptySeq, AnswerConstants, ConversationConstants
  DEF Begun, Started, AnswerInit, PlaceInv, GpuTypes
<1>4. ChatTypes
  BY TotalsStart DEF Begun, LockInv
<1>5. RuleInv
  BY RulesStart DEF Begun
<1>6. TreeInv /\ deleting \in Deletions
  BY TreeStarts DEF Begun
<1>7. ContextInv
  <2>1. /\ arriving = {} /\ tree = {} /\ owed = {} /\ tiers = <<>> /\ clock = 0
        /\ \A p \in Procs : proc[p] = Resting
    BY DEF Begun, Started, AnswerInit, ContextInit
  <2>2. Cardinality(tree) <= 1 /\ tree \subseteq Trees
    BY <2>1, NoTree
  <2>3. DOMAIN tiers = {}
    BY <2>1
  <2> QED
    BY <1>6, <2>1, <2>2, <2>3, AtRest, ContextConstants DEF Begun, ContextInv
<1> QED
  BY <1>1, <1>2, <1>3, <1>4, <1>5, <1>6, <1>7 DEF TypeInv

LEMMA TypesStep ==
  ASSUME TypeInv, [Next]_vars PROVE TypeInv'
<1>1. AskInv' /\ CacheInv'
  <2>1. \A u \in DOMAIN tiers : tiers[u].of \in Documents
    BY DEF TypeInv, ContextInv, TierType
  <2> QED
    BY <2>1, AskKept, CacheKept DEF TypeInv, PlaceInv
<1>2. PlaceInv'
  BY PlacesKept DEF TypeInv, ContextInv, TreeInv
<1>3. ChatTypes'
  BY ChatSteps, ChatTypesKept DEF TypeInv
<1>4. RuleInv'
  <2>1. CASE UNCHANGED ruleVars
    BY <2>1 DEF ruleVars, RuleInv, Scored, TypeInv
  <2> QED
    BY <2>1, Moves, RulesKept DEF TypeInv
<1>5. /\ ContextMove \/ Aside
      /\ deleting' \in Deletions
  BY Moves DEF TypeInv, ContextInv, TreeInv
<1>6. ContextInv'
  <2>1. TreeInv'
    BY <1>5, TreeKept DEF TypeInv, ContextInv
  <2> QED
    BY <1>5, <2>1, ContextKept DEF TypeInv
<1> QED
  BY <1>1, <1>2, <1>3, <1>4, <1>5, <1>6 DEF TypeInv

LEMMA TypesAre == ASSUME TypeInv PROVE TypeOK
<1>1. ConversationTypeOK
  <2>1. \A y \in Cycles : /\ cycle[y].at \in {"idle", "baseline", "candidate"}
                          /\ cycle[y].original \subseteq Rules /\ cycle[y].base \in 0 .. MaxScore
    BY DEF TypeInv, RuleInv, CycleType
  <2> QED
    BY <2>1, SessionTypes DEF TypeInv, ChatTypes, PlaceInv, RuleInv, ConversationTypeOK
<1>2. ContextTypeOK
  BY ContextTyped DEF TypeInv
<1>3. Len(memory) <= MemoryMax /\ Len(vectors) <= VectorMax
  BY DEF TypeInv, CacheInv
<1>4. ask \in [Asks -> AskType]
  BY DEF TypeInv, AskInv
<1> QED
  BY <1>1, <1>2, <1>3, <1>4
  DEF TypeInv, AskType, PlaceInv, GpuTypes, ContextInv, TreeInv, Deletions, TypeOK

(* Every variable keeps its type, and the two lists of the cache their     *)
(* bounds.                                                                 *)
THEOREM AnswersAreTyped == Spec => []TypeOK
<1>1. Spec => Begun /\ [][Next]_vars
  BY DEF Spec, Begun, Started
<1>2. Begun => TypeInv
  BY TypesStart
<1>3. TypeInv /\ [Next]_vars => TypeInv'
  BY TypesStep
<1>4. TypeInv => TypeOK
  BY TypesAre
<1> QED
  BY <1>1, <1>2, <1>3, <1>4, PTL

(* Whatever a request is answered from but an overview, and whatever       *)
(* crosses it, it cites documents of its own scope.                        *)
THEOREM ScopesStayIsolated == Spec => []ScopeIsolated
<1>1. Spec => Begun /\ [][Next]_vars
  BY DEF Spec, Begun, Started
<1>2. Begun => TypeInv
  BY TypesStart
<1>3. TypeInv /\ [Next]_vars => TypeInv'
  BY TypesStep
<1>4. TypeInv => ScopeIsolated
  BY DEF TypeInv, AskInv, Cited, ScopeIsolated
<1> QED
  BY <1>1, <1>2, <1>3, <1>4, PTL

(* Nothing that was stored before a clear is served after it.              *)
THEOREM ClearsAreComplete == Spec => []ClearedIsGone
<1>1. Spec => Begun /\ [][Next]_vars
  BY DEF Spec, Begun, Started
<1>2. Begun => TypeInv
  BY TypesStart
<1>3. TypeInv /\ [Next]_vars => TypeInv'
  BY TypesStep
<1>4. TypeInv => ClearedIsGone
  <2>1. CacheInv => ClearedIsGone
    <3>1. CacheInv => \A e \in Elements(memory) \cup Elements(vectors) : e.stored = clears
      BY DEF CacheInv, Elements, Since
    <3> QED
      BY <3>1 DEF CacheInv, ClearedIsGone
  <2> QED
    BY <2>1 DEF TypeInv
<1> QED
  BY <1>1, <1>2, <1>3, <1>4, PTL

(* On SQLite the totals of a session are those of its messages, however    *)
(* answers, ratings and deletions cross.                                   *)
THEOREM TotalsStayRight == ASSUME Sqlite PROVE Spec => []TotalsMatch
<1> DEFINE Inv == TypeInv /\ LockInv
<1>1. Spec => Begun /\ [][Next]_vars
  BY DEF Spec, Begun, Started
<1>2. Begun => Inv
  BY TypesStart, TotalsStart DEF Begun
<1>3. Inv /\ [Next]_vars => Inv'
  BY TypesStep, ChatSteps, TotalsKept DEF TypeInv
<1>4. Inv => TotalsMatch
  BY TotalsAre DEF LockInv
<1> QED
  BY <1>1, <1>2, <1>3, <1>4, PTL
=============================================================================
