---------------------------- MODULE Conversations ----------------------------
(***************************************************************************)
(* The stored conversations, and what is learned from them.  The answers   *)
(* and the ratings are written by background tasks of the event loop       *)
(* (api/routers/ask.py), an administrator deletes sessions                 *)
(* (api/routers/admin_conversations.py): each is a transaction that reads  *)
(* the session's row and writes it back, with the totals of its messages.  *)
(* The optimisation cycle (api/rag/self_improver.py) scores a new rule for *)
(* the system prompt and keeps or drops it.                                *)
(***************************************************************************)
EXTENDS Integers, FiniteSets, FiniteSetsExt

CONSTANTS
  Chats,       \* session identifiers
  Sqlite,      \* whether the database is SQLite, see db/session.py
  Rules,       \* the rules a prompt may have
  Defaults,    \* DEFAULT_SYSTEM_RULES
  Unsafe,      \* the rules inspect_content_safety rejects
  Cycles,      \* optimisation cycles that run at once
  MaxScore,    \* the cases of EVAL_SUITE
  None,
  MaxTasks,    \* bound on the number of tasks
  MaxEdits,    \* bound on the ratings and deletions
  MaxCycles    \* bound on the number of cycles and resets

ASSUME ConversationConstants ==
  /\ Sqlite \in BOOLEAN
  /\ Defaults \subseteq Rules /\ Defaults # {} /\ Unsafe \subseteq Rules \ Defaults
  /\ \E r \in Rules \ Defaults : r \notin Unsafe  \* the one suggested without a failure
  /\ Chats # {}
  /\ {MaxScore, MaxTasks, MaxEdits, MaxCycles} \subseteq Nat

VARIABLES
  sessions,    \* chat_sessions
  messages,    \* chat_messages: a question with its answer
  tasks,       \* the tasks and requests that write them
  spawned,     \* how many there have been
  writer,      \* the one that holds SQLite's write lock, or 0
  edits,       \* ratings and deletions so far
  file,        \* system_prompt_rules.json; {} when it is missing or torn
  cycle,       \* the optimisation cycles
  cycles,      \* cycles and resets so far
  scored       \* history: the rules that have scored no worse than the ones before

chatVars == <<sessions, messages, tasks, spawned, writer, edits>>
ruleVars == <<file, cycle, cycles, scored>>

(* A row has a random key: the number of the task that made it.  A message *)
(* has the number of its task; votes is a history of what it was rated.    *)
Session == [id : Nat, count : Nat, score : Int, negative : BOOLEAN, low : BOOLEAN]
Message == [chat : Chats, n : Nat, low : BOOLEAN, feedback : {"none", "up", "down"},
            votes : Int]
NoSession == [id |-> 0, count |-> 0, score |-> 0, negative |-> FALSE, low |-> FALSE]
Kinds     == {"record", "up", "down", "delete", "purge"}
Task == [kind : Kinds, chat : Chats, low : BOOLEAN, by : Nat,
         at : {"new", "write", "end"}, seen : {NoSession} \cup Session,
         message : Nat, marked : SUBSET Chats]
Idle == [at |-> "idle", original |-> {}, candidate |-> None, base |-> 0]

Of(c) == {m \in messages : m.chat = c}
Stored(c) == sessions[c] # NoSession

ChatInit ==
  /\ sessions = [c \in Chats |-> NoSession] /\ messages = {}
  /\ tasks = [t \in 1 .. MaxTasks |-> None] /\ spawned = 0 /\ writer = 0

-----------------------------------------------------------------------------
(* The tasks.                                                              *)

Running(t) == tasks[t] # None /\ tasks[t].at # "end"
Spawn(kind, c, low, by) ==
  /\ spawned < MaxTasks
  /\ spawned' = spawned + 1
  /\ tasks' = [tasks EXCEPT ![spawned + 1] =
       [kind |-> kind, chat |-> c, low |-> low, by |-> by, at |-> "new",
        seen |-> NoSession, message |-> 0, marked |-> {}]]
  /\ UNCHANGED <<sessions, messages, writer>>

(* submit_user_feedback names the session, or a message (by).              *)
Edit(kind, c, by) ==
  /\ edits < MaxEdits /\ kind # "record"
  /\ by # 0 => kind \in {"up", "down"} /\ \E m \in messages : m.n = by
  /\ edits' = edits + 1
  /\ Spawn(kind, c, FALSE, by)
  /\ UNCHANGED ruleVars

(* BEGIN IMMEDIATE is the first thing a transaction on SQLite does.        *)
MayBegin(t) == Sqlite => writer \in {0, t}
BeginDeferred(t) == UNCHANGED writer  \* mutant: the lock is taken with the first write
BeginTask(t)   == writer' = IF Sqlite THEN t ELSE writer
ReleaseTask(t) == writer' = IF writer = t THEN 0 ELSE writer
Close(t) == /\ tasks' = [tasks EXCEPT ![t].at = "end"]
            /\ ReleaseTask(t)

(* The message a rating is about: the one with that key, or the latest of  *)
(* the session.                                                            *)
Rated(task) ==
  IF task.by # 0 THEN {m \in messages : m.n = task.by}
  ELSE {m \in Of(task.chat) : \A o \in Of(task.chat) : o.n <= m.n}

(* purge_chat_sessions: those with bad feedback, or all that are old.      *)
Marked(task) ==
  IF task.kind = "delete" THEN {{task.chat} \cap {c \in Chats : Stored(c)}}
  ELSE {{c \in Chats : Stored(c) /\ sessions[c].negative}, {c \in Chats : Stored(c)}}

Look(t) ==
  /\ Running(t) /\ tasks[t].at = "new" /\ MayBegin(t)
  /\ LET task == tasks[t]
     IN \/ /\ task.kind = "record"
           /\ tasks' = [tasks EXCEPT ![t].at = "write", ![t].seen = sessions[task.chat]]
           /\ BeginTask(t)
        \/ /\ task.kind \in {"up", "down"}
           /\ IF Rated(task) = {} THEN Close(t)
              ELSE \E m \in Rated(task) :
                     /\ tasks' = [tasks EXCEPT ![t].at = "write", ![t].message = m.n,
                                  ![t].chat = m.chat, ![t].seen = sessions[m.chat]]
                     /\ BeginTask(t)
        \/ /\ task.kind \in {"delete", "purge"}
           /\ \E marked \in Marked(task) :
                /\ tasks' = [tasks EXCEPT ![t].at = "write", ![t].marked = marked]
                /\ BeginTask(t)
  /\ UNCHANGED <<sessions, messages, spawned, edits>>
  /\ UNCHANGED ruleVars

(* The commit.  Of a row the session writes the columns it has changed,    *)
(* each with the value it has computed; a row that is gone, or a second    *)
(* one with the same session_id, raises, and the task ends without effect. *)
Same(task) == sessions[task.chat].id = task.seen.id

Recorded(t, task) ==
  LET row == sessions[task.chat]
  IN IF task.seen = NoSession
     THEN [id |-> t, count |-> 2, score |-> 0, negative |-> FALSE, low |-> task.low]
     ELSE [row EXCEPT !.count = task.seen.count + 2, !.low = @ \/ task.low]

Record(t) ==
  /\ Running(t) /\ tasks[t].at = "write" /\ tasks[t].kind = "record"
  /\ LET task == tasks[t]
     IN IF Same(task)
        THEN /\ sessions' = [sessions EXCEPT ![task.chat] = Recorded(t, task)]
             /\ messages' = messages \cup {[chat |-> task.chat, n |-> t, low |-> task.low,
                                            feedback |-> "none", votes |-> 0]}
        ELSE UNCHANGED <<sessions, messages>>
  /\ Close(t)
  /\ UNCHANGED <<spawned, edits>> /\ UNCHANGED ruleVars

Vote(kind) == IF kind = "up" THEN 1 ELSE -1
Rate(t) ==
  /\ Running(t) /\ tasks[t].at = "write" /\ tasks[t].kind \in {"up", "down"}
  /\ LET task == tasks[t]
     IN IF Same(task) /\ \E m \in messages : m.n = task.message
        THEN /\ sessions' = [sessions EXCEPT
                  ![task.chat].score = task.seen.score + Vote(task.kind),
                  ![task.chat].negative = @ \/ task.kind = "down"]
             /\ messages' = {IF m.n # task.message THEN m
                             ELSE [m EXCEPT !.feedback = task.kind,
                                            !.votes = @ + Vote(task.kind)] : m \in messages}
        ELSE UNCHANGED <<sessions, messages>>
  /\ Close(t)
  /\ UNCHANGED <<spawned, edits>> /\ UNCHANGED ruleVars

(* The messages go with their session.                                     *)
Drop(t) ==
  /\ Running(t) /\ tasks[t].at = "write" /\ tasks[t].kind \in {"delete", "purge"}
  /\ sessions' = [c \in Chats |-> IF c \in tasks[t].marked THEN NoSession ELSE sessions[c]]
  /\ messages' = {m \in messages : m.chat \notin tasks[t].marked}
  /\ Close(t)
  /\ UNCHANGED <<spawned, edits>> /\ UNCHANGED ruleVars

(* The database raises, for instance when the lock does not come free in   *)
(* time: what the task was to write is lost.                               *)
Swallow(t) ==
  /\ Running(t) /\ Close(t)
  /\ UNCHANGED <<sessions, messages, spawned, edits>> /\ UNCHANGED ruleVars

TaskStep(t) == Look(t) \/ Record(t) \/ Rate(t) \/ Drop(t) \/ Swallow(t)

-----------------------------------------------------------------------------
(* The rules.                                                              *)

Active == IF file = {} THEN Defaults ELSE file
RuleInit ==
  /\ file \in {{}, Defaults} /\ scored = {Defaults}
  /\ cycle = [y \in Cycles |-> Idle]

(* harvest_conversation_failures, and what is suggested after it: without  *)
(* a failure always the same rule.                                         *)
Harvested == {m \in messages : m.feedback = "down" \/ m.low}
Suggested == IF Harvested = {} THEN {CHOOSE r \in Rules \ Defaults : r \notin Unsafe} ELSE Rules

(* run_optimization_cycle: a rule from the conversations, from the         *)
(* administrator, or the one of a strategy; an unsafe one is refused.      *)
StartCycle(y, r) ==
  /\ cycle[y].at = "idle" /\ cycles < MaxCycles
  /\ cycles' = cycles + 1
  /\ cycle' = IF r \in Unsafe THEN cycle
              ELSE [cycle EXCEPT ![y] = [at |-> "baseline", original |-> Active,
                                         candidate |-> r, base |-> 0]]
  /\ UNCHANGED <<file, scored>> /\ UNCHANGED chatVars

(* run_optimization_from_conversations.                                    *)
Improve(y) == \E r \in Suggested : StartCycle(y, r)

BaselineApplied(y, score) ==  \* mutant: the candidate is in force while it is scored
  /\ cycle[y].at = "baseline"
  /\ cycle' = [cycle EXCEPT ![y].at = "candidate", ![y].base = score]
  /\ file' = cycle[y].original \cup {cycle[y].candidate}
  /\ UNCHANGED <<cycles, scored>> /\ UNCHANGED chatVars
Baseline(y, score) ==
  /\ cycle[y].at = "baseline"
  /\ cycle' = [cycle EXCEPT ![y].at = "candidate", ![y].base = score]
  /\ UNCHANGED <<file, cycles, scored>> /\ UNCHANGED chatVars

(* save_rules writes the safe ones of its list over the file.              *)
Decide(y, score) ==
  /\ cycle[y].at = "candidate"
  /\ LET mutated == cycle[y].original \cup {cycle[y].candidate}
         better  == score >= cycle[y].base
     IN /\ file'   = (IF better THEN mutated ELSE cycle[y].original) \ Unsafe
        /\ scored' = IF better THEN scored \cup {mutated} ELSE scored
  /\ cycle' = [cycle EXCEPT ![y] = Idle]
  /\ UNCHANGED cycles /\ UNCHANGED chatVars

(* The retrieval of a case raises, and with it the cycle.                  *)
Fail(y) ==
  /\ cycle[y].at # "idle"
  /\ cycle' = [cycle EXCEPT ![y] = Idle]
  /\ UNCHANGED <<file, cycles, scored>> /\ UNCHANGED chatVars

(* reset_to_defaults.                                                      *)
Reset ==
  /\ cycles < MaxCycles /\ cycles' = cycles + 1
  /\ file' = Defaults
  /\ UNCHANGED <<cycle, scored>> /\ UNCHANGED chatVars

(* The process ends: with it the tasks and cycles, and perhaps in the      *)
(* middle of writing the file.                                             *)
Crashed ==
  /\ tasks' = [t \in 1 .. MaxTasks |->
                 IF tasks[t] = None THEN None ELSE [tasks[t] EXCEPT !.at = "end"]]
  /\ writer' = 0
  /\ cycle' = [y \in Cycles |-> Idle]
  /\ file' \in {file} \cup (IF \E y \in Cycles : cycle[y].at = "candidate" THEN {{}} ELSE {})
  /\ UNCHANGED <<sessions, messages, spawned, edits, cycles, scored>>

ConversationNext ==
  \/ \E kind \in Kinds \ {"record"}, c \in Chats, by \in 0 .. MaxTasks : Edit(kind, c, by)
  \/ \E t \in 1 .. MaxTasks : TaskStep(t)
  \/ \E y \in Cycles : \/ \E r \in Rules : StartCycle(y, r)
                       \/ Improve(y)
                       \/ \E score \in 0 .. MaxScore : Baseline(y, score) \/ Decide(y, score)
                       \/ Fail(y)
  \/ Reset

-----------------------------------------------------------------------------
ConversationTypeOK ==
  /\ sessions \in [Chats -> {NoSession} \cup Session]
  /\ messages \subseteq Message
  /\ tasks \in [1 .. MaxTasks -> Task \cup {None}]
  /\ spawned \in 0 .. MaxTasks /\ writer \in 0 .. MaxTasks
  /\ edits \in 0 .. MaxEdits /\ cycles \in 0 .. MaxCycles
  /\ file \subseteq Rules /\ scored \subseteq SUBSET Rules
  /\ \A y \in Cycles :
       /\ cycle[y].at \in {"idle", "baseline", "candidate"}
       /\ cycle[y].original \subseteq Rules /\ cycle[y].base \in 0 .. MaxScore

(* What the dashboard shows of a session is what its messages say: their   *)
(* number, the sum of all ratings, and the two flags, however the tasks of *)
(* one session and its deletion cross (record_chat_interaction_bg,         *)
(* submit_user_feedback, purge_chat_sessions).  It rests on SQLite's lock: *)
(* each task writes absolute values it has computed from a row it read.    *)
TotalsMatch ==
  \A c \in Chats :
    IF ~Stored(c) THEN Of(c) = {}
    ELSE /\ sessions[c].count = 2 * Cardinality(Of(c))
         /\ sessions[c].score = MapThenSumSet(LAMBDA m : m.votes, Of(c))
         /\ sessions[c].low = \E m \in Of(c) : m.low
         /\ (\E m \in Of(c) : m.feedback = "down") => sessions[c].negative

(* Answers are only ever generated under rules that, as a whole list, have *)
(* been scored no worse than the list they were made from, or under the    *)
(* defaults: whatever becomes of a cycle, and also when two of them and a  *)
(* reset cross or the file is torn (run_optimization_cycle).               *)
ActiveWasScored == Active \in scored
=============================================================================
