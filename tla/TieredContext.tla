----------------------------- MODULE TieredContext -----------------------------
(***************************************************************************)
(* The virtual file system over the documents                              *)
(* (api/context/tiered_engine.py, api/routers/context.py): a row for each  *)
(* document, course and department, brought up to date by a debounced task *)
(* after an ingestion, by an administrator, or by the first reader of the  *)
(* tree; and the tree that is kept in memory for TTL.                      *)
(***************************************************************************)
EXTENDS Integers, FiniteSets, FiniteSetsExt, Functions

CONSTANTS
  Documents,
  Uri,         \* of the tier of a document: department, course and title
  Folder,      \* the URIs of its department and its course
  Root,        \* the URI of the root
  Readers,     \* requests for the tree, and for a synchronisation
  OneWriter,   \* a transaction excludes every other one, as on SQLite
  TTL,         \* of the tree in memory
  MaxClock,    \* bound on the time that passes
  MaxVisits    \* bound on the ingestions and requests

ASSUME ContextConstants ==
  /\ DOMAIN Uri = Documents /\ DOMAIN Folder = Documents
  /\ "task" \notin Readers /\ OneWriter \in BOOLEAN
  /\ {TTL, MaxClock, MaxVisits} \subseteq Nat /\ TTL > 0

VARIABLES
  rows,      \* the documents of the database
  arriving,  \* ingestions that have stored their document: [doc, here]
  tiers,     \* context_tiers, of documents: the document, and when it was stored
  folders,   \* context_tiers, of anything else
  proc,      \* _sync_task and the requests
  tree,      \* _tree_cache: none, or one with the time it is stamped with
  clock,
  owed,      \* history: documents of this process that no synchronisation has failed
  visits     \* ingestions and requests so far

contextVars == <<arriving, tiers, folders, proc, tree, clock, owed, visits>>

Uris  == {Uri[d] : d \in Documents}
Procs == Readers \cup {"task"}
Resting  == [pc |-> "idle", tree |-> FALSE, seen |-> {}, at |-> 0]

ContextInit ==
  /\ arriving = {} /\ tree = {} /\ owed = {} /\ proc = [p \in Procs |-> Resting]

Visit == visits < MaxVisits /\ visits' = visits + 1
Step(p, pc) == proc' = [proc EXCEPT ![p].pc = pc]
End(p)      == proc' = [proc EXCEPT ![p] = Resting]

(* BEGIN IMMEDIATE: on SQLite not even a reader begins meanwhile.          *)
MayBeginContext == OneWriter => \A p \in Procs : proc[p].pc # "write"

-----------------------------------------------------------------------------
(* An ingestion stores its document, and triggers a synchronisation when   *)
(* it is done.  The loop of a worker's task ends before the three seconds  *)
(* of the trigger do: only one in the API's process (here) has an effect.  *)

Ingest(d, here) ==
  /\ Visit /\ d \notin rows /\ MayBeginContext
  /\ rows' = rows \cup {d}
  /\ arriving' = arriving \cup {[doc |-> d, here |-> here]}
  /\ UNCHANGED <<tiers, folders, proc, tree, clock, owed>>

(* trigger_debounced_sync                                                  *)
Trigger == IF proc["task"].pc = "idle" THEN Step("task", "sleep") ELSE UNCHANGED proc

Arrive(a) ==
  /\ a \in arriving /\ arriving' = arriving \ {a}
  /\ IF a.here THEN Trigger /\ owed' = owed \cup {a.doc}
     ELSE UNCHANGED <<proc, owed>>
  /\ UNCHANGED <<rows, tiers, folders, tree, clock, visits>>

Wake ==
  /\ proc["task"].pc = "sleep" /\ Step("task", "lock")
  /\ UNCHANGED <<rows, arriving, tiers, folders, tree, clock, owed, visits>>

-----------------------------------------------------------------------------
(* sync_database_tiers, one at a time.                                     *)

Synchronise(r) ==
  /\ Visit /\ proc[r].pc = "idle" /\ Step(r, "lock")
  /\ UNCHANGED <<rows, arriving, tiers, folders, tree, clock, owed>>

Scan(p) ==
  /\ proc[p].pc = "lock" /\ \A other \in Procs : proc[other].pc # "write"
  /\ proc' = [proc EXCEPT ![p].pc = "write", ![p].seen = rows]
  /\ UNCHANGED <<rows, arriving, tiers, folders, tree, clock, owed, visits>>

(* The documents without a tier.  Of two with one URI the first makes the  *)
(* tier; which that is depends on when they were stored.                   *)
MissingUncached(docs) ==  \* mutant: the tree in memory tells which tiers exist
  {d \in docs : Uri[d] \notin DOMAIN tiers /\ \A t \in tree : Uri[d] \notin t.uris}
Missing(docs) == {d \in docs : Uri[d] \notin DOMAIN tiers}
Firsts(docs)  == {f \in [{Uri[d] : d \in docs} -> docs] : \A u \in DOMAIN f : Uri[f[u]] = u}

(* What ends with an error is logged, and not tried again.                 *)
GiveUp(p) ==
  /\ End(p) /\ owed' = owed \ proc[p].seen
  /\ UNCHANGED <<tiers, folders, tree>>

(* The commit, with invalidate_cache.  A document that was deleted since   *)
(* it was read has no row for its tier to refer to.                        *)
Write(p) ==
  /\ proc[p].pc = "write"
  /\ LET new == Missing(proc[p].seen)
     IN IF ~(new \subseteq rows) THEN GiveUp(p)
        ELSE /\ \E first \in Firsts(new) :
                  tiers' = [u \in DOMAIN tiers \cup DOMAIN first |->
                             IF u \in DOMAIN tiers THEN tiers[u]
                             ELSE [of |-> first[u], since |-> clock]]
             /\ folders' = folders \cup {Root} \cup UNION {Folder[d] : d \in proc[p].seen}
             /\ tree' = {}
             /\ IF proc[p].tree THEN Step(p, "again") ELSE End(p)
             /\ UNCHANGED owed
  /\ UNCHANGED <<rows, arriving, clock, visits>>

SyncFails(p) ==
  /\ proc[p].pc = "write" /\ GiveUp(p)
  /\ UNCHANGED <<rows, arriving, clock, visits>>

-----------------------------------------------------------------------------
(* get_tree, for all departments.  A tree that is not too old is returned  *)
(* as it is; else the tiers are read, after a synchronisation when there   *)
(* are none, and the tree gets the time at which the request began.        *)

Young == \E t \in tree : clock - t.at < TTL

GetTree(r) ==
  /\ Visit /\ proc[r].pc = "idle" /\ ~Young
  /\ proc' = [proc EXCEPT ![r] = [Resting EXCEPT !.pc = "look", !.tree = TRUE, !.at = clock]]
  /\ UNCHANGED <<rows, arriving, tiers, folders, tree, clock, owed>>

LookAt(r) ==
  /\ proc[r].pc \in {"look", "again"} /\ MayBeginContext
  /\ IF proc[r].pc = "look" /\ DOMAIN tiers \cup folders = {} THEN Step(r, "lock")
     ELSE proc' = [proc EXCEPT ![r].pc = "build", ![r].seen = DOMAIN tiers]
  /\ UNCHANGED <<rows, arriving, tiers, folders, tree, clock, owed, visits>>

BuildStampedLate(r) ==  \* mutant: the tree gets the time at which it is built
  /\ proc[r].pc = "build" /\ End(r)
  /\ tree' = {[uris |-> proc[r].seen, at |-> clock]}
  /\ UNCHANGED <<rows, arriving, tiers, folders, clock, owed, visits>>
Build(r) ==
  /\ proc[r].pc = "build" /\ End(r)
  /\ tree' = {[uris |-> proc[r].seen, at |-> proc[r].at]}
  /\ UNCHANGED <<rows, arriving, tiers, folders, clock, owed, visits>>

Tick ==
  /\ clock < MaxClock /\ clock' = clock + 1
  /\ UNCHANGED <<rows, arriving, tiers, folders, proc, tree, owed, visits>>

(* Documents are deleted, and their tiers with them: those that name them. *)
Cascade(gone) ==
  /\ MayBeginContext
  /\ rows' = rows \ gone
  /\ tiers' = Restrict(tiers, {u \in DOMAIN tiers : tiers[u].of \notin gone})
  /\ owed' = owed \ gone
  /\ arriving' = {a \in arriving : a.doc \notin gone}
  /\ UNCHANGED <<folders, proc, tree, clock, visits>>

(* The process ends: the tiers remain.                                     *)
Forget ==
  /\ arriving' = {a \in arriving : ~a.here} /\ owed' = {}
  /\ proc' = [p \in Procs |-> Resting] /\ tree' = {}
  /\ UNCHANGED <<tiers, folders, clock, visits>>

ContextStep ==
  \/ Wake
  \/ \E p \in Procs : Scan(p) \/ Write(p)
  \/ \E r \in Readers : LookAt(r) \/ Build(r)

ContextNext ==
  \/ ContextStep \/ Tick
  \/ \E r \in Readers : Synchronise(r) \/ GetTree(r)

-----------------------------------------------------------------------------
ContextTypeOK ==
  /\ arriving \subseteq [doc : Documents, here : BOOLEAN]
  /\ DOMAIN tiers \subseteq Uris
  /\ \A u \in DOMAIN tiers : tiers[u] \in [of : Documents, since : 0 .. MaxClock]
  /\ folders \subseteq {Root} \cup UNION {Folder[d] : d \in Documents}
  /\ proc \in [Procs -> [pc : {"idle", "sleep", "lock", "write", "look", "again", "build"},
                         tree : BOOLEAN, seen : SUBSET (Documents \cup Uris), at : 0 .. MaxClock]]
  /\ Cardinality(tree) <= 1
  /\ tree \subseteq [uris : SUBSET Uris, at : 0 .. MaxClock]
  /\ clock \in 0 .. MaxClock /\ owed \subseteq Documents /\ visits \in 0 .. MaxVisits

(* A document that this process has ingested has its tier, or the          *)
(* debounced synchronisation that will make it is still to come, whichever *)
(* synchronisations run already and whatever is deleted and ingested again *)
(* ("Synchronize OpenViking tiered context for the newly ingested          *)
(* document").                                                             *)
Coming(d) == \/ proc["task"].pc \in {"sleep", "lock"}
             \/ proc["task"].pc = "write" /\ d \in proc["task"].seen
TiersFollow == \A d \in owed \cap rows : Uri[d] \in DOMAIN tiers \/ Coming(d)

(* The tree in memory has every tier that was stored before the time it is *)
(* stamped with, even one that was read while a synchronisation replaced   *)
(* the tiers and is kept after its invalidation: what a reader misses is   *)
(* younger than TTL (_cache_ttl).                                          *)
TreeIsRecent ==
  \A t \in tree : \A u \in DOMAIN tiers : tiers[u].since < t.at => u \in t.uris
=============================================================================
