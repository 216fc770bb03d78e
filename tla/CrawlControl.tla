----------------------------- MODULE CrawlControl -----------------------------
(***************************************************************************)
(* Who runs the website crawler, and when: the crawl jobs and their        *)
(* endpoints (api/routers/scraper.py), the scheduler that starts the jobs  *)
(* that are due (api/scraper/scheduler.py) and the crawl itself            *)
(* (api/scraper/crawler.py, crawl_job and _run_crawl_loop), all on one     *)
(* event loop.  A step is what runs between two awaits.  What a crawl does *)
(* with a page is the subject of CrawlDelta: here it visits a number of    *)
(* URLs, chosen when it starts.                                            *)
(***************************************************************************)
EXTENDS Naturals

CONSTANTS
  Jobs,       \* the rows of web_scrape_jobs
  NoJob,
  Periodic,   \* the jobs with a crawl interval
  Users,      \* requests of the API that may start a crawl
  Scheduler,  \* the scheduler task
  Slots,      \* crawl tasks, bounds how many run at once
  Faults,     \* the kinds of failure that may happen
  MaxUrls,    \* bound on the URLs of a crawl
  MaxFaults   \* bound on the number of failures

ASSUME ConstantsOK ==
  /\ NoJob \notin Jobs /\ Periodic \subseteq Jobs
  /\ Scheduler \notin Users
  /\ Faults \subseteq {"database", "crawl", "crash"}
  /\ MaxUrls \in Nat \ {0} /\ MaxFaults \in Nat

Callers == Users \cup {Scheduler}

VARIABLES
  running,  \* crawler.is_running
  stop,     \* crawler.stop_requested
  job,      \* the jobs in the database
  caller,   \* where each caller is, and the job it wants to run
  crawl,    \* the crawl tasks
  faults    \* failures so far

vars == <<running, stop, job, caller, crawl, faults>>

(* due: next_run_at is null or in the past.                                *)
JobRows == [status : {"none", "idle", "running", "deleted"}, active : BOOLEAN, due : BOOLEAN]
Exists(j) == job[j].status \in {"idle", "running"}

(* A caller that has created the task of a crawl does nothing before the   *)
(* task has run for the first time: the event loop runs it first.          *)
CallerStates == [pc : {"idle", "lookup", "launched"}, job : Jobs \cup {NoJob}]
Away         == [pc |-> "idle", job |-> NoJob]

Crawls  == [pc : {"idle", "start", "claim", "loop", "close"}, job : Jobs \cup {NoJob},
            left : Nat, by : Callers]
NoCrawl == [pc |-> "idle", job |-> NoJob, left |-> 0, by |-> Scheduler]

Init ==
  /\ running = FALSE /\ stop = FALSE
  /\ job = [j \in Jobs |-> [status |-> "none", active |-> FALSE, due |-> FALSE]]
  /\ caller = [c \in Callers |-> Away]
  /\ crawl = [k \in Slots |-> NoCrawl]
  /\ faults = 0

-----------------------------------------------------------------------------
(* The jobs.                                                               *)

CreateJob(j) ==
  /\ job[j].status = "none"
  /\ job' = [job EXCEPT ![j] = [status |-> "idle", active |-> TRUE, due |-> FALSE]]
  /\ UNCHANGED <<running, stop, caller, crawl, faults>>

UpdateJob(j) ==
  /\ Exists(j)
  /\ job' = [job EXCEPT ![j] = [@ EXCEPT !.active = ~job[j].active]]
  /\ UNCHANGED <<running, stop, caller, crawl, faults>>

DeleteJob(j) ==
  /\ Exists(j)
  /\ job' = [job EXCEPT ![j] = [@ EXCEPT !.status = "deleted"]]
  /\ UNCHANGED <<running, stop, caller, crawl, faults>>

(* The time of the next run comes.                                         *)
Due(j) ==
  /\ Exists(j) /\ ~job[j].due
  /\ job' = [job EXCEPT ![j] = [@ EXCEPT !.due = TRUE]]
  /\ UNCHANGED <<running, stop, caller, crawl, faults>>

-----------------------------------------------------------------------------
(* Starting and stopping.                                                  *)

Launch(c, j) ==
  /\ \E k \in Slots, n \in 1 .. MaxUrls :
       /\ crawl[k].pc = "idle"
       /\ crawl' = [crawl EXCEPT ![k] = [pc |-> "start", job |-> j, left |-> n, by |-> c]]
  /\ caller' = [caller EXCEPT ![c] = [pc |-> "launched", job |-> j]]

(* trigger_crawl_job: is_running, then the job is read.                    *)
RequestRun(u, j) ==
  /\ caller[u].pc = "idle"
  /\ ~running                                         \* otherwise 409
  /\ caller' = [caller EXCEPT ![u] = [pc |-> "lookup", job |-> j]]
  /\ UNCHANGED <<running, stop, job, crawl, faults>>

Lookup(u) ==
  /\ u \in Users /\ caller[u].pc = "lookup"
  /\ \/ Exists(caller[u].job) /\ Launch(u, caller[u].job)
     \/ /\ ~Exists(caller[u].job)                     \* 404
        /\ caller' = [caller EXCEPT ![u] = Away]
        /\ UNCHANGED crawl
  /\ UNCHANGED <<running, stop, job, faults>>

(* _check_and_trigger_jobs: is_running, then the jobs are read.            *)
CheckBlind ==
  /\ caller[Scheduler].pc = "idle"
  /\ caller' = [caller EXCEPT ![Scheduler].pc = "lookup"]
  /\ UNCHANGED <<running, stop, job, crawl, faults>>
Check ==
  /\ caller[Scheduler].pc = "idle"
  /\ ~running
  /\ caller' = [caller EXCEPT ![Scheduler].pc = "lookup"]
  /\ UNCHANGED <<running, stop, job, crawl, faults>>

Ready == {j \in Jobs : job[j].status = "idle" /\ job[j].active /\ job[j].due}
Trigger ==
  /\ caller[Scheduler].pc = "lookup"
  /\ \/ \E j \in Ready : Launch(Scheduler, j)
     \/ /\ Ready = {}
        /\ caller' = [caller EXCEPT ![Scheduler] = Away]
        /\ UNCHANGED crawl
  /\ UNCHANGED <<running, stop, job, faults>>

(* stop_crawl.                                                             *)
Stop ==
  /\ running
  /\ stop' = TRUE
  /\ UNCHANGED <<running, job, caller, crawl, faults>>

-----------------------------------------------------------------------------
(* The crawl.                                                              *)

Begin(k) ==
  /\ crawl[k].pc = "start"
  /\ running' = TRUE /\ stop' = FALSE
  /\ crawl' = [crawl EXCEPT ![k].pc = "claim"]
  /\ caller' = [caller EXCEPT ![crawl[k].by] = Away]
  /\ UNCHANGED <<job, faults>>

Claim(k) ==
  /\ crawl[k].pc = "claim"
  /\ LET j == crawl[k].job
     IN  \/ /\ Exists(j)
            /\ job' = [job EXCEPT ![j] = [@ EXCEPT !.status = "running"]]
            /\ crawl' = [crawl EXCEPT ![k].pc = "loop"]
            /\ UNCHANGED running
         \/ /\ ~Exists(j)
            /\ running' = FALSE
            /\ crawl' = [crawl EXCEPT ![k] = NoCrawl]
            /\ UNCHANGED job
  /\ UNCHANGED <<stop, caller, faults>>

VisitPast(k) ==
  /\ crawl[k].pc = "loop" /\ ~stop
  /\ crawl' = [crawl EXCEPT ![k].left = @ - 1]
  /\ UNCHANGED <<running, stop, job, caller, faults>>
Visit(k) ==
  /\ crawl[k].pc = "loop"
  /\ crawl[k].left > 0 /\ ~stop
  /\ crawl' = [crawl EXCEPT ![k].left = @ - 1]
  /\ UNCHANGED <<running, stop, job, caller, faults>>

(* The loop ends and the finally block starts.                             *)
EndBusy(k) ==
  /\ crawl[k].pc = "loop"
  /\ crawl[k].left = 0 \/ stop
  /\ crawl' = [crawl EXCEPT ![k].pc = "close"]
  /\ UNCHANGED <<running, stop, job, caller, faults>>
End(k) ==
  /\ crawl[k].pc = "loop"
  /\ crawl[k].left = 0 \/ stop
  /\ running' = FALSE
  /\ crawl' = [crawl EXCEPT ![k].pc = "close"]
  /\ UNCHANGED <<stop, job, caller, faults>>

CloseSilent(k) ==
  /\ crawl[k].pc = "close"
  /\ crawl' = [crawl EXCEPT ![k] = NoCrawl]
  /\ UNCHANGED <<running, stop, job, caller, faults>>
Close(k) ==
  /\ crawl[k].pc = "close"
  /\ LET j == crawl[k].job
     IN  job' = IF Exists(j)
                THEN [job EXCEPT ![j] = [@ EXCEPT !.status = "idle",
                                                  !.due = job[j].due /\ j \notin Periodic]]
                ELSE job
  /\ crawl' = [crawl EXCEPT ![k] = NoCrawl]
  /\ UNCHANGED <<running, stop, caller, faults>>

Step(k) == Begin(k) \/ Claim(k) \/ Visit(k) \/ End(k) \/ Close(k)

-----------------------------------------------------------------------------
(* Failures.                                                               *)

Fault(kind) == kind \in Faults /\ faults < MaxFaults /\ faults' = faults + 1

(* The database is locked for 60 s, in the block before the try or in the  *)
(* finally block: the exception ends the task.                             *)
Abort(k) ==
  /\ crawl[k].pc \in {"claim", "close"}
  /\ Fault("database")
  /\ crawl' = [crawl EXCEPT ![k] = NoCrawl]
  /\ UNCHANGED <<running, stop, job, caller>>

(* An exception in the crawl loop.                                         *)
Break(k) ==
  /\ crawl[k].pc = "loop"
  /\ Fault("crawl")
  /\ running' = FALSE
  /\ crawl' = [crawl EXCEPT ![k].pc = "close"]
  /\ UNCHANGED <<stop, job, caller>>

(* The server is killed and started again.                                 *)
Restart ==
  /\ Fault("crash")
  /\ running' = FALSE /\ stop' = FALSE
  /\ caller' = [c \in Callers |-> Away]
  /\ crawl' = [k \in Slots |-> NoCrawl]
  /\ UNCHANGED job

-----------------------------------------------------------------------------
Next == \/ \E j \in Jobs : \/ CreateJob(j) \/ UpdateJob(j) \/ DeleteJob(j) \/ Due(j)
                           \/ \E u \in Users : RequestRun(u, j)
        \/ \E u \in Users : Lookup(u)
        \/ Check \/ Trigger \/ Stop \/ Restart
        \/ \E k \in Slots : Step(k) \/ Abort(k) \/ Break(k)

Spec == Init /\ [][Next]_vars

(* The event loop runs every task that is ready; the scheduler checks      *)
(* every minute.                                                           *)
FairSpec == /\ Spec
            /\ WF_vars(Check) /\ WF_vars(Trigger)
            /\ \A u \in Users : WF_vars(Lookup(u))
            /\ \A k \in Slots : WF_vars(Step(k))

-----------------------------------------------------------------------------
(* Properties.                                                             *)

(* Every variable keeps its type; no crawl visits more URLs than it found. *)
TypeOK ==
  /\ running \in BOOLEAN /\ stop \in BOOLEAN
  /\ job \in [Jobs -> JobRows]
  /\ caller \in [Callers -> CallerStates]
  /\ crawl \in [Slots -> Crawls]
  /\ faults \in Nat

(* The crawls that may still visit a URL.                                  *)
Active == {k \in Slots : crawl[k].pc \in {"claim", "loop"}}

(* When only the scheduler starts crawls, the crawler is the abstract one: *)
(* one crawl at a time, that ends at the stop signal, with every failure.  *)
Theirs  == CHOOSE k \in Active : TRUE
Phase   == IF Active = {} THEN "idle" ELSE IF stop THEN "stopping" ELSE "crawling"
Current == IF Active = {} THEN NoJob ELSE crawl[Theirs].job
Left    == IF Active = {} THEN 0 ELSE crawl[Theirs].left
Abstract == INSTANCE OneCrawler WITH phase <- Phase, current <- Current, urls <- Left
ImplementsOneCrawler == Abstract!Spec

(* While no exception leaves crawl_job, the crawler is busy only when a    *)
(* crawl is there, that ends by itself or by a stop; even with several     *)
(* crawls at once.                                                         *)
BusyHasCrawl == running => Active # {}

(* A job whose status is "running", which the scheduler passes over, has a *)
(* crawl that will set it back.                                            *)
RunningHasCrawl ==
  \A j \in Jobs : job[j].status = "running" =>
    \E k \in Slots : crawl[k].job = j /\ crawl[k].pc \in {"loop", "close"}

(* The scheduler never leaves an active job that is due waiting for ever.  *)
Waiting(j)    == Exists(j) /\ job[j].active /\ job[j].due
Crawling(j)   == \E k \in Slots : crawl[k].job = j /\ crawl[k].pc \in {"claim", "loop"}
ScheduledRuns == \A j \in Jobs : []<>(~Waiting(j) \/ Crawling(j))

(* What the documentation promises, and the code does not do.              *)

(* Two crawls never run at once ("Crawler is already busy running another  *)
(* scrape job", "Run one job at a time").                                  *)
OneCrawl == \A k, l \in Active : k = l

(* A stop signal is not taken back while the crawl it was given to runs    *)
(* ("Gracefully requests cancellation of the active crawler loop").        *)
StopHolds ==
  [][\A k \in Slots : stop /\ crawl[k].pc = "loop" /\ crawl'[k].pc = "loop" => stop']_vars

=============================================================================
