----------------------------- MODULE CrawlProofs -----------------------------
(* What CrawlControl guarantees for every set of jobs, requests and crawl   *)
(* tasks.                                                                   *)
EXTENDS CrawlControl, TLAPS

(* A row of a job stays one when a field changes.                           *)
LEMMA RowType ==
  ASSUME NEW r \in JobRows, NEW b \in BOOLEAN,
         NEW s \in {"none", "idle", "running", "deleted"}
  PROVE  /\ [r EXCEPT !.active = b] \in JobRows
         /\ [r EXCEPT !.due = b] \in JobRows
         /\ [r EXCEPT !.status = s] \in JobRows
         /\ [r EXCEPT !.status = s, !.due = b] \in JobRows
<1>1. [r EXCEPT !.active = b] \in JobRows
  BY Zenon DEF JobRows
<1>2. [r EXCEPT !.due = b] \in JobRows
  BY Zenon DEF JobRows
<1>3. [r EXCEPT !.status = s] \in JobRows
  BY Zenon DEF JobRows
<1>4. [r EXCEPT !.status = s, !.due = b] \in JobRows
  BY Zenon DEF JobRows
<1> QED
  BY <1>1, <1>2, <1>3, <1>4

(* Type correctness of the jobs, the callers and the crawls.                *)
LEMMA TypeNext == TypeOK /\ [Next]_vars => TypeOK'
<1> SUFFICES ASSUME TypeOK, [Next]_vars PROVE TypeOK'
  OBVIOUS
<1> USE ConstantsOK DEF TypeOK, CallerStates, Crawls, Callers
<1>1. ASSUME NEW j \in Jobs, CreateJob(j) PROVE TypeOK'
  <2>1. [status |-> "idle", active |-> TRUE, due |-> FALSE] \in JobRows
    BY Zenon DEF JobRows
  <2> QED
    BY <1>1, <2>1 DEF CreateJob
<1>2. ASSUME NEW j \in Jobs, UpdateJob(j) PROVE TypeOK'
  <2>1. (~job[j].active) \in BOOLEAN
    BY Zenon
  <2>2. [job[j] EXCEPT !.active = ~job[j].active] \in JobRows
    <3> DEFINE b == ~job[j].active
    <3> HIDE DEF b
    <3>1. b \in BOOLEAN
      BY <2>1 DEF b
    <3>2. job[j] \in JobRows
      OBVIOUS
    <3>3. [job[j] EXCEPT !.active = b] \in JobRows
      BY <3>1, <3>2, RowType
    <3> QED
      BY <3>3, Zenon DEF b
  <2> QED
    BY <1>2, <2>2 DEF UpdateJob
<1>3. ASSUME NEW j \in Jobs, DeleteJob(j) PROVE TypeOK'
  <2>1. [job[j] EXCEPT !.status = "deleted"] \in JobRows
    BY RowType
  <2> QED
    BY <1>3, <2>1 DEF DeleteJob
<1>4. ASSUME NEW j \in Jobs, Due(j) PROVE TypeOK'
  <2>1. [job[j] EXCEPT !.due = TRUE] \in JobRows
    BY RowType
  <2> QED
    BY <1>4, <2>1 DEF Due
<1>5. ASSUME NEW j \in Jobs, NEW u \in Users, RequestRun(u, j) PROVE TypeOK'
  BY <1>5 DEF RequestRun
<1>6. ASSUME NEW c \in Callers, NEW j \in Jobs \cup {NoJob}, Launch(c, j)
      PROVE  crawl' \in [Slots -> Crawls] /\ caller' \in [Callers -> CallerStates]
  BY <1>6 DEF Launch
<1>7. ASSUME NEW u \in Users, Lookup(u) PROVE TypeOK'
  <2>1. CASE Launch(u, caller[u].job)
    BY <1>7, <1>6, <2>1 DEF Lookup
  <2>2. CASE ~Exists(caller[u].job)
    BY <1>7, <2>2, <1>6 DEF Lookup, Away
  <2> QED
    BY <1>7, <2>1, <2>2 DEF Lookup
<1>8. ASSUME Check PROVE TypeOK'
  BY <1>8 DEF Check
<1>9. ASSUME Trigger PROVE TypeOK'
  <2>1. CASE \E j \in Ready : Launch(Scheduler, j)
    BY <1>9, <1>6, <2>1 DEF Trigger, Ready
  <2>2. CASE Ready = {}
    BY <1>9, <2>2, <1>6 DEF Trigger, Away
  <2> QED
    BY <1>9, <2>1, <2>2 DEF Trigger
<1>10. ASSUME Stop PROVE TypeOK'
  BY <1>10 DEF Stop
<1>11. ASSUME NEW k \in Slots, Begin(k) PROVE TypeOK'
  <2>1. running' \in BOOLEAN /\ stop' \in BOOLEAN
    BY <1>11, Zenon DEF Begin
  <2> QED
    BY <1>11, <2>1 DEF Begin, Away
<1>12. ASSUME NEW k \in Slots, Claim(k) PROVE TypeOK'
  <2>1. running' \in BOOLEAN
    BY <1>12, Zenon DEF Claim
  <2>2. CASE Exists(crawl[k].job)
    <3>1. crawl[k].job \in Jobs => [job[crawl[k].job] EXCEPT !.status = "running"] \in JobRows
      BY RowType
    <3> QED
      BY <1>12, <2>1, <2>2, <3>1 DEF Claim
  <2>3. CASE ~Exists(crawl[k].job)
    BY <1>12, <2>1, <2>3 DEF Claim, NoCrawl
  <2> QED
    BY <2>2, <2>3
<1>13. ASSUME NEW k \in Slots, Visit(k) PROVE TypeOK'
  <2>1. crawl[k].left - 1 \in Nat
    BY <1>13 DEF Visit
  <2> QED
    BY <1>13, <2>1 DEF Visit
<1>14. ASSUME NEW k \in Slots, End(k) PROVE TypeOK'
  <2>1. running' \in BOOLEAN
    BY <1>14, Zenon DEF End
  <2> QED
    BY <1>14, <2>1 DEF End
<1>15. ASSUME NEW k \in Slots, Close(k) PROVE TypeOK'
  <2> DEFINE j == crawl[k].job
             row == [job[j] EXCEPT !.status = "idle", !.due = job[j].due /\ j \notin Periodic]
  <2>1. j \in Jobs => row \in JobRows
    <3> DEFINE b == job[j].due /\ j \notin Periodic
    <3>1. b \in BOOLEAN
      BY Zenon
    <3>2. j \in Jobs => [job[j] EXCEPT !.status = "idle", !.due = b] \in JobRows
      <4> HIDE DEF b, j
      <4> QED
        BY <3>1, RowType
    <3> QED
      BY <3>2, Zenon
  <2>2. job' = [job EXCEPT ![j] = row] \/ job' = job
    BY <1>15, Zenon DEF Close
  <2>3. job' \in [Jobs -> JobRows]
    <3> HIDE DEF row, j
    <3> QED
      BY <2>1, <2>2
  <2> QED
    BY <1>15, <2>3 DEF Close, NoCrawl
<1>16. ASSUME NEW k \in Slots, Abort(k) PROVE TypeOK'
  BY <1>16 DEF Abort, Fault, NoCrawl
<1>17. ASSUME NEW k \in Slots, Break(k) PROVE TypeOK'
  <2>1. running' \in BOOLEAN
    BY <1>17, Zenon DEF Break
  <2> QED
    BY <1>17, <2>1 DEF Break, Fault
<1>18. ASSUME Restart PROVE TypeOK'
  <2>1. running' \in BOOLEAN /\ stop' \in BOOLEAN
    BY <1>18, Zenon DEF Restart
  <2> QED
    BY <1>18, <2>1 DEF Restart, Fault, Away, NoCrawl
<1>19. CASE UNCHANGED vars
  BY <1>19 DEF vars
<1> QED
  BY <1>1, <1>2, <1>3, <1>4, <1>5, <1>7, <1>8, <1>9, <1>10, <1>11, <1>12, <1>13,
     <1>14, <1>15, <1>16, <1>17, <1>18, <1>19 DEF Next, Step

LEMMA TypeInit == Init => TypeOK
<1> SUFFICES ASSUME Init PROVE TypeOK
  OBVIOUS
<1>1. running \in BOOLEAN /\ stop \in BOOLEAN
  BY Zenon DEF Init
<1>2. [status |-> "none", active |-> FALSE, due |-> FALSE] \in JobRows
  BY Zenon DEF JobRows
<1> QED
  BY <1>1, <1>2, ConstantsOK DEF Init, TypeOK, CallerStates, Crawls, Callers, Away, NoCrawl

(* Every variable of the crawl control keeps its type.                      *)
THEOREM TypeCorrect == Spec => []TypeOK
BY TypeInit, TypeNext, PTL DEF Spec

-----------------------------------------------------------------------------
(* The two flags that keep crawls away are taken back.                      *)

NoDatabaseFault == "database" \notin Faults
NoCrash         == "crash" \notin Faults

LEMMA BusyNext ==
  ASSUME NoDatabaseFault
  PROVE  TypeOK /\ BusyHasCrawl /\ [Next]_vars => BusyHasCrawl'
<1> SUFFICES ASSUME TypeOK, BusyHasCrawl, [Next]_vars PROVE BusyHasCrawl'
  OBVIOUS
<1> USE DEF BusyHasCrawl, Active
<1>1. ASSUME NEW j \in Jobs, CreateJob(j) \/ UpdateJob(j) \/ DeleteJob(j) \/ Due(j)
      PROVE  BusyHasCrawl'
  BY <1>1 DEF CreateJob, UpdateJob, DeleteJob, Due
<1>2. ASSUME NEW j \in Jobs, NEW u \in Users, RequestRun(u, j) PROVE BusyHasCrawl'
  BY <1>2 DEF RequestRun
<1>3. ASSUME NEW c, NEW j, Launch(c, j), UNCHANGED running PROVE BusyHasCrawl'
  BY <1>3 DEF Launch, TypeOK
<1>4. ASSUME NEW u \in Users, Lookup(u) PROVE BusyHasCrawl'
  BY <1>3, <1>4 DEF Lookup
<1>5. ASSUME Check \/ Stop PROVE BusyHasCrawl'
  BY <1>5 DEF Check, Stop
<1>6. ASSUME Trigger PROVE BusyHasCrawl'
  BY <1>3, <1>6 DEF Trigger
<1>7. ASSUME NEW k \in Slots, Begin(k) PROVE BusyHasCrawl'
  BY <1>7 DEF Begin, TypeOK
<1>8. ASSUME NEW k \in Slots, Claim(k) PROVE BusyHasCrawl'
  <2>1. running' = FALSE \/ crawl' = [crawl EXCEPT ![k].pc = "loop"]
    BY <1>8, Zenon DEF Claim
  <2>2. CASE running' = FALSE
    BY <2>2
  <2>3. CASE crawl' = [crawl EXCEPT ![k].pc = "loop"]
    BY <2>3 DEF TypeOK
  <2> QED
    BY <2>1, <2>2, <2>3
<1>9. ASSUME NEW k \in Slots, Visit(k) PROVE BusyHasCrawl'
  BY <1>9 DEF Visit, TypeOK
<1>10. ASSUME NEW k \in Slots, End(k) \/ Break(k) PROVE BusyHasCrawl'
  BY <1>10 DEF End, Break
<1>11. ASSUME NEW k \in Slots, Close(k) PROVE BusyHasCrawl'
  BY <1>11 DEF Close, TypeOK
<1>12. ASSUME NEW k \in Slots, Abort(k) PROVE FALSE
  BY <1>12, NoDatabaseFault DEF NoDatabaseFault, Abort, Fault
<1>13. ASSUME Restart PROVE BusyHasCrawl'
  BY <1>13 DEF Restart
<1>14. CASE UNCHANGED vars
  BY <1>14 DEF vars
<1> QED
  BY <1>1, <1>2, <1>4, <1>5, <1>6, <1>7, <1>8, <1>9, <1>10, <1>11, <1>12, <1>13,
     <1>14 DEF Next, Step

(* As long as the database never refuses a statement of crawl_job outside   *)
(* its try block, is_running, which answers 409 to every request, stands    *)
(* for a crawl that is there, whatever crawls overlap.                      *)
THEOREM BusyCrawls ==
  ASSUME NoDatabaseFault
  PROVE  Spec => []BusyHasCrawl
<1>1. Init => BusyHasCrawl
  BY DEF Init, BusyHasCrawl
<1> QED
  BY <1>1, BusyNext, TypeInit, TypeNext, PTL DEF Spec

LEMMA RunningNext ==
  ASSUME NoDatabaseFault, NoCrash
  PROVE  TypeOK /\ RunningHasCrawl /\ [Next]_vars => RunningHasCrawl'
<1> SUFFICES ASSUME TypeOK, RunningHasCrawl, [Next]_vars PROVE RunningHasCrawl'
  OBVIOUS
<1> USE DEF RunningHasCrawl
<1>1. ASSUME NEW j \in Jobs, CreateJob(j) \/ UpdateJob(j) \/ DeleteJob(j) \/ Due(j)
      PROVE  RunningHasCrawl'
  BY <1>1 DEF CreateJob, UpdateJob, DeleteJob, Due, TypeOK, JobRows
<1>2. ASSUME NEW j \in Jobs, NEW u \in Users, RequestRun(u, j) PROVE RunningHasCrawl'
  BY <1>2 DEF RequestRun
<1>3. ASSUME NEW c, NEW j, Launch(c, j), UNCHANGED job PROVE RunningHasCrawl'
  BY <1>3 DEF Launch, TypeOK
<1>4. ASSUME NEW u \in Users, Lookup(u) PROVE RunningHasCrawl'
  BY <1>3, <1>4 DEF Lookup
<1>5. ASSUME Check \/ Stop PROVE RunningHasCrawl'
  BY <1>5 DEF Check, Stop
<1>6. ASSUME Trigger PROVE RunningHasCrawl'
  BY <1>3, <1>6 DEF Trigger
<1>7. ASSUME NEW k \in Slots, Begin(k) PROVE RunningHasCrawl'
  BY <1>7 DEF Begin, TypeOK, Crawls
<1>8. ASSUME NEW k \in Slots, Claim(k) PROVE RunningHasCrawl'
  <2>1. CASE Exists(crawl[k].job)
    <3>1. \A j \in Jobs : j # crawl[k].job => job'[j] = job[j]
      BY <1>8, <2>1 DEF Claim, TypeOK
    <3>2. crawl' = [crawl EXCEPT ![k].pc = "loop"] /\ crawl[k].pc = "claim"
      BY <1>8, <2>1 DEF Claim
    <3> QED
      BY <3>1, <3>2 DEF TypeOK, Crawls
  <2>2. CASE ~Exists(crawl[k].job)
    BY <1>8, <2>2 DEF Claim, TypeOK, Crawls
  <2> QED
    BY <2>1, <2>2
<1>9. ASSUME NEW k \in Slots, Visit(k) PROVE RunningHasCrawl'
  BY <1>9 DEF Visit, TypeOK, Crawls
<1>10. ASSUME NEW k \in Slots, End(k) \/ Break(k) PROVE RunningHasCrawl'
  BY <1>10 DEF End, Break, TypeOK, Crawls
<1>11. ASSUME NEW k \in Slots, Close(k) PROVE RunningHasCrawl'
  <2>1. \A j \in Jobs : job'[j].status = "running" =>
          job[j].status = "running" /\ j # crawl[k].job
    BY <1>11 DEF Close, Exists, TypeOK, JobRows
  <2> QED
    BY <1>11, <2>1 DEF Close, TypeOK
<1>12. ASSUME NEW k \in Slots, Abort(k) PROVE FALSE
  BY <1>12, NoDatabaseFault DEF NoDatabaseFault, Abort, Fault
<1>13. ASSUME Restart PROVE FALSE
  BY <1>13, NoCrash DEF NoCrash, Restart, Fault
<1>14. CASE UNCHANGED vars
  BY <1>14 DEF vars
<1> QED
  BY <1>1, <1>2, <1>4, <1>5, <1>6, <1>7, <1>8, <1>9, <1>10, <1>11, <1>12, <1>13,
     <1>14 DEF Next, Step

(* While the server lives and the database answers, a job that the          *)
(* scheduler passes over as "running" has a crawl that will set it back.    *)
THEOREM RunningCrawls ==
  ASSUME NoDatabaseFault, NoCrash
  PROVE  Spec => []RunningHasCrawl
<1>1. Init => RunningHasCrawl
  BY DEF Init, RunningHasCrawl
<1> QED
  BY <1>1, RunningNext, TypeInit, TypeNext, PTL DEF Spec

-----------------------------------------------------------------------------
(* When only the scheduler starts crawls, the crawler is OneCrawler.        *)

OnlyScheduler == Users = {}

(* At most one crawl is between its launch and the end of its loop; it      *)
(* holds is_running from its first step; the scheduler has seen an idle     *)
(* crawler and nothing has started since.                                   *)
Started(k) == crawl[k].pc \in {"start", "claim", "loop"}
OneInv ==
  /\ \A k, l \in Slots : Started(k) /\ Started(l) => k = l
  /\ \A k \in Slots :
       /\ crawl[k].pc = "start" => caller[Scheduler].pc = "launched" /\ ~running
       /\ crawl[k].pc \in {"claim", "loop"} => running
       /\ crawl[k].pc # "idle" => crawl[k].job \in Jobs
  /\ caller[Scheduler].pc = "lookup" => ~running /\ \A k \in Slots : ~Started(k)

LEMMA OneInit == Init => OneInv
BY DEF Init, OneInv, Started, NoCrawl, Away, Callers

LEMMA OneNext ==
  ASSUME OnlyScheduler
  PROVE  TypeOK /\ OneInv /\ [Next]_vars => OneInv'
<1> SUFFICES ASSUME TypeOK, OneInv, [Next]_vars PROVE OneInv'
  OBVIOUS
<1> USE DEF OneInv, Started
<1>1. ASSUME NEW j \in Jobs, CreateJob(j) \/ UpdateJob(j) \/ DeleteJob(j) \/ Due(j)
      PROVE  OneInv'
  BY <1>1 DEF CreateJob, UpdateJob, DeleteJob, Due
<1>2. ASSUME Check PROVE OneInv'
  BY <1>2 DEF Check, TypeOK, Callers
<1>3. ASSUME Trigger PROVE OneInv'
  <2>1. ASSUME NEW j \in Ready, Launch(Scheduler, j) PROVE OneInv'
    BY <1>3, <2>1 DEF Trigger, Ready, Launch, TypeOK, Callers
  <2>2. CASE Ready = {}
    BY <1>3, <2>2 DEF Trigger, Launch, TypeOK, Callers, Away
  <2> QED
    BY <1>3, <2>1, <2>2 DEF Trigger
<1>4. ASSUME Stop PROVE OneInv'
  BY <1>4 DEF Stop
<1>5. ASSUME NEW k \in Slots, Begin(k) PROVE OneInv'
  <2>1. crawl[k].by = Scheduler
    BY OnlyScheduler DEF OnlyScheduler, TypeOK, Crawls, Callers
  <2> QED
    BY <1>5, <2>1 DEF Begin, TypeOK, Callers, Away
<1>6. ASSUME NEW k \in Slots, Claim(k) PROVE OneInv'
  <2>1. \/ running' = running /\ crawl' = [crawl EXCEPT ![k].pc = "loop"]
        \/ running' = FALSE /\ crawl' = [crawl EXCEPT ![k] = NoCrawl]
    BY <1>6 DEF Claim
  <2>2. CASE running' = running /\ crawl' = [crawl EXCEPT ![k].pc = "loop"]
    BY <1>6, <2>2 DEF Claim, TypeOK
  <2>3. CASE running' = FALSE /\ crawl' = [crawl EXCEPT ![k] = NoCrawl]
    BY <1>6, <2>3 DEF Claim, TypeOK, NoCrawl
  <2> QED
    BY <2>1, <2>2, <2>3
<1>7. ASSUME NEW k \in Slots, Visit(k) PROVE OneInv'
  BY <1>7 DEF Visit, TypeOK
<1>8. ASSUME NEW k \in Slots, End(k) \/ Break(k) PROVE OneInv'
  <2>1. ~running' /\ caller' = caller
    BY <1>8 DEF End, Break
  <2>2. crawl[k].pc = "loop"
    BY <1>8 DEF End, Break
  <2>3. crawl' = [crawl EXCEPT ![k].pc = "close"]
    BY <1>8 DEF End, Break
  <2>4. /\ \A l \in Slots : l # k => crawl'[l] = crawl[l]
        /\ crawl'[k].pc = "close" /\ crawl'[k].job = crawl[k].job
    BY <2>3 DEF TypeOK, Crawls
  <2> QED
    BY <2>1, <2>2, <2>4
<1>9. ASSUME NEW k \in Slots, Close(k) \/ Abort(k) PROVE OneInv'
  BY <1>9 DEF Close, Abort, TypeOK, NoCrawl
<1>10. ASSUME Restart PROVE OneInv'
  BY <1>10 DEF Restart, NoCrawl, Away, Callers
<1>11. CASE UNCHANGED vars
  BY <1>11 DEF vars
<1> QED
  BY <1>1, <1>2, <1>3, <1>4, <1>5, <1>6, <1>7, <1>8, <1>9, <1>10, <1>11, OnlyScheduler
  DEF OnlyScheduler, Next, Step

(* What the abstract crawler sees of a crawl, before and after a step.      *)
LEMMA SeesCrawl ==
  ASSUME OneInv, NEW k \in Active
  PROVE  /\ Phase = IF stop THEN "stopping" ELSE "crawling"
         /\ Current = crawl[k].job
         /\ Left = crawl[k].left
<1>1. Active = {k}
  BY DEF OneInv, Started, Active
<1>2. Theirs = k
  BY <1>1 DEF Theirs
<1> QED
  BY <1>1, <1>2 DEF Phase, Current, Left

LEMMA SeesCrawlAfter ==
  ASSUME OneInv', NEW k \in Active'
  PROVE  /\ Phase' = IF stop' THEN "stopping" ELSE "crawling"
         /\ Current' = crawl'[k].job
         /\ Left' = crawl'[k].left
<1>1. Active' = {k}
  BY DEF OneInv, Started, Active
<1>2. Theirs' = k
  BY <1>1 DEF Theirs
<1> QED
  BY <1>1, <1>2 DEF Phase, Current, Left

(* A step that changes neither the crawls that may visit a URL nor the stop *)
(* signal they look at is not seen.                                         *)
LEMMA NotSeen ==
  ASSUME OneInv, OneInv', Active' = Active,
         \A k \in Active : /\ stop' = stop
                           /\ crawl'[k].job = crawl[k].job /\ crawl'[k].left = crawl[k].left
  PROVE  UNCHANGED Abstract!vars
<1>1. CASE Active = {}
  BY <1>1 DEF Abstract!vars, Phase, Current, Left
<1>2. ASSUME NEW k \in Active PROVE UNCHANGED Abstract!vars
  BY SeesCrawl, SeesCrawlAfter, <1>2 DEF Abstract!vars
<1> QED
  BY <1>1, <1>2

(* The crawl is over.                                                       *)
LEMMA SeesEnd ==
  ASSUME OneInv, Active' = {}
  PROVE  [Abstract!Next]_(Abstract!vars)
<1>1. Phase' = "idle" /\ Current' = NoJob /\ Left' = 0
  BY DEF Phase, Current, Left
<1>2. CASE Active = {}
  BY <1>1, <1>2 DEF Abstract!vars, Phase, Current, Left
<1>3. ASSUME NEW k \in Active PROVE Phase # "idle"
  BY SeesCrawl
<1> QED
  BY <1>1, <1>2, <1>3 DEF Abstract!Next, Abstract!End

LEMMA StepSimulation ==
  ASSUME TypeOK, OneInv, OneInv', [Next]_vars, OnlyScheduler
  PROVE  [Abstract!Next]_(Abstract!vars)
<1>1. ASSUME NEW j \in Jobs, CreateJob(j) \/ UpdateJob(j) \/ DeleteJob(j) \/ Due(j)
      PROVE  UNCHANGED Abstract!vars
  BY <1>1, NotSeen DEF CreateJob, UpdateJob, DeleteJob, Due, Active
<1>2. ASSUME Check PROVE UNCHANGED Abstract!vars
  BY <1>2, NotSeen DEF Check, Active
<1>3. ASSUME Trigger PROVE UNCHANGED Abstract!vars
  <2>1. Active = {}
    BY <1>3 DEF Trigger, OneInv, Started, Active
  <2>2. Active' = {}
    BY <1>3, <2>1 DEF Trigger, Launch, Active, TypeOK
  <2> QED
    BY <2>1, <2>2, NotSeen
<1>4. ASSUME Stop PROVE [Abstract!Next]_(Abstract!vars)
  <2>1. Active' = Active
    BY <1>4 DEF Stop, Active
  <2>2. CASE Active = {}
    BY <2>1, <2>2, NotSeen
  <2>3. CASE stop
    BY <1>4, <2>1, <2>3, NotSeen DEF Stop, TypeOK
  <2>4. ASSUME NEW k \in Active, ~stop PROVE Abstract!Stop
    BY <1>4, <2>1, <2>4, SeesCrawl, SeesCrawlAfter DEF Stop, Abstract!Stop
  <2> QED
    BY <2>2, <2>3, <2>4 DEF Abstract!Next
<1>5. ASSUME NEW k \in Slots, Begin(k) PROVE Abstract!Next
  <2>1. Active = {} /\ crawl[k].job \in Jobs
    BY <1>5 DEF Begin, OneInv, Started, Active
  <2>2. /\ k \in Active' /\ ~stop'
        /\ crawl'[k].job = crawl[k].job /\ crawl'[k].left \in Nat
    BY <1>5 DEF Begin, Active, TypeOK, Crawls
  <2>3. Phase' = "crawling" /\ Current' = crawl[k].job /\ Left' \in Nat
    BY <2>2, SeesCrawlAfter
  <2>4. Phase = "idle"
    BY <2>1 DEF Phase
  <2>5. Abstract!Start(crawl[k].job)
    BY <2>3, <2>4 DEF Abstract!Start
  <2> QED
    BY <2>1, <2>5 DEF Abstract!Next
<1>6. ASSUME NEW k \in Slots, Claim(k) PROVE [Abstract!Next]_(Abstract!vars)
  <2>1. Active = {k}
    BY <1>6 DEF Claim, OneInv, Started, Active
  <2>2. CASE crawl' = [crawl EXCEPT ![k].pc = "loop"]
    <3>1. Active' = {k} /\ crawl'[k].job = crawl[k].job /\ crawl'[k].left = crawl[k].left
      BY <2>1, <2>2 DEF Active, TypeOK, Crawls
    <3> QED
      BY <1>6, <2>1, <3>1, NotSeen DEF Claim
  <2>3. CASE crawl' = [crawl EXCEPT ![k] = NoCrawl]
    <3>1. Active' = {}
      BY <2>1, <2>3 DEF Active, TypeOK, NoCrawl
    <3> QED
      BY <3>1, SeesEnd
  <2> QED
    BY <1>6, <2>2, <2>3 DEF Claim
<1>7. ASSUME NEW k \in Slots, Visit(k) PROVE Abstract!Next
  <2>1. k \in Active /\ ~stop
    BY <1>7 DEF Visit, Active
  <2>2. /\ k \in Active' /\ ~stop' /\ crawl'[k].job = crawl[k].job
        /\ crawl[k].left \in Nat /\ crawl[k].left > 0 /\ crawl'[k].left = crawl[k].left - 1
    BY <1>7 DEF Visit, Active, TypeOK, Crawls
  <2>3. Phase = "crawling" /\ Current = crawl[k].job /\ Left = crawl[k].left
    BY <2>1, SeesCrawl
  <2>4. Phase' = "crawling" /\ Current' = crawl[k].job /\ Left' = crawl[k].left - 1
    BY <2>2, SeesCrawlAfter
  <2>5. Abstract!Visit
    BY <2>2, <2>3, <2>4 DEF Abstract!Visit
  <2> QED
    BY <2>5 DEF Abstract!Next
<1>8. ASSUME NEW k \in Slots, End(k) \/ Break(k) PROVE [Abstract!Next]_(Abstract!vars)
  <2>1. Active = {k}
    BY <1>8 DEF End, Break, OneInv, Started, Active
  <2>2. crawl' = [crawl EXCEPT ![k].pc = "close"]
    BY <1>8 DEF End, Break
  <2>3. Active' = {}
    BY <2>1, <2>2 DEF Active, TypeOK
  <2> QED
    BY <2>3, SeesEnd
<1>9. ASSUME NEW k \in Slots, Close(k) PROVE UNCHANGED Abstract!vars
  <2>1. Active' = Active /\ \A l \in Active : crawl'[l] = crawl[l]
    BY <1>9 DEF Close, Active, TypeOK, NoCrawl
  <2> QED
    BY <1>9, <2>1, NotSeen DEF Close
<1>10. ASSUME NEW k \in Slots, Abort(k) PROVE [Abstract!Next]_(Abstract!vars)
  <2>1. CASE crawl[k].pc = "claim"
    <3>1. Active = {k}
      BY <2>1 DEF OneInv, Started, Active
    <3>2. Active' = {}
      BY <1>10, <3>1 DEF Abort, Active, TypeOK, NoCrawl
    <3> QED
      BY <3>2, SeesEnd
  <2>2. CASE crawl[k].pc = "close"
    <3>1. Active' = Active /\ \A l \in Active : crawl'[l] = crawl[l]
      BY <1>10, <2>2 DEF Abort, Active, TypeOK, NoCrawl
    <3> QED
      BY <1>10, <3>1, NotSeen DEF Abort
  <2> QED
    BY <1>10, <2>1, <2>2 DEF Abort
<1>11. ASSUME Restart PROVE [Abstract!Next]_(Abstract!vars)
  <2>1. Active' = {}
    BY <1>11 DEF Restart, Active, NoCrawl
  <2> QED
    BY <2>1, SeesEnd
<1>12. CASE UNCHANGED vars
  BY <1>12, NotSeen DEF vars, Active
<1> QED
  BY <1>1, <1>2, <1>3, <1>4, <1>5, <1>6, <1>7, <1>8, <1>9, <1>10, <1>11, <1>12
  DEF OnlyScheduler, Next, Step

(* Without requests beside the scheduler, the crawler keeps its promise:    *)
(* one crawl at a time, and a stop that ends it, with locked databases,     *)
(* exceptions and restarts.                                                 *)
THEOREM OneCrawlAtATime ==
  ASSUME OnlyScheduler
  PROVE  Spec => ImplementsOneCrawler
<1>1. Init => Abstract!Init
  <2> SUFFICES ASSUME Init PROVE Abstract!Init
    OBVIOUS
  <2>1. Active = {}
    BY DEF Init, Active, NoCrawl
  <2> QED
    BY <2>1 DEF Abstract!Init, Phase, Current, Left
<1>2. TypeOK /\ OneInv /\ OneInv' /\ [Next]_vars => [Abstract!Next]_(Abstract!vars)
  BY StepSimulation
<1> QED
  BY <1>1, <1>2, TypeInit, TypeNext, OneInit, OneNext, PTL
  DEF Spec, ImplementsOneCrawler, Abstract!Spec
=============================================================================
