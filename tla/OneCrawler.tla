------------------------------ MODULE OneCrawler ------------------------------
(***************************************************************************)
(* What the crawler promises its callers: one crawl at a time, and a stop  *)
(* signal that ends the crawl it was given to before it visits another     *)
(* URL.                                                                    *)
(***************************************************************************)
EXTENDS Naturals

CONSTANTS Jobs, NoJob

VARIABLES
  phase,    \* what the crawler does
  current,  \* the job it works on
  urls      \* the URLs it still has to visit

vars == <<phase, current, urls>>

Init == phase = "idle" /\ current = NoJob /\ urls = 0

Start(j) == /\ phase = "idle"
            /\ phase' = "crawling" /\ current' = j /\ urls' \in Nat
Visit    == /\ phase = "crawling"
            /\ urls' \in Nat /\ urls' < urls
            /\ UNCHANGED <<phase, current>>
Stop     == /\ phase = "crawling"
            /\ phase' = "stopping" /\ UNCHANGED <<current, urls>>
End      == /\ phase # "idle"
            /\ phase' = "idle" /\ current' = NoJob /\ urls' = 0

Next == (\E j \in Jobs : Start(j)) \/ Visit \/ Stop \/ End

Spec == Init /\ [][Next]_vars
=============================================================================
