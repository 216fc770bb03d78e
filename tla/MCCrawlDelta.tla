----------------------------- MODULE MCCrawlDelta -----------------------------
(* Instances of CrawlDelta for TLC: a page that links to a document, and   *)
(* back to itself; or also to a second page, which links to a second       *)
(* document.                                                               *)
EXTENDS CrawlDelta, TLC

CONSTANTS p1, p2, d1, d2

OnePage   == p1 :> {p1, d1}
TwoPages  == (p1 :> {p1, p2, d1}) @@ (p2 :> {p1, d2})
=============================================================================
