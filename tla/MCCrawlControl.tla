---------------------------- MODULE MCCrawlControl ----------------------------
(* Instances of CrawlControl for TLC. *)
EXTENDS CrawlControl, TLC

Symmetry == Permutations(Users) \cup Permutations(Slots)
=============================================================================
