---------------------------- MODULE MCIngestion ----------------------------
(* Instances of Ingestion for TLC. *)
EXTENDS IngestionInvariants, TLC

Symmetry == Permutations(Paths) \cup Permutations(Contents)
              \cup Permutations(Celery) \cup Permutations(Api)
=============================================================================
