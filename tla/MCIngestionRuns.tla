--------------------------- MODULE MCIngestionRuns ---------------------------
(* Values for model checking IngestionRuns on small instances.             *)
EXTENDS IngestionRuns, TLC

\* Schedulers and processors are interchangeable; sound for safety runs only.
MCSymmetry == Permutations(Schedulers) \cup Permutations(Processors)
=============================================================================
