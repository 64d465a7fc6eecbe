----------------------------- MODULE MCScanQueue -----------------------------
(***************************************************************************)
(* Small instances of ScanQueue for TLC.                                   *)
(***************************************************************************)
EXTENDS ScanQueue, TLC

\* Requests of one kind are interchangeable, and so are suffixes.  Only the run
\* that checks no liveness property uses it.
Symmetry ==
  Permutations(AsyncRequests) \cup Permutations(SyncRequests)
    \cup Permutations(Suffixes)
=============================================================================
