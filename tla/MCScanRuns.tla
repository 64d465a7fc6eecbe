------------------------------ MODULE MCScanRuns ------------------------------
(***************************************************************************)
(* TLC instances of ScanRuns.  Runs, onions and signals are interchangeable*)
(* in the safety properties.                                               *)
(***************************************************************************)
EXTENDS ScanRuns, TLC

Symmetry == Permutations(Runs) \cup Permutations(Onions) \cup Permutations(Signals)
=============================================================================
