------------------------------- MODULE MCMonitor -------------------------------
(***************************************************************************)
(* TLC instances of Monitor: two targets, and scans that end with nothing  *)
(* or with a finding.                                                      *)
(***************************************************************************)
EXTENDS Monitor

CONSTANTS a, b, home, gps

MCTargets == <<a, b>>
Position == [type |-> "metadata", description |-> gps]
MCFacts == {Position}
Exif == [rule |-> "OPSEC-003", severity |-> 3, confidence |-> 95,
         evidence |-> <<[fact |-> Position, source |-> home]>>]

MCOutcomes == {<<>>, <<Exif>>}
=============================================================================
