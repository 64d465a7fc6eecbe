---------------------------- MODULE MCScanService ----------------------------
(***************************************************************************)
(* A small instance of ScanService for TLC.                                *)
(***************************************************************************)
EXTENDS ScanService, TLC

CONSTANTS a1, a2, s1, o1, o2

MCTargetOf == (a1 :> o1) @@ (a2 :> o2) @@ (s1 :> o1)
=============================================================================
