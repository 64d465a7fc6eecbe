------------------------------- MODULE JobPool -------------------------------
(***************************************************************************)
(* What the scan queue of the API server promises, without IDs, a job map, *)
(* goroutines or a clock: jobs are admitted to a line, a job starts as     *)
(* soon as a slot is free and never before one admitted earlier, each runs *)
(* once, and every admitted job ends.                                      *)
(***************************************************************************)
EXTENDS Integers, Sequences, FiniteSets

CONSTANTS
  Jobs,    \* whatever may be admitted
  Slots,   \* how many jobs run at a time
  Room     \* how many jobs may wait

VARIABLES
  line,    \* every job ever admitted, in order
  started, \* how many of the line were started, from its front
  ended    \* the jobs that ended

poolVars == <<line, started, ended>>

Waiting == Len(line) - started
Running == {line[i] : i \in 1 .. started} \ ended

Init ==
  /\ line = <<>>
  /\ started = 0
  /\ ended = {}

\* A job joins the line while there is room, and starts if a slot is free.
Admit(j) ==
  /\ \A i \in DOMAIN line : line[i] # j
  /\ Waiting < Room
  /\ line' = Append(line, j)
  /\ started' = IF Cardinality(Running) < Slots THEN started + 1 ELSE started
  /\ UNCHANGED ended

\* A running job ends and the front of the waiting jobs takes its slot.
End(j) ==
  /\ j \in Running
  /\ ended' = ended \cup {j}
  /\ started' = IF Waiting > 0 THEN started + 1 ELSE started
  /\ UNCHANGED line

Next == \E j \in Jobs : Admit(j) \/ End(j)

Spec == Init /\ [][Next]_poolVars

FairSpec == Spec /\ \A j \in Jobs : WF_poolVars(End(j))
=============================================================================
