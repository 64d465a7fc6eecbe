-------------------------------- MODULE Monitor --------------------------------
(***************************************************************************)
(* onionsec monitor and onionsec scan (cmd/onionsec/main.go): invocations  *)
(* of the commands, one after the other, on one store.  Each scans its     *)
(* targets in turn; monitor compares each scan with the latest one of the  *)
(* target, goes on until a signal with --interval, and without it makes one*)
(* round, as scan does, and tells by its exit code what it found.  Another *)
(* process (the daemon, another scan) saves scans of the same targets, and *)
(* the command may be killed at any step.                                  *)
(***************************************************************************)
EXTENDS Diff

CONSTANTS
  Onions,
  Targets,        \* the targets of the command line and file, a sequence
  Outcomes,       \* findings a scan may end with
  FailOnChanges,  \* --fail-on-changes
  HasFailAbove,   \* --fail-above-score is given ...
  FailAboveScore, \* ... with this threshold
  MaxScans,       \* bound of the model: scans that end
  NoScan,
  Unread          \* oldScan when Latest failed

\* Loading the targets refuses to go on with none, and keeps one that is
\* given twice.
ASSUME MonitorAssumption ==
  /\ Targets \in Seq(Onions) /\ Targets # <<>>
  /\ Outcomes \subseteq Seq(Finding)
  /\ FailOnChanges \in BOOLEAN /\ HasFailAbove \in BOOLEAN
  /\ FailAboveScore \in Int
  /\ MaxScans \in Nat

\* Scans, reports and scans of other processes that end with these findings.
Scans == [id : 1 .. MaxScans, findings : Outcomes, riskScore : 0 .. 100]
Reported == [base : Scans \cup {NoScan, Unread}, new : Scans]
OtherScans == [onion : Onions, scan : Scans]

ASSUME NoScanAssumption ==
  /\ NoScan \notin Scans \cup Reported \cup OtherScans
  /\ Unread \notin Scans \cup {NoScan}

\* What Score is capped to.
ASSUME ScoresAssumption == \A fs \in Outcomes : Score(fs) \in 0 .. 100

VARIABLES
  rows,       \* onion -> its rows of the table scans
  seconds,    \* the second of EndedAt of each scan, in the order they ended
  other,      \* the scan another process is about to save
  \* the command
  pc,         \* where it is
  mode,       \* "scan", "interval" (monitor --interval) or "round" (monitor)
  cancelled,  \* sigCtx is done
  tick,       \* the ticker's channel holds a tick
  index,      \* position in Targets
  base,       \* oldScan; NoScan or Unread when hasOld is false
  current,    \* newScan
  hadAnyChanges, maxScore,
  code,       \* exit code
  \* history
  tried,      \* targets of this round whose scan was attempted
  reports,    \* place in Targets -> [base, new] of this round's last
              \* report of the target there
  covered,    \* onion -> the newest scan a report of monitor compared
  excused     \* scans that monitor owes no report: of others, or cut off

storeVars == <<rows, seconds, other>>
batchVars == <<index, base, current, hadAnyChanges, maxScore, tried>>
history == <<reports, covered, excused>>
vars == <<storeVars, pc, mode, cancelled, tick, batchVars, code, history>>

Target == Targets[index]

\* The number of scans that ended.
ended == Len(seconds)

\* The second in which the next scan ends: only which scans end in one second
\* matters, not how many seconds lie between the others.
NextSeconds == IF seconds = <<>> THEN {0} ELSE {seconds[ended], seconds[ended] + 1}

SameSecond(i, j) == seconds[i] = seconds[j]

\* A scan: its place among the scans by EndedAt, its findings and score.
NewScan(findings) ==
  [id |-> ended + 1, findings |-> findings, riskScore |-> Score(findings)]

NoReports == [i \in DOMAIN Targets |-> NoScan]

Init ==
  /\ rows = [o \in Onions |-> {}]
  /\ seconds = <<>>
  /\ other = NoScan
  /\ pc = "down"
  /\ mode = "round" /\ cancelled = FALSE /\ tick = FALSE
  /\ index = 1 /\ base = NoScan /\ current = NoScan
  /\ hadAnyChanges = FALSE /\ maxScore = 0 /\ tried = {}
  /\ code = 0
  /\ reports = NoReports
  /\ covered = [o \in Onions |-> 0]
  /\ excused = {}

Running == pc \notin {"down", "exited", "killed"}

-----------------------------------------------------------------------------
(* The store *)

\* Save: INSERT OR REPLACE.  The key of a row is its target and the second of
\* EndedAt, so a scan takes the row of another one that ended in its second,
\* be it newer.
Stored(o, scan) ==
  rows' = [rows EXCEPT ![o] = {s \in @ : ~SameSecond(s.id, scan.id)} \cup {scan}]

\* Latest orders the rows by ended_at.
Latest(o) ==
  IF rows[o] = {} THEN NoScan
  ELSE CHOOSE s \in rows[o] : \A t \in rows[o] : t.id <= s.id

OtherScanEnds ==
  /\ other = NoScan
  /\ ended < MaxScans
  /\ \E o \in Onions, fs \in Outcomes : other' = [onion |-> o, scan |-> NewScan(fs)]
  /\ \E s \in NextSeconds : seconds' = Append(seconds, s)
  /\ excused' = excused \cup {ended + 1}
  /\ UNCHANGED <<rows, pc, mode, cancelled, tick, batchVars, code, reports, covered>>

OtherSaves ==
  /\ other # NoScan
  /\ Stored(other.onion, other.scan)
  /\ other' = NoScan
  /\ UNCHANGED <<seconds, pc, mode, cancelled, tick, batchVars, code, history>>

-----------------------------------------------------------------------------
(* runMonitorWithClient *)

\* The local variables of executeMonitorBatch are gone.
NoBatch ==
  /\ index' = 1
  /\ base' = NoScan /\ current' = NoScan
  /\ hadAnyChanges' = FALSE /\ maxScore' = 0
  /\ tried' = {}

\* A new invocation: its options, targets, configuration and store are
\* accepted, or it ends with exit code 1.
Invoke ==
  /\ ~Running
  /\ mode' \in {"scan", "round", "interval"}
  /\ \/ pc' = "target" /\ code' = 0
     \/ pc' = "exited" /\ code' = 1
  /\ cancelled' = FALSE /\ tick' = FALSE
  /\ reports' = NoReports
  /\ UNCHANGED <<storeVars, batchVars, covered, excused>>

\* SIGINT or SIGTERM: the context of scan, or of monitor with --interval, is
\* done.
Signal ==
  /\ Running /\ mode # "round"
  /\ cancelled' = TRUE
  /\ UNCHANGED <<storeVars, pc, mode, tick, batchVars, code, history>>

\* A crash; without --interval a signal ends monitor as well.
Killed ==
  /\ Running
  /\ pc' = "killed"
  /\ NoBatch
  /\ mode' = "round" /\ cancelled' = FALSE /\ tick' = FALSE
  /\ reports' = NoReports
  /\ excused' = IF current = NoScan THEN excused ELSE excused \cup {current.id}
  /\ UNCHANGED <<storeVars, code, covered>>

\* A tick that finds the channel full is dropped.
Tick ==
  /\ Running /\ mode = "interval"
  /\ tick' = TRUE
  /\ UNCHANGED <<storeVars, pc, mode, cancelled, batchVars, code, history>>

\* Mutant of SelectDone: it waits until no tick is left.
SelectDoneLast ==
  /\ pc = "select" /\ cancelled /\ ~tick
  /\ pc' = "exited"
  /\ UNCHANGED <<storeVars, mode, cancelled, tick, batchVars, code, history>>

SelectDone ==
  /\ pc = "select" /\ cancelled
  /\ pc' = "exited"
  /\ UNCHANGED <<storeVars, mode, cancelled, tick, batchVars, code, history>>

SelectTick ==
  /\ pc = "select" /\ tick
  /\ tick' = FALSE
  /\ pc' = "target"
  /\ UNCHANGED <<storeVars, mode, cancelled, batchVars, code, history>>

-----------------------------------------------------------------------------
(* executeMonitorBatch *)

ExitCode ==
  IF \/ mode = "round" /\ FailOnChanges /\ hadAnyChanges
     \/ HasFailAbove /\ maxScore > FailAboveScore
  THEN 2 ELSE 0

\* "scan cancelled by user"
Cancelled == 130

\* The round is over, or given up because the context is done: monitor goes
\* back to its select.
EndBatch ==
  /\ pc = "target"
  /\ index > Len(Targets) \/ cancelled
  /\ IF mode = "interval"
     THEN pc' = "select" /\ reports' = NoReports /\ UNCHANGED code
     ELSE /\ pc' = "exited" /\ code' = IF index <= Len(Targets) THEN Cancelled ELSE ExitCode
          /\ UNCHANGED reports
  /\ NoBatch
  /\ UNCHANGED <<storeVars, mode, cancelled, tick, covered, excused>>

\* monitor reads the baseline before the scan; when that fails it goes on
\* without one.
BeginTarget ==
  /\ pc = "target"
  /\ index <= Len(Targets) /\ ~cancelled
  /\ base' \in IF mode = "scan" THEN {NoScan} ELSE {Latest(Target), Unread}
  /\ pc' = "scanning"
  /\ tried' = tried \cup {Target}
  /\ UNCHANGED <<storeVars, mode, cancelled, tick, index, current,
                 hadAnyChanges, maxScore, code, history>>

\* Mutant of ScanFails: a failure ends the round.
ScanFailsForAll ==
  /\ pc \in {"scanning", "saving"}
  /\ pc' = "target"
  /\ index' = Len(Targets) + 1
  /\ base' = NoScan /\ current' = NoScan
  /\ excused' = IF current = NoScan THEN excused ELSE excused \cup {current.id}
  /\ UNCHANGED <<storeVars, mode, cancelled, tick, hadAnyChanges, maxScore,
                 tried, code, reports, covered>>

\* scan.Run returns an error, of the crawl or of Save: the next target, unless
\* scan was cancelled.
ScanFails ==
  /\ pc \in {"scanning", "saving"}
  /\ IF mode = "scan" /\ cancelled
     THEN /\ pc' = "exited" /\ code' = Cancelled
          /\ NoBatch
     ELSE /\ pc' = "target" /\ index' = index + 1
          /\ base' = NoScan /\ current' = NoScan
          /\ UNCHANGED <<hadAnyChanges, maxScore, tried, code>>
  /\ excused' = IF current = NoScan THEN excused ELSE excused \cup {current.id}
  /\ UNCHANGED <<storeVars, mode, cancelled, tick, reports, covered>>

\* scan.Run has its result, whole or, when a context or a budget ended, what
\* was found up to there.
ScanEnds ==
  /\ pc = "scanning"
  /\ ended < MaxScans
  /\ \E fs \in Outcomes : current' = NewScan(fs)
  /\ \E s \in NextSeconds : seconds' = Append(seconds, s)
  /\ excused' = IF mode = "scan" THEN excused \cup {ended + 1} ELSE excused
  /\ pc' = "saving"
  /\ UNCHANGED <<rows, other, mode, cancelled, tick, index, base,
                 hadAnyChanges, maxScore, tried, code, reports, covered>>

ScanSaves ==
  /\ pc = "saving"
  /\ Stored(Target, current)
  /\ pc' = "saved"
  /\ UNCHANGED <<seconds, other, mode, cancelled, tick, batchVars, code, history>>

DiffOf(old, new) == IF old \in {NoScan, Unread} THEN Baseline(new) ELSE Compare(old, new)

Changed == mode # "scan" /\ HasChanges(DiffOf(base, current))

\* Mutant of Report: the last target decides.
ReportLast ==
  /\ pc = "saved"
  /\ maxScore' = Maximum(maxScore, current.riskScore)
  /\ hadAnyChanges' = Changed
  /\ pc' = "target"
  /\ index' = index + 1
  /\ reports' = [reports EXCEPT ![index] = [base |-> base, new |-> current]]
  /\ covered' = IF mode = "scan" THEN covered ELSE [covered EXCEPT ![Target] = current.id]
  /\ base' = NoScan /\ current' = NoScan
  /\ UNCHANGED <<storeVars, mode, cancelled, tick, tried, code, excused>>

\* Mutant of Report: nothing is reported once the signal came.
ReportUnlessCancelled ==
  /\ pc = "saved"
  /\ pc' = "target"
  /\ index' = index + 1
  /\ base' = NoScan /\ current' = NoScan
  /\ IF cancelled
     THEN UNCHANGED <<maxScore, hadAnyChanges, reports, covered>>
     ELSE /\ maxScore' = Maximum(maxScore, current.riskScore)
          /\ hadAnyChanges' = (hadAnyChanges \/ Changed)
          /\ reports' = [reports EXCEPT ![index] = [base |-> base, new |-> current]]
          /\ covered' = IF mode = "scan" THEN covered ELSE [covered EXCEPT ![Target] = current.id]
  /\ UNCHANGED <<storeVars, mode, cancelled, tick, tried, code, excused>>

\* monitor compares the scan with the baseline; the report is rendered.
Report ==
  /\ pc = "saved"
  /\ maxScore' = Maximum(maxScore, current.riskScore)
  /\ hadAnyChanges' = (hadAnyChanges \/ Changed)
  /\ pc' = "target"
  /\ index' = index + 1
  /\ reports' = [reports EXCEPT ![index] = [base |-> base, new |-> current]]
  /\ covered' = IF mode = "scan" THEN covered ELSE [covered EXCEPT ![Target] = current.id]
  /\ base' = NoScan /\ current' = NoScan
  /\ UNCHANGED <<storeVars, mode, cancelled, tick, tried, code, excused>>

-----------------------------------------------------------------------------
Batch ==
  EndBatch \/ BeginTarget \/ ScanFails \/ ScanEnds \/ ScanSaves \/ Report

Environment ==
  OtherScanEnds \/ OtherSaves \/ Invoke \/ Signal \/ Killed \/ Tick

Next == Environment \/ Batch \/ SelectDone \/ SelectTick

Spec == Init /\ [][Next]_vars

\* The command runs, scan.Run has a deadline, and select chooses at random
\* among the channels that are ready.
FairSpec == Spec /\ WF_vars(Batch) /\ WF_vars(SelectTick) /\ SF_vars(SelectDone)
-----------------------------------------------------------------------------
(* Correctness *)

\* Types of the variables.
TypeOK ==
  /\ rows \in [Onions -> SUBSET Scans]
  /\ seconds \in Seq(Nat) /\ ended <= MaxScans
  /\ other \in OtherScans \cup {NoScan}
  /\ pc \in {"down", "target", "scanning", "saving", "saved", "select", "exited", "killed"}
  /\ mode \in {"scan", "round", "interval"} /\ cancelled \in BOOLEAN /\ tick \in BOOLEAN
  /\ index \in 1 .. Len(Targets) + 1
  /\ base \in Scans \cup {NoScan, Unread} /\ current \in Scans \cup {NoScan}
  /\ hadAnyChanges \in BOOLEAN /\ maxScore \in 0 .. 100
  /\ code \in {0, 1, 2, Cancelled}
  /\ tried \subseteq ToSet(Targets)
  /\ reports \in [DOMAIN Targets -> Reported \cup {NoScan}]
  /\ covered \in [Onions -> 0 .. MaxScans]
  /\ excused \subseteq 1 .. MaxScans

\* The reports of a target follow each other, over all invocations: a report
\* starts from the scan the last one ended with, unless a scan that monitor
\* owes no report, of another process or of an invocation that was cut off,
\* came after it, or took its row by ending in the same second.  A report
\* without a baseline is the first one, or its baseline could not be read.  So
\* changes are only reported twice, or never, where Latest cannot know better.
ReportsChain ==
  pc = "saved" /\ mode # "scan" /\ base # Unread =>
    IF base = NoScan THEN covered[Target] = 0
    ELSE /\ base.id < current.id
         /\ \/ base.id = covered[Target]
            \/ /\ base.id \in excused
               /\ covered[Target] < base.id \/ SameSecond(covered[Target], base.id)

\* A round that is not given up tries every target, whatever fails.
FailuresDoNotSpread ==
  pc = "target" /\ index > Len(Targets) => tried = ToSet(Targets)

\* A round of monitor, or a scan, exits with 2 just when one of its reports
\* has changes that it was asked about, or a score above the threshold,
\* whatever the other targets came to, or when the threshold is negative; and
\* with 130 only if it was cancelled while a target was left.
ExitCodeTells ==
  pc = "exited" /\ mode # "interval" /\ code # 1 =>
    /\ code = Cancelled => mode = "scan" /\ cancelled /\ reports[Len(Targets)] = NoScan
    /\ code # Cancelled =>
         (code = 2 <=>
           \/ HasFailAbove /\ 0 > FailAboveScore
           \/ \E i \in DOMAIN Targets : reports[i] # NoScan /\
                LET r == reports[i] IN
                \/ mode = "round" /\ FailOnChanges /\ HasChanges(DiffOf(r.base, r.new))
                \/ HasFailAbove /\ r.new.riskScore > FailAboveScore)

\* After the signal the command ends, though ticks go on.
StopsWhenTold == cancelled ~> ~Running

=============================================================================
