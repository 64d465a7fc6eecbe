\* Two targets and three scans at most, of the command and of another process,
\* over any number of invocations; any two scans in a row may end in one second.
\* A scan without findings is just not above the threshold.
SPECIFICATION FairSpec
CONSTANTS
  a = a
  b = b
  home = home
  gps = gps
  Rules = {"OPSEC-003"}
  Facts <- MCFacts
  Sources = {home}
  Peers = {}
  Onions = {a, b}
  Targets <- MCTargets
  Outcomes <- MCOutcomes
  FailOnChanges = TRUE
  HasFailAbove = TRUE
  FailAboveScore = 0
  MaxScans = 3
  NoScan = NoScan
  Unread = Unread
INVARIANTS
  ReportsChain
  FailuresDoNotSpread
  ExitCodeTells
PROPERTIES
  StopsWhenTold
