\* Two asynchronous requests and a synchronous one for two targets, one slot,
\* a queue of one, and a job map that is pruned above one entry; two seconds of
\* scan IDs.  The daemon may stop, be killed and be started again at any time.
SPECIFICATION ServiceSpec
CONSTANTS
  a1 = a1
  a2 = a2
  s1 = s1
  o1 = o1
  o2 = o2
  AsyncRequests = {a1, a2}
  SyncRequests = {s1}
  MaxConcurrentScans = 1
  MaxQueueSize = 1
  PruneHigh = 1
  PruneLow = 0
  MaxSecond = 1
  Suffixes = {x1}
  NoSuffix = NoSuffix
  NoJob = NoJob
  NoId = NoId
  Onions = {o1, o2}
  TargetOf <- MCTargetOf
  NoTarget = NoTarget
  NoScan = NoScan
INVARIANTS
  AnsweredIfKnown
  CompletedWasSaved
  AnswerBearsId
PROPERTIES
  PollsOnlyAdvance
