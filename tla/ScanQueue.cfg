\* The queue against its abstract specification, with fairness: no symmetry.
\* Two slots and a queue of two, four asynchronous requests.
SPECIFICATION FairSpec
CONSTANTS
  AsyncRequests = {a1, a2, a3, a4}
  SyncRequests = {}
  MaxConcurrentScans = 2
  MaxQueueSize = 2
  PruneHigh = 4
  PruneLow = 1
  MaxSecond = 0
  Suffixes = {x1}
  NoSuffix = NoSuffix
  NoJob = NoJob
  NoId = NoId
INVARIANTS
  SlotsBackedByWorkers
  QueueHoldsTheWaiting
PROPERTIES
  AcceptedJobsFinish
  ImplementsPool
