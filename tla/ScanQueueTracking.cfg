\* One slot; a finished synchronous scan takes the ID of a live job.
SPECIFICATION Spec
CONSTANTS
  AsyncRequests = {a1}
  SyncRequests = {s1}
  MaxConcurrentScans = 1
  MaxQueueSize = 1
  PruneHigh = 2
  PruneLow = 1
  MaxSecond = 0
  Suffixes = {x1}
  NoSuffix = NoSuffix
  NoJob = NoJob
  NoId = NoId
INVARIANTS
  LiveJobsTracked
