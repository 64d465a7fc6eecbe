\* One slot and a queue of one; pruning starts above two entries and stops at
\* one, so that every kind of entry meets it; two seconds of scan IDs.  Both
\* kinds of requests, and requests that are refused.
SPECIFICATION Spec
CONSTANTS
  AsyncRequests = {a1, a2, a3}
  SyncRequests = {s1, s2}
  MaxConcurrentScans = 1
  MaxQueueSize = 1
  PruneHigh = 2
  PruneLow = 1
  MaxSecond = 1
  Suffixes = {x1, x2}
  NoSuffix = NoSuffix
  NoJob = NoJob
  NoId = NoId
SYMMETRY Symmetry
INVARIANTS
  TypeOK
  JobMapBounded
PROPERTIES
  RefusedOnlyWhenSaturated
  OnlyFinishedForgotten
