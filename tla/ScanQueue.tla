------------------------------ MODULE ScanQueue ------------------------------
(***************************************************************************)
(* The asynchronous scan queue of the HTTP API server                      *)
(* (internal/api/server.go): the ScanJob objects, the job map that status  *)
(* polls read, the FIFO of waiting jobs and the worker goroutines.         *)
(*                                                                         *)
(* Every request in AsyncRequests is one POST /v1/scans with "async": true *)
(* and creates at most one ScanJob; every request in SyncRequests is one   *)
(* POST /v1/scans that runs the scan in its own handler.  A request stands *)
(* both for its handler and for the ScanJob object it creates.  A step is  *)
(* what one goroutine does between two acquisitions of Server.mu.          *)
(***************************************************************************)
EXTENDS Integers, Sequences, FiniteSets, Functions

CONSTANTS
  AsyncRequests,      \* POST /v1/scans with "async": true
  SyncRequests,       \* POST /v1/scans answered when the scan is over
  MaxConcurrentScans, \* Server.MaxConcurrentScans; 0 or less means 4
  MaxQueueSize,       \* Server.MaxQueueSize; 0 or less means 32
  PruneHigh,          \* 500: the job map is pruned above this size ...
  PruneLow,           \* 400: ... down to this size
  MaxSecond,          \* bound of the model: the last second of the clock
  Suffixes,           \* values of time.Now().UnixNano() % 10000
  NoSuffix,           \* a scan ID without "-<nanos>"
  NoJob,              \* the job map has no entry for a key
  NoId                \* a request that has no scan ID yet

Requests == AsyncRequests \cup SyncRequests

Seconds == 0 .. MaxSecond

\* A scan ID: the UTC second it was formatted in ("20060102T150405Z") and,
\* after a collision in the job map, "-<nanos>".
ScanIds == Seconds \X (Suffixes \cup {NoSuffix})

maxConcurrent == IF MaxConcurrentScans <= 0 THEN 4 ELSE MaxConcurrentScans
maxQueue == IF MaxQueueSize <= 0 THEN 32 ELSE MaxQueueSize

ASSUME RequestsAssumption ==
  /\ IsFiniteSet(AsyncRequests)
  /\ IsFiniteSet(SyncRequests)
  /\ AsyncRequests \cap SyncRequests = {}
  /\ NoJob \notin Requests

ASSUME LimitsAssumption ==
  /\ MaxConcurrentScans \in Int
  /\ MaxQueueSize \in Int
  /\ PruneHigh \in Nat
  /\ PruneLow \in Nat
  /\ PruneLow < PruneHigh

ASSUME ScanIdsAssumption ==
  /\ MaxSecond \in Nat
  /\ IsFiniteSet(Suffixes)
  /\ NoSuffix \notin Suffixes
  /\ NoId \notin ScanIds

VARIABLES
  \* Server, guarded by Server.mu
  activeScans,   \* slots of the worker pool in use
  queuedJobs,    \* the waiting jobs, oldest first
  jobs,          \* scan ID -> job, NoJob where the map has no entry
  \* ScanJob, guarded by Server.mu
  status,        \* ScanJob.Status; "none" before the object exists
  scanId,        \* the ID: formatted by the handler, final in the object
  \* goroutines
  pc,            \* what the request's handler or worker does next
  \* environment
  now,           \* the wall clock, in seconds
  \* history
  arrivals       \* the accepted jobs, in the order Server.mu admitted them

serverVars == <<activeScans, queuedJobs, jobs>>
vars == <<activeScans, queuedJobs, jobs, status, scanId, pc, now, arrivals>>

Finished == {"completed", "failed"}
Statuses == {"none", "queued", "running"} \cup Finished

\* Where executeJob's goroutine for a job can be while it holds a slot.
Spawned  == "spawned"    \* go s.executeJob(job) was executed
Scanning == "scanning"   \* in scan.Run
ScanOver == {"succeeded", "erred", "panicked"}
WorkerPcs == {Spawned, Scanning} \cup ScanOver

\* Where a handler can be: before the lock of enqueueAsyncScan, or in the
\* scan.Run of a synchronous request and before the lock that follows it.
HandlerPcs == {"idle", "arrived", "inline", "inlineDone"}
\* Nothing runs: the job waits in queuedJobs, or the request is over.
RestingPcs == {"parked", "refused", "exited", "replied"}

-----------------------------------------------------------------------------
Init ==
  /\ activeScans = 0
  /\ queuedJobs = <<>>
  /\ jobs = [id \in ScanIds |-> NoJob]
  /\ status = [r \in Requests |-> "none"]
  /\ scanId = [r \in Requests |-> NoId]
  /\ pc = [r \in Requests |-> "idle"]
  /\ now = 0
  /\ arrivals = <<>>

Tick ==
  /\ now < MaxSecond
  /\ now' = now + 1
  /\ UNCHANGED <<serverVars, status, scanId, pc, arrivals>>

-----------------------------------------------------------------------------
(* The job map *)

Tracked == {id \in ScanIds : jobs[id] # NoJob}

\* Mutants of FinishedIds: failed jobs are kept, waiting jobs are deleted.
CompletedIds == {id \in Tracked : status[jobs[id]] = "completed"}
NotRunningIds == {id \in Tracked : status[jobs[id]] # "running"}

FinishedIds == {id \in Tracked : status[jobs[id]] \in Finished}

\* What pruneJobsLocked may delete.  It ranges over a Go map, so which of
\* the finished entries go is not determined; it stops at PruneLow entries
\* or when no finished entry is left.
PruneChoices ==
  IF Cardinality(Tracked) <= PruneHigh
  THEN {{}}
  ELSE {D \in SUBSET FinishedIds :
          \/ Cardinality(Tracked \ D) = PruneLow
          \/ D = FinishedIds /\ Cardinality(Tracked \ D) > PruneLow}

\* The job map once the entries in D are deleted and job r is stored under id.
Stored(D, id, r) ==
  [i \in ScanIds |-> IF i = id THEN r
                     ELSE IF i \in D THEN NoJob ELSE jobs[i]]

-----------------------------------------------------------------------------
(* Asynchronous requests *)

\* handleCreateScan formats the scan ID before it reaches the lock.
ReceiveAsync(r) ==
  /\ r \in AsyncRequests
  /\ pc[r] = "idle"
  /\ scanId' = [scanId EXCEPT ![r] = <<now, NoSuffix>>]
  /\ pc' = [pc EXCEPT ![r] = "arrived"]
  /\ UNCHANGED <<serverVars, status, now, arrivals>>

\* Mutant of Refuse: the bound of the queue is off by one.
RefuseEarly(r) ==
  /\ pc[r] = "arrived"
  /\ Len(queuedJobs) + 1 >= maxQueue
  /\ pc' = [pc EXCEPT ![r] = "refused"]
  /\ UNCHANGED <<serverVars, status, scanId, now, arrivals>>

\* enqueueAsyncScan returns ErrQueueFull and the handler answers 429.
Refuse(r) ==
  /\ pc[r] = "arrived"
  /\ Len(queuedJobs) >= maxQueue
  /\ pc' = [pc EXCEPT ![r] = "refused"]
  /\ UNCHANGED <<serverVars, status, scanId, now, arrivals>>

\* The ID of the new job: the formatted second, or that second with some
\* nanosecond suffix when the job map has the ID already.
FreshIds(r) ==
  IF jobs[scanId[r]] = NoJob
  THEN {scanId[r]}
  ELSE {<<scanId[r][1], s>> : s \in Suffixes}

Enqueue(r) ==
  /\ pc[r] = "arrived"
  /\ Len(queuedJobs) < maxQueue
  /\ \E id \in FreshIds(r), D \in PruneChoices :
       /\ scanId' = [scanId EXCEPT ![r] = id]
       /\ jobs' = Stored(D, id, r)
  /\ arrivals' = Append(arrivals, r)
  /\ \/ /\ activeScans < maxConcurrent
        /\ activeScans' = activeScans + 1
        /\ status' = [status EXCEPT ![r] = "running"]
        /\ pc' = [pc EXCEPT ![r] = Spawned]
        /\ UNCHANGED queuedJobs
     \/ /\ activeScans >= maxConcurrent
        /\ queuedJobs' = Append(queuedJobs, r)
        /\ status' = [status EXCEPT ![r] = "queued"]
        /\ pc' = [pc EXCEPT ![r] = "parked"]
        /\ UNCHANGED activeScans
  /\ UNCHANGED now

-----------------------------------------------------------------------------
(* The worker goroutine, executeJob *)

\* It stores its cancel function in the job under the lock and calls
\* scan.Run; nothing the model keeps depends on the cancel function, which
\* only executeJob itself ever calls.
BeginScan(r) ==
  /\ pc[r] = Spawned
  /\ pc' = [pc EXCEPT ![r] = Scanning]
  /\ UNCHANGED <<serverVars, status, scanId, now, arrivals>>

\* scan.Run returns a result or an error, or panics.
ScanReturns(r) ==
  /\ pc[r] = Scanning
  /\ \E outcome \in ScanOver : pc' = [pc EXCEPT ![r] = outcome]
  /\ UNCHANGED <<serverVars, status, scanId, now, arrivals>>

\* Mutants of DispatchNext: the next job starts and the slot is freed too;
\* the slot is freed and no job starts; the next job stays in the queue; the
\* newest job starts first.
DispatchAndFree(r, end) ==
  /\ activeScans' = activeScans - 1
  /\ IF queuedJobs # <<>>
     THEN LET next == Head(queuedJobs) IN
          /\ queuedJobs' = Tail(queuedJobs)
          /\ status' = [status EXCEPT ![r] = end, ![next] = "running"]
          /\ pc' = [pc EXCEPT ![r] = "exited", ![next] = Spawned]
     ELSE /\ status' = [status EXCEPT ![r] = end]
          /\ pc' = [pc EXCEPT ![r] = "exited"]
          /\ UNCHANGED queuedJobs
FreeOnly(r, end) ==
  /\ activeScans' = activeScans - 1
  /\ status' = [status EXCEPT ![r] = end]
  /\ pc' = [pc EXCEPT ![r] = "exited"]
  /\ UNCHANGED queuedJobs
DispatchWithoutPop(r, end) ==
  IF queuedJobs # <<>>
  THEN LET next == Head(queuedJobs) IN
       /\ status' = [status EXCEPT ![r] = end, ![next] = "running"]
       /\ pc' = [pc EXCEPT ![r] = "exited", ![next] = Spawned]
       /\ UNCHANGED <<activeScans, queuedJobs>>
  ELSE FreeOnly(r, end)
DispatchNewest(r, end) ==
  IF queuedJobs # <<>>
  THEN LET n == Len(queuedJobs)
           next == queuedJobs[n] IN
       /\ queuedJobs' = SubSeq(queuedJobs, 1, n - 1)
       /\ status' = [status EXCEPT ![r] = end, ![next] = "running"]
       /\ pc' = [pc EXCEPT ![r] = "exited", ![next] = Spawned]
       /\ UNCHANGED activeScans
  ELSE FreeOnly(r, end)

\* dispatchNextLocked hands the slot of r, which ends with status `end`, to
\* the oldest waiting job, and gives the slot back when none waits.
DispatchNext(r, end) ==
  IF queuedJobs # <<>>
  THEN LET next == Head(queuedJobs) IN
       /\ queuedJobs' = Tail(queuedJobs)
       /\ status' = [status EXCEPT ![r] = end, ![next] = "running"]
       /\ pc' = [pc EXCEPT ![r] = "exited", ![next] = Spawned]
       /\ UNCHANGED activeScans
  ELSE /\ activeScans' = activeScans - 1
       /\ status' = [status EXCEPT ![r] = end]
       /\ pc' = [pc EXCEPT ![r] = "exited"]
       /\ UNCHANGED queuedJobs

\* The locked tail of executeJob.
FinishJob(r) ==
  /\ pc[r] \in {"succeeded", "erred"}
  /\ DispatchNext(r, IF pc[r] = "succeeded" THEN "completed" ELSE "failed")
  /\ UNCHANGED <<jobs, scanId, now, arrivals>>

\* Mutant of RecoverJob: the panic handler forgets to dispatch.
RecoverWithoutDispatch(r) ==
  /\ pc[r] = "panicked"
  /\ status' = [status EXCEPT ![r] = "failed"]
  /\ pc' = [pc EXCEPT ![r] = "exited"]
  /\ UNCHANGED <<serverVars, scanId, now, arrivals>>

\* The deferred function of executeJob that recovers a panic.
RecoverJob(r) ==
  /\ pc[r] = "panicked"
  /\ DispatchNext(r, "failed")
  /\ UNCHANGED <<jobs, scanId, now, arrivals>>

-----------------------------------------------------------------------------
(* Synchronous requests: the handler runs the scan itself, whatever the    *)
(* worker pool is doing.                                                   *)

ReceiveSync(r) ==
  /\ r \in SyncRequests
  /\ pc[r] = "idle"
  /\ pc' = [pc EXCEPT ![r] = "inline"]
  /\ UNCHANGED <<serverVars, status, scanId, now, arrivals>>

\* scan.Run returns a result, and the scan ID is the second it ended in.
SyncScanReturns(r) ==
  /\ pc[r] = "inline"
  /\ scanId' = [scanId EXCEPT ![r] = <<now, NoSuffix>>]
  /\ pc' = [pc EXCEPT ![r] = "inlineDone"]
  /\ UNCHANGED <<serverVars, status, now, arrivals>>

\* scan.Run fails or panics: an error response, and no job object.
SyncScanFails(r) ==
  /\ pc[r] = "inline"
  /\ pc' = [pc EXCEPT ![r] = "replied"]
  /\ UNCHANGED <<serverVars, status, scanId, now, arrivals>>

\* The finished scan enters the job map under its ID, replacing any entry.
RecordSync(r) ==
  /\ pc[r] = "inlineDone"
  /\ \E D \in PruneChoices : jobs' = Stored(D, scanId[r], r)
  /\ status' = [status EXCEPT ![r] = "completed"]
  /\ pc' = [pc EXCEPT ![r] = "replied"]
  /\ UNCHANGED <<activeScans, queuedJobs, scanId, now, arrivals>>

-----------------------------------------------------------------------------
\* Every request was issued and answered, no worker runs and the clock is at
\* its bound: the only way a behaviour of this bounded model may stop.
AllOver ==
  /\ now = MaxSecond
  /\ \A r \in Requests : pc[r] \in {"refused", "exited", "replied"}
  /\ UNCHANGED vars

Worker(r) == BeginScan(r) \/ ScanReturns(r) \/ FinishJob(r) \/ RecoverJob(r)

AsyncHandler(r) == ReceiveAsync(r) \/ Refuse(r) \/ Enqueue(r)

SyncHandler(r) ==
  ReceiveSync(r) \/ SyncScanReturns(r) \/ SyncScanFails(r) \/ RecordSync(r)

Next ==
  \/ Tick
  \/ \E r \in Requests : AsyncHandler(r) \/ Worker(r) \/ SyncHandler(r)
  \/ AllOver

Spec == Init /\ [][Next]_vars

\* The Go scheduler runs every runnable goroutine, and scan.Run returns: it
\* works under a context with a deadline (TotalBudget plus one minute).
\* Clients and the clock are under no obligation.
FairSpec == Spec /\ \A r \in Requests : WF_vars(Worker(r))
-----------------------------------------------------------------------------
(* Correctness *)

\* A step after which an entry is gone from the job map.
ForgetsOnlyFinished ==
  \A id \in Tracked : jobs'[id] = NoJob => status[jobs[id]] \in Finished

LiveJobs == {r \in AsyncRequests : status[r] \in {"queued", "running"}}
Workers == {r \in AsyncRequests : pc[r] \in WorkerPcs}

\* Types of the variables.
TypeOK ==
  /\ activeScans \in Nat
  /\ queuedJobs \in Seq(AsyncRequests)
  /\ jobs \in [ScanIds -> Requests \cup {NoJob}]
  /\ status \in [Requests -> Statuses]
  /\ scanId \in [Requests -> ScanIds \cup {NoId}]
  /\ pc \in [Requests -> WorkerPcs \cup HandlerPcs \cup RestingPcs]
  /\ now \in Seconds
  /\ arrivals \in Seq(AsyncRequests)

\* activeScans counts exactly the jobs that have a worker goroutine, so that
\* no path through executeJob, its panic handler included, leaks a slot or
\* frees one twice; and there are never more than MaxConcurrentScans.
SlotsBackedByWorkers ==
  /\ activeScans = Cardinality(Workers)
  /\ activeScans <= maxConcurrent

\* A job waits only while every slot is taken: enqueueAsyncScan and
\* dispatchNextLocked together leave no job behind that could run.
WorkConserving == queuedJobs # <<>> => activeScans = maxConcurrent

\* queuedJobs holds each job with status "queued" exactly once and no other
\* job, so that none is started twice or forgotten, and stays in its bound.
QueueHoldsTheWaiting ==
  /\ IsInjective(queuedJobs)
  /\ Range(queuedJobs) = {r \in AsyncRequests : status[r] = "queued"}
  /\ Len(queuedJobs) <= maxQueue

\* The status a poll reads is the truth about the worker: "running" as long as
\* a goroutine works on the job, "queued" while none was started, and final
\* only once the goroutine of the job gave its slot away.
StatusFollowsWorker ==
  \A r \in AsyncRequests :
    /\ status[r] = "running" <=> pc[r] \in WorkerPcs
    /\ status[r] = "queued" <=> pc[r] = "parked"
    /\ status[r] \in Finished <=> pc[r] = "exited"

\* GetJob(id) returns a job whose ID is id, whatever suffix the collision
\* check of enqueueAsyncScan gave it and whoever replaced the entry.
KeysMatchIds == \A id \in Tracked : scanId[jobs[id]] = id

\* The job map stays bounded although nothing but the creation of a job ever
\* prunes it: live jobs are never deleted, but their number is limited.
JobMapBounded ==
  Cardinality(Tracked)
    <= 1 + (IF PruneHigh > maxConcurrent + maxQueue
            THEN PruneHigh ELSE maxConcurrent + maxQueue)

\* pruneJobsLocked never forgets a job that is queued or running: an ID
\* leaves the job map only once its job is finished.
OnlyFinishedForgotten == [][ForgetsOnlyFinished]_vars

\* A client is told 429 only when the service is saturated: every slot runs a
\* scan and the queue is at its bound.
RefusedOnlyWhenSaturated ==
  [][\A r \in Requests :
       pc[r] # "refused" /\ pc'[r] = "refused" =>
         /\ Cardinality(Workers) = maxConcurrent
         /\ Len(queuedJobs) = maxQueue]_vars

\* Every accepted job reaches a final status, though it may wait behind any
\* number of jobs that fail or panic.
AcceptedJobsFinish ==
  \A r \in AsyncRequests :
    status[r] \in {"queued", "running"} ~> status[r] \in Finished

\* The queue implements JobPool: jobs start in the order of their admission,
\* each once, as soon as a slot is free, and every admitted job ends.
Pool == INSTANCE JobPool WITH
  Jobs <- AsyncRequests,
  Slots <- maxConcurrent,
  Room <- maxQueue,
  line <- arrivals,
  started <- Len(arrivals) - Len(queuedJobs),
  ended <- {r \in AsyncRequests : status[r] \in Finished}

ImplementsPool == Pool!FairSpec

-----------------------------------------------------------------------------
(* What the repository says and the code does not do *)

\* server.go says of a ScanJob that it "tracks the execution state and results
\* for an asynchronous scan".  A live job can be replaced in the job map by a
\* finished synchronous scan with the same ID, or by a second collision.
LiveJobsTracked == \A r \in LiveJobs : jobs[scanId[r]] = r
=============================================================================
