----------------------------- MODULE ServerProofs -----------------------------
(***************************************************************************)
(* Proofs about the server: ScanQueue, for every number of requests, slots *)
(* and places in the queue, and then ScanService, for any requests,        *)
(* targets, limits, clock and suffixes, and any number of restarts of the  *)
(* daemon.                                                                 *)
(***************************************************************************)
EXTENDS ScanService, FiniteSetTheorems, SequenceTheorems, TLAPS

-----------------------------------------------------------------------------
(* The inductive invariant *)

\* The types of ScanQueue's variables, in ScanService too, where a request
\* may be lost with the process that served it.
QueueTypes ==
  /\ activeScans \in Nat
  /\ queuedJobs \in Seq(AsyncRequests)
  /\ jobs \in [ScanIds -> Requests \cup {NoJob}]
  /\ status \in [Requests -> Statuses]
  /\ scanId \in [Requests -> ScanIds \cup {NoId}]
  /\ pc \in [Requests -> WorkerPcs \cup HandlerPcs \cup RestingPcs \cup {Lost}]
  /\ now \in Seconds
  /\ arrivals \in Seq(AsyncRequests)

\* A handler's program counter belongs to its kind of request, and one that
\* is about to use its scan ID has it.
HandlersInv ==
  /\ \A r \in AsyncRequests : pc[r] \notin {"inline", "inlineDone", "replied"}
  /\ \A r \in SyncRequests :
       pc[r] \in {"idle", "inline", "inlineDone", "replied", Lost}
  /\ \A r \in Requests :
       pc[r] \in {"arrived", "inlineDone"} => scanId[r] \in ScanIds

\* The inductive invariant behind the slot accounting: each of its conjuncts
\* needs the others, e.g. the count of slots after a dispatch is right only
\* because the head of the queue has no worker yet.
QueueInv ==
  /\ QueueTypes
  /\ HandlersInv
  /\ StatusFollowsWorker
  /\ QueueHoldsTheWaiting
  /\ SlotsBackedByWorkers
  /\ WorkConserving

-----------------------------------------------------------------------------
(* Facts about the constants, sequences and sets *)

\* The effective limits are positive whatever the server is configured with.
LEMMA LimitsPositive ==
  /\ maxConcurrent \in Nat \ {0}
  /\ maxQueue \in Nat \ {0}
BY LimitsAssumption DEF maxConcurrent, maxQueue

\* Appending an element that an injective sequence lacks.
LEMMA AppendFresh ==
  ASSUME NEW S, NEW q \in Seq(S), NEW e \in S,
         IsInjective(q), e \notin Range(q)
  PROVE  /\ Append(q, e) \in Seq(S)
         /\ IsInjective(Append(q, e))
         /\ Range(Append(q, e)) = Range(q) \cup {e}
         /\ Len(Append(q, e)) = Len(q) + 1
<1> DEFINE a == Append(q, e)
<1>1. /\ a \in Seq(S)
      /\ Len(a) = Len(q) + 1
      /\ \A i \in 1 .. Len(q) : a[i] = q[i]
      /\ a[Len(q) + 1] = e
  BY AppendProperties
<1>2. DOMAIN q = 1 .. Len(q) /\ DOMAIN a = 1 .. Len(q) + 1 /\ Len(q) \in Nat
  BY <1>1, LenProperties
<1>3. \A i \in 1 .. Len(q) : q[i] # e
  BY <1>2 DEF Range
<1>4. IsInjective(a)
  BY <1>1, <1>2, <1>3 DEF IsInjective
<1>5. Range(a) = Range(q) \cup {e}
  BY <1>1, <1>2 DEF Range
<1> QED BY <1>1, <1>4, <1>5

\* Removing the head of an injective sequence removes it altogether.
LEMMA TailOfInjective ==
  ASSUME NEW S, NEW q \in Seq(S), q # <<>>, IsInjective(q)
  PROVE  /\ Tail(q) \in Seq(S)
         /\ IsInjective(Tail(q))
         /\ Head(q) \in Range(q)
         /\ Range(Tail(q)) = Range(q) \ {Head(q)}
         /\ Len(Tail(q)) = Len(q) - 1
         /\ Len(q) \in Nat \ {0}
<1> DEFINE t == Tail(q)
<1>1. /\ t \in Seq(S)
      /\ Len(t) = Len(q) - 1
      /\ \A i \in 1 .. Len(t) : t[i] = q[i + 1]
  BY HeadTailProperties
<1>2. /\ DOMAIN q = 1 .. Len(q)
      /\ DOMAIN t = 1 .. Len(q) - 1
      /\ Len(q) \in Nat \ {0}
      /\ Head(q) = q[1]
  BY <1>1, LenProperties, EmptySeq
<1>3. IsInjective(t)
  <2> SUFFICES ASSUME NEW i \in DOMAIN t, NEW k \in DOMAIN t, t[i] = t[k]
               PROVE  i = k
    BY DEF IsInjective
  <2>1. q[i + 1] = q[k + 1] /\ i + 1 \in DOMAIN q /\ k + 1 \in DOMAIN q
    BY <1>1, <1>2
  <2>2. i + 1 = k + 1
    BY <2>1 DEF IsInjective
  <2> QED BY <2>2, <1>2
<1>4. Range(t) \subseteq Range(q) \ {Head(q)}
  <2> SUFFICES ASSUME NEW i \in DOMAIN t
               PROVE  t[i] \in Range(q) \ {Head(q)}
    BY DEF Range
  <2>1. t[i] = q[i + 1] /\ i + 1 \in DOMAIN q /\ i + 1 # 1 /\ 1 \in DOMAIN q
    BY <1>1, <1>2
  <2> QED BY <2>1, <1>2 DEF Range, IsInjective
<1>5. Range(q) \ {Head(q)} \subseteq Range(t)
  <2> SUFFICES ASSUME NEW i \in DOMAIN q, q[i] # q[1]
               PROVE  q[i] \in Range(t)
    BY <1>2 DEF Range
  <2>1. i - 1 \in DOMAIN t /\ t[i - 1] = q[i]
    BY <1>1, <1>2
  <2> QED BY <2>1 DEF Range
<1>6. Head(q) \in Range(q)
  BY <1>2 DEF Range
<1> QED BY <1>1, <1>2, <1>3, <1>4, <1>5, <1>6

\* The workers are finitely many, and one more or one less worker changes
\* their number by one.
LEMMA WorkersFinite ==
  /\ IsFiniteSet(Workers)
  /\ Cardinality(Workers) \in Nat
<1>1. Workers \in SUBSET AsyncRequests
  BY DEF Workers
<1> QED BY <1>1, RequestsAssumption, FS_Subset, FS_CardinalityType

-----------------------------------------------------------------------------
(* The invariant holds initially and every action preserves it *)

\* An idle server is in the invariant.
LEMMA InitQueueInv == Init => QueueInv
<1> SUFFICES ASSUME Init PROVE QueueInv
  OBVIOUS
<1>1. QueueTypes
  BY ScanIdsAssumption, EmptySeq
     DEF Init, QueueTypes, Seconds, Requests, Statuses, HandlerPcs
<1>2. Workers = {}
  BY DEF Init, Workers, WorkerPcs, Spawned, Scanning, ScanOver, Requests
<1>3. SlotsBackedByWorkers
  BY <1>2, FS_EmptySet, LimitsPositive DEF Init, SlotsBackedByWorkers
<1>4. QueueHoldsTheWaiting
  <2>1. IsInjective(queuedJobs) /\ Range(queuedJobs) = {}
    BY DEF Init, IsInjective, Range
  <2>2. Len(queuedJobs) = 0
    BY EmptySeq DEF Init
  <2> QED BY <2>1, <2>2, LimitsPositive
          DEF Init, QueueHoldsTheWaiting, Requests
<1>5. HandlersInv /\ StatusFollowsWorker /\ WorkConserving
  BY DEF Init, HandlersInv, StatusFollowsWorker, WorkConserving, Requests,
         WorkerPcs, Spawned, Scanning, ScanOver, Finished
<1> QED BY <1>1, <1>3, <1>4, <1>5 DEF QueueInv

\* A step of one handler outside the pool: neither the queue nor the slots nor
\* a worker changes, and no status but that of a synchronous request.
LEMMA HandlerStepQueueInv ==
  ASSUME QueueInv, QueueTypes', HandlersInv',
         UNCHANGED <<activeScans, queuedJobs>>,
         \A r \in AsyncRequests :
           /\ status'[r] = status[r]
           /\ pc'[r] # pc[r] => pc[r] \in HandlerPcs /\ pc'[r] \in {"arrived", "refused"}
  PROVE  QueueInv'
<1>1. Workers' = Workers
  BY DEF Workers, WorkerPcs, Spawned, Scanning, ScanOver, HandlerPcs
<1>2. SlotsBackedByWorkers' /\ WorkConserving'
  BY <1>1 DEF QueueInv, SlotsBackedByWorkers, WorkConserving
<1>3. QueueHoldsTheWaiting'
  BY DEF QueueInv, QueueHoldsTheWaiting
<1>4. StatusFollowsWorker'
  BY DEF QueueInv, StatusFollowsWorker, WorkerPcs, Spawned, Scanning, ScanOver,
         HandlerPcs
<1> QED BY <1>2, <1>3, <1>4 DEF QueueInv

\* A request that is accepted starts or joins the queue.
LEMMA EnqueueQueueInv ==
  ASSUME QueueInv, NEW r \in Requests, Enqueue(r)
  PROVE  QueueInv'
<1>1. r \in AsyncRequests
  BY DEF Enqueue, QueueInv, HandlersInv, Lost, Requests
<1>2. PICK id \in FreshIds(r), D \in PruneChoices :
        /\ scanId' = [scanId EXCEPT ![r] = id]
        /\ jobs' = Stored(D, id, r)
  BY DEF Enqueue
<1>3. id \in ScanIds
  BY DEF Enqueue, QueueInv, HandlersInv, FreshIds, ScanIds
<1>4. /\ pc[r] = "arrived"
      /\ status[r] \notin {"queued", "running"} \cup Finished
      /\ r \notin Range(queuedJobs)
      /\ r \notin Workers
  BY <1>1 DEF Enqueue, QueueInv, StatusFollowsWorker, QueueHoldsTheWaiting, Workers,
              WorkerPcs, Spawned, Scanning, ScanOver
<1>5. arrivals' \in Seq(AsyncRequests) /\ now' \in Seconds
  BY <1>1, AppendProperties DEF Enqueue, QueueInv, QueueTypes
<1>6. /\ jobs' \in [ScanIds -> Requests \cup {NoJob}]
      /\ scanId' \in [Requests -> ScanIds \cup {NoId}]
  BY <1>2, <1>3 DEF QueueInv, QueueTypes, Stored
<1>7. CASE /\ activeScans < maxConcurrent
           /\ activeScans' = activeScans + 1
           /\ status' = [status EXCEPT ![r] = "running"]
           /\ pc' = [pc EXCEPT ![r] = Spawned]
           /\ UNCHANGED queuedJobs
  <2>1. QueueTypes'
    BY <1>5, <1>6, <1>7
       DEF QueueInv, QueueTypes, Statuses, WorkerPcs, HandlerPcs, RestingPcs
  <2>2. HandlersInv'
    BY <1>1, <1>2, <1>3, <1>7, RequestsAssumption
       DEF QueueInv, QueueTypes, HandlersInv, Spawned, Requests
  <2>3. StatusFollowsWorker'
    BY <1>1, <1>7 DEF QueueInv, QueueTypes, StatusFollowsWorker, WorkerPcs, Spawned,
       Scanning, ScanOver, Finished, Requests
  <2>4. QueueHoldsTheWaiting'
    BY <1>1, <1>4, <1>7 DEF QueueInv, QueueTypes, QueueHoldsTheWaiting, Requests
  <2>5. Workers' = Workers \cup {r}
    BY <1>1, <1>7 DEF QueueInv, QueueTypes, Workers, WorkerPcs, Requests
  <2>6. Cardinality(Workers') = Cardinality(Workers) + 1
    BY <2>5, <1>4, WorkersFinite, FS_AddElement
  <2>7. SlotsBackedByWorkers'
    BY <2>6, <1>7, LimitsPositive DEF QueueInv, QueueTypes, SlotsBackedByWorkers
  <2>8. WorkConserving'
    BY <1>7, LimitsPositive DEF QueueInv, QueueTypes, WorkConserving
  <2> QED BY <2>1, <2>2, <2>3, <2>4, <2>7, <2>8 DEF QueueInv
<1>8. CASE /\ activeScans >= maxConcurrent
           /\ queuedJobs' = Append(queuedJobs, r)
           /\ status' = [status EXCEPT ![r] = "queued"]
           /\ pc' = [pc EXCEPT ![r] = "parked"]
           /\ UNCHANGED activeScans
  <2>1. /\ queuedJobs' \in Seq(AsyncRequests)
        /\ IsInjective(queuedJobs')
        /\ Range(queuedJobs') = Range(queuedJobs) \cup {r}
        /\ Len(queuedJobs') = Len(queuedJobs) + 1
    BY <1>1, <1>4, <1>8, AppendFresh DEF QueueInv, QueueTypes, QueueHoldsTheWaiting
  <2>2. QueueTypes'
    BY <1>5, <1>6, <1>8, <2>1
       DEF QueueInv, QueueTypes, Statuses, WorkerPcs, HandlerPcs, RestingPcs
  <2>3. HandlersInv'
    BY <1>1, <1>2, <1>3, <1>8, RequestsAssumption
       DEF QueueInv, QueueTypes, HandlersInv, Requests
  <2>4. StatusFollowsWorker'
    BY <1>1, <1>8 DEF QueueInv, QueueTypes, StatusFollowsWorker, WorkerPcs, Spawned,
       Scanning, ScanOver, Finished, Requests
  <2>5. QueueHoldsTheWaiting'
    <3>1. {q \in AsyncRequests : status'[q] = "queued"}
            = {q \in AsyncRequests : status[q] = "queued"} \cup {r}
      BY <1>1, <1>8 DEF QueueInv, QueueTypes, Requests
    <3>2. Len(queuedJobs) + 1 <= maxQueue
      <4>1. Len(queuedJobs) \in Nat /\ Len(queuedJobs) < maxQueue
        BY LenProperties DEF Enqueue, QueueInv, QueueTypes
      <4> QED BY <4>1, LimitsPositive
    <3> QED BY <2>1, <3>1, <3>2 DEF QueueInv, QueueHoldsTheWaiting
  <2>6. Workers' = Workers
    BY <1>1, <1>4, <1>8 DEF QueueInv, QueueTypes, Workers, WorkerPcs, Spawned, Scanning,
       ScanOver, Requests
  <2>7. SlotsBackedByWorkers' /\ WorkConserving'
    BY <2>6, <1>8, LimitsPositive
       DEF QueueInv, QueueTypes, SlotsBackedByWorkers, WorkConserving
  <2> QED BY <2>2, <2>3, <2>4, <2>5, <2>7 DEF QueueInv
<1> QED BY <1>7, <1>8 DEF Enqueue

\* The slot of a finished job goes to the head of the queue or is given back.
LEMMA DispatchQueueInv ==
  ASSUME QueueInv, NEW r \in Requests, pc[r] \in ScanOver,
         NEW end \in Finished, DispatchNext(r, end),
         UNCHANGED <<jobs, scanId, now, arrivals>>
  PROVE  QueueInv'
<1>1. r \in AsyncRequests
  BY DEF QueueInv, HandlersInv, Lost, ScanOver, Requests
<1>2. r \in Workers /\ status[r] = "running" /\ r \notin Range(queuedJobs)
  BY <1>1 DEF QueueInv, StatusFollowsWorker, QueueHoldsTheWaiting, Workers,
              WorkerPcs, Finished
<1>3. /\ jobs' \in [ScanIds -> Requests \cup {NoJob}]
      /\ scanId' \in [Requests -> ScanIds \cup {NoId}]
      /\ now' \in Seconds
      /\ arrivals' \in Seq(AsyncRequests)
  BY DEF QueueInv, QueueTypes
<1>4. activeScans \in Nat \ {0} /\ activeScans <= maxConcurrent
  BY <1>2, WorkersFinite, FS_EmptySet DEF QueueInv, SlotsBackedByWorkers
<1>5. CASE queuedJobs # <<>>
  <2> DEFINE next == Head(queuedJobs)
  <2>1. /\ queuedJobs' = Tail(queuedJobs)
        /\ status' = [status EXCEPT ![r] = end, ![next] = "running"]
        /\ pc' = [pc EXCEPT ![r] = "exited", ![next] = Spawned]
        /\ UNCHANGED activeScans
    BY <1>5 DEF DispatchNext
  <2>2. /\ Tail(queuedJobs) \in Seq(AsyncRequests)
        /\ IsInjective(Tail(queuedJobs))
        /\ next \in Range(queuedJobs)
        /\ Range(Tail(queuedJobs)) = Range(queuedJobs) \ {next}
        /\ Len(Tail(queuedJobs)) = Len(queuedJobs) - 1
        /\ Len(queuedJobs) \in Nat \ {0}
    BY <1>5, TailOfInjective DEF QueueInv, QueueTypes, QueueHoldsTheWaiting
  <2>3. /\ next \in AsyncRequests
        /\ next # r
        /\ status[next] = "queued"
        /\ pc[next] = "parked"
    BY <1>2, <2>2 DEF QueueInv, QueueHoldsTheWaiting, StatusFollowsWorker
  <2> HIDE DEF next
  <2>4. QueueTypes'
    BY <1>1, <1>3, <2>1, <2>2, <2>3
       DEF QueueInv, QueueTypes, Statuses, WorkerPcs, RestingPcs, Requests
  <2>5. HandlersInv'
    BY <1>1, <2>1, <2>3, RequestsAssumption
       DEF QueueInv, QueueTypes, HandlersInv, Spawned, Requests
  <2>6. StatusFollowsWorker'
    BY <1>1, <2>1, <2>3
       DEF QueueInv, QueueTypes, StatusFollowsWorker, WorkerPcs, Spawned, Scanning,
           ScanOver, Finished, Requests
  <2>7. QueueHoldsTheWaiting'
    <3>1. {q \in AsyncRequests : status'[q] = "queued"}
            = {q \in AsyncRequests : status[q] = "queued"} \ {next}
      BY <1>1, <1>2, <2>1, <2>3 DEF QueueInv, QueueTypes, Finished, Requests
    <3>2. Len(queuedJobs) <= maxQueue
      BY DEF QueueInv, QueueHoldsTheWaiting
    <3>3. Len(queuedJobs') <= maxQueue
      BY <2>1, <2>2, <3>2, LimitsPositive
    <3>4. IsInjective(queuedJobs') /\ Range(queuedJobs') = Range(queuedJobs) \ {next}
      BY <2>1, <2>2
    <3> QED BY <3>1, <3>3, <3>4 DEF QueueInv, QueueHoldsTheWaiting
  <2>8. Workers' = (Workers \ {r}) \cup {next}
    BY <1>1, <2>1, <2>3 DEF QueueInv, QueueTypes, Workers, WorkerPcs, Spawned, Scanning,
       ScanOver, Requests
  <2>9. next \notin Workers
    BY <2>3 DEF Workers, WorkerPcs, Spawned, Scanning, ScanOver
  <2>10. Cardinality(Workers') = Cardinality(Workers)
    <3>1. /\ IsFiniteSet(Workers \ {r})
          /\ Cardinality(Workers \ {r}) = Cardinality(Workers) - 1
      BY <1>2, WorkersFinite, FS_RemoveElement
    <3>2. Cardinality((Workers \ {r}) \cup {next})
            = Cardinality(Workers \ {r}) + 1
      BY <2>9, <3>1, FS_AddElement
    <3> QED BY <2>8, <3>1, <3>2, WorkersFinite
  <2>11. SlotsBackedByWorkers' /\ WorkConserving'
    BY <1>5, <2>1, <2>10 DEF QueueInv, SlotsBackedByWorkers, WorkConserving
  <2> QED BY <2>4, <2>5, <2>6, <2>7, <2>11 DEF QueueInv
<1>6. CASE queuedJobs = <<>>
  <2>1. /\ activeScans' = activeScans - 1
        /\ status' = [status EXCEPT ![r] = end]
        /\ pc' = [pc EXCEPT ![r] = "exited"]
        /\ UNCHANGED queuedJobs
    BY <1>6 DEF DispatchNext
  <2>2. QueueTypes'
    BY <1>3, <1>4, <2>1 DEF QueueInv, QueueTypes, Statuses, RestingPcs
  <2>3. HandlersInv'
    BY <1>1, <2>1, RequestsAssumption DEF QueueInv, QueueTypes, HandlersInv, Requests
  <2>4. StatusFollowsWorker'
    BY <1>1, <2>1 DEF QueueInv, QueueTypes, StatusFollowsWorker, WorkerPcs, Spawned,
       Scanning, ScanOver, Finished, Requests
  <2>5. QueueHoldsTheWaiting'
    <3>1. {q \in AsyncRequests : status'[q] = "queued"}
            = {q \in AsyncRequests : status[q] = "queued"}
      BY <1>1, <1>2, <2>1 DEF QueueInv, QueueTypes, Finished, Requests
    <3> QED BY <2>1, <3>1 DEF QueueInv, QueueHoldsTheWaiting
  <2>6. Workers' = Workers \ {r}
    BY <1>1, <2>1 DEF QueueInv, QueueTypes, Workers, WorkerPcs, Spawned, Scanning,
       ScanOver, Requests
  <2>7. Cardinality(Workers') = Cardinality(Workers) - 1
    BY <1>2, <2>6, WorkersFinite, FS_RemoveElement
  <2>8. SlotsBackedByWorkers' /\ WorkConserving'
    BY <1>4, <1>6, <2>1, <2>7, LimitsPositive
       DEF QueueInv, SlotsBackedByWorkers, WorkConserving
  <2> QED BY <2>2, <2>3, <2>4, <2>5, <2>8 DEF QueueInv
<1> QED BY <1>5, <1>6

\* A worker moves on with its scan and keeps its slot.
LEMMA WorkerMovesQueueInv ==
  ASSUME QueueInv, NEW r \in Requests, NEW at \in WorkerPcs,
         pc[r] \in WorkerPcs, pc' = [pc EXCEPT ![r] = at],
         UNCHANGED <<serverVars, status, scanId, now, arrivals>>
  PROVE  QueueInv'
<1>1. r \in AsyncRequests
  BY DEF QueueInv, HandlersInv, Lost, WorkerPcs, Spawned, Scanning, ScanOver, Requests
<1>2. Workers' = Workers
  BY <1>1 DEF QueueInv, QueueTypes, Workers, Requests
<1>3. QueueTypes'
  BY DEF QueueInv, QueueTypes, serverVars
<1>4. HandlersInv'
  BY <1>1, RequestsAssumption DEF QueueInv, QueueTypes, HandlersInv, WorkerPcs, Spawned,
     Scanning, ScanOver, Requests
<1>5. StatusFollowsWorker'
  BY <1>1 DEF QueueInv, QueueTypes, StatusFollowsWorker, WorkerPcs, Spawned, Scanning,
     ScanOver, Requests
<1>6. QueueHoldsTheWaiting' /\ SlotsBackedByWorkers' /\ WorkConserving'
  BY <1>2 DEF QueueInv, QueueHoldsTheWaiting, SlotsBackedByWorkers, WorkConserving,
     serverVars
<1> QED BY <1>3, <1>4, <1>5, <1>6 DEF QueueInv

\* Each step keeps the invariant.
LEMMA NextQueueInv == QueueInv /\ [Next]_vars => QueueInv'
<1> SUFFICES ASSUME QueueInv, [Next]_vars PROVE QueueInv'
  OBVIOUS
<1>1. CASE UNCHANGED vars
  <2>1. Workers' = Workers
    BY <1>1 DEF vars, Workers
  <2> QED BY <1>1, <2>1
      DEF vars, QueueInv, QueueTypes, HandlersInv, StatusFollowsWorker,
          QueueHoldsTheWaiting, SlotsBackedByWorkers, WorkConserving
<1>2. CASE Tick
  <2>1. QueueTypes' /\ HandlersInv'
    BY <1>2, ScanIdsAssumption
       DEF Tick, QueueInv, QueueTypes, HandlersInv, serverVars, Seconds
  <2> QED BY <1>2, <2>1, HandlerStepQueueInv DEF Tick, serverVars
<1>3. ASSUME NEW r \in Requests, ReceiveAsync(r) PROVE QueueInv'
  <2>1. <<now, NoSuffix>> \in ScanIds
    BY DEF QueueInv, QueueTypes, ScanIds
  <2>2. QueueTypes'
    BY <1>3, <2>1 DEF ReceiveAsync, QueueInv, QueueTypes, serverVars, HandlerPcs
  <2>3. HandlersInv'
    BY <1>3, <2>1, RequestsAssumption
       DEF ReceiveAsync, QueueInv, QueueTypes, HandlersInv, Requests
  <2> QED BY <1>3, <2>2, <2>3, HandlerStepQueueInv
          DEF ReceiveAsync, serverVars, HandlerPcs, QueueInv, QueueTypes, Requests
<1>4. ASSUME NEW r \in Requests, Refuse(r) PROVE QueueInv'
  <2>1. r \in AsyncRequests
    BY <1>4 DEF Refuse, QueueInv, HandlersInv, Lost, Requests
  <2>2. QueueTypes'
    BY <1>4 DEF Refuse, QueueInv, QueueTypes, serverVars, RestingPcs
  <2>3. HandlersInv'
    BY <1>4, <2>1, RequestsAssumption
       DEF Refuse, QueueInv, QueueTypes, HandlersInv, Requests
  <2> QED BY <1>4, <2>2, <2>3, HandlerStepQueueInv
          DEF Refuse, serverVars, HandlerPcs, QueueInv, QueueTypes, Requests
<1>5. ASSUME NEW r \in Requests, Enqueue(r) PROVE QueueInv'
  BY <1>5, EnqueueQueueInv
<1>6. ASSUME NEW r \in Requests, BeginScan(r) PROVE QueueInv'
  BY <1>6, WorkerMovesQueueInv DEF BeginScan, WorkerPcs
<1>7. ASSUME NEW r \in Requests, ScanReturns(r) PROVE QueueInv'
  BY <1>7, WorkerMovesQueueInv DEF ScanReturns, WorkerPcs
<1>8. ASSUME NEW r \in Requests, FinishJob(r) PROVE QueueInv'
  BY <1>8, DispatchQueueInv DEF FinishJob, ScanOver, Finished
<1>9. ASSUME NEW r \in Requests, RecoverJob(r) PROVE QueueInv'
  BY <1>9, DispatchQueueInv DEF RecoverJob, ScanOver, Finished
<1>10. ASSUME NEW r \in Requests, SyncHandler(r) PROVE QueueInv'
  <2>1. r \in SyncRequests
    BY <1>10 DEF SyncHandler, ReceiveSync, SyncScanReturns, SyncScanFails,
                 RecordSync, QueueInv, HandlersInv, Requests
  <2>2. <<now, NoSuffix>> \in ScanIds
    BY DEF QueueInv, QueueTypes, ScanIds
  <2>3. QueueTypes'
    <3>1. CASE ReceiveSync(r) \/ SyncScanFails(r)
      BY <3>1 DEF ReceiveSync, SyncScanFails, QueueInv, QueueTypes, serverVars,
                  HandlerPcs, RestingPcs
    <3>2. CASE SyncScanReturns(r)
      BY <3>2, <2>2 DEF SyncScanReturns, QueueInv, QueueTypes, serverVars, HandlerPcs
    <3>3. CASE RecordSync(r)
      <4>1. jobs' \in [ScanIds -> Requests \cup {NoJob}]
        BY <3>3 DEF RecordSync, Stored, QueueInv, QueueTypes
      <4> QED BY <3>3, <4>1
              DEF RecordSync, QueueInv, QueueTypes, RestingPcs, Statuses, Finished
    <3> QED BY <1>10, <3>1, <3>2, <3>3 DEF SyncHandler
  <2>4. HandlersInv'
    BY <1>10, <2>1, <2>2, RequestsAssumption
       DEF SyncHandler, ReceiveSync, SyncScanReturns, SyncScanFails, RecordSync,
           QueueInv, QueueTypes, HandlersInv, Requests
  <2>5. \A q \in AsyncRequests : status'[q] = status[q] /\ pc'[q] = pc[q]
    BY <1>10, <2>1, RequestsAssumption
       DEF SyncHandler, ReceiveSync, SyncScanReturns, SyncScanFails, RecordSync,
           QueueInv, QueueTypes, Requests
  <2>6. UNCHANGED <<activeScans, queuedJobs>>
    BY <1>10 DEF SyncHandler, ReceiveSync, SyncScanReturns, SyncScanFails,
                 RecordSync, serverVars
  <2> QED BY <2>3, <2>4, <2>5, <2>6, HandlerStepQueueInv
<1>11. CASE AllOver
  BY <1>1, <1>11 DEF AllOver
<1> QED
  BY <1>1, <1>2, <1>3, <1>4, <1>5, <1>6, <1>7, <1>8, <1>9, <1>10, <1>11
     DEF Next, AsyncHandler, Worker

-----------------------------------------------------------------------------
(* Theorems about single states *)

\* The invariant holds throughout.
LEMMA SpecQueueInv == Spec => []QueueInv
BY InitQueueInv, NextQueueInv, PTL DEF Spec

\* No step of the queue loses a request.
LEMMA StepLosesNone ==
  ASSUME QueueInv, [Next]_vars, \A r \in Requests : pc[r] # Lost
  PROVE  \A r \in Requests : pc'[r] # Lost
<1> USE DEF Lost
<1>1. ASSUME NEW r \in Requests, FinishJob(r) \/ RecoverJob(r)
      PROVE  \A q \in Requests : pc'[q] # Lost
  <2>1. PICK end : DispatchNext(r, end)
    BY <1>1 DEF FinishJob, RecoverJob
  <2>2. CASE queuedJobs # <<>>
    <3>1. pc' = [pc EXCEPT ![r] = "exited", ![Head(queuedJobs)] = Spawned]
      BY <2>1, <2>2 DEF DispatchNext
    <3> QED BY <3>1 DEF Spawned, QueueInv, QueueTypes
  <2>3. CASE queuedJobs = <<>>
    BY <2>1, <2>3 DEF DispatchNext, QueueInv, QueueTypes
  <2> QED BY <2>2, <2>3
<1>2. ASSUME NEW r \in Requests,
             AsyncHandler(r) \/ SyncHandler(r) \/ BeginScan(r) \/ ScanReturns(r)
      PROVE  \A q \in Requests : pc'[q] # Lost
  BY <1>2 DEF AsyncHandler, ReceiveAsync, Refuse, Enqueue, SyncHandler, ReceiveSync,
              SyncScanReturns, SyncScanFails, RecordSync, BeginScan, ScanReturns,
              Spawned, Scanning, ScanOver, QueueInv, QueueTypes
<1>3. pc' = pc => \A q \in Requests : pc'[q] # Lost
  OBVIOUS
<1> QED BY <1>1, <1>2, <1>3 DEF Next, Tick, AllOver, Worker, vars

\* The variables keep their types.
THEOREM ScanQueueTyped == Spec => []TypeOK
<1> DEFINE NoneLost == \A r \in Requests : pc[r] # Lost
<1>1. Init => NoneLost
  BY DEF Init, Lost
<1>2. QueueInv /\ NoneLost /\ [Next]_vars => NoneLost'
  BY StepLosesNone
<1>3. QueueInv /\ NoneLost => TypeOK
  BY DEF QueueInv, QueueTypes, TypeOK
<1> HIDE DEF NoneLost
<1> QED BY <1>1, <1>2, <1>3, SpecQueueInv, PTL DEF Spec

\* No path through enqueueAsyncScan, executeJob, its panic handler and
\* dispatchNextLocked leaks a slot or frees one twice, and asynchronous scans
\* stay within MaxConcurrentScans.
THEOREM SlotsNeverLeak == Spec => []SlotsBackedByWorkers
<1>1. QueueInv => SlotsBackedByWorkers
  BY DEF QueueInv
<1> QED BY <1>1, SpecQueueInv, PTL

\* No job waits while a slot is free.
THEOREM NeverIdleWithWork == Spec => []WorkConserving
<1>1. QueueInv => WorkConserving
  BY DEF QueueInv
<1> QED BY <1>1, SpecQueueInv, PTL

\* The queue holds each waiting job once, nothing else, and stays bounded.
THEOREM QueueExact == Spec => []QueueHoldsTheWaiting
<1>1. QueueInv => QueueHoldsTheWaiting
  BY DEF QueueInv
<1> QED BY <1>1, SpecQueueInv, PTL

\* The status a poll reads agrees with what the worker goroutine does.
THEOREM StatusTruthful == Spec => []StatusFollowsWorker
<1>1. QueueInv => StatusFollowsWorker
  BY DEF QueueInv
<1> QED BY <1>1, SpecQueueInv, PTL

-----------------------------------------------------------------------------
(* Theorems about steps *)

\* The job map changes only when a job is created, and then an entry leaves
\* it only by the pruning of a finished job.
THEOREM LiveJobsNeverPruned == Spec => OnlyFinishedForgotten
<1>1. ASSUME QueueTypes, [Next]_vars, NEW i \in Tracked, jobs'[i] = NoJob
      PROVE  status[jobs[i]] \in Finished
  <2>1. i \in ScanIds /\ jobs[i] # NoJob
    BY DEF Tracked
  <2>2. PICK r \in Requests, D \in PruneChoices :
          \E id : jobs' = Stored(D, id, r)
    <3>1. jobs' # jobs
      BY <1>1, <2>1
    <3>2. PICK r \in Requests : Enqueue(r) \/ RecordSync(r)
      BY <1>1, <3>1
         DEF Next, vars, Tick, AsyncHandler, SyncHandler, Worker, AllOver,
             ReceiveAsync, Refuse, BeginScan, ScanReturns, FinishJob, RecoverJob,
             ReceiveSync, SyncScanReturns, SyncScanFails, serverVars
    <3> QED BY <3>2 DEF Enqueue, RecordSync
  <2>3. i \in D
    BY <1>1, <2>1, <2>2, RequestsAssumption DEF Stored
  <2>4. D \subseteq FinishedIds
    BY DEF PruneChoices
  <2> QED BY <2>3, <2>4 DEF FinishedIds
<1>2. QueueTypes /\ [Next]_vars => [ForgetsOnlyFinished]_vars
  BY <1>1 DEF ForgetsOnlyFinished
<1>3. QueueInv => QueueTypes
  BY DEF QueueInv
<1> QED BY <1>2, <1>3, SpecQueueInv, PTL DEF Spec, OnlyFinishedForgotten

\* A request that a step refuses finds every slot and the queue full.
LEMMA RefusedStep ==
  ASSUME QueueInv, [Next]_vars, NEW r \in Requests,
         pc[r] # "refused", pc'[r] = "refused"
  PROVE  /\ Cardinality(Workers) = maxConcurrent
         /\ Len(queuedJobs) = maxQueue
<1>1. Refuse(r)
  <2>1. ASSUME NEW q \in Requests,
               ReceiveAsync(q) \/ Enqueue(q) \/ BeginScan(q) \/ ScanReturns(q)
                 \/ ReceiveSync(q) \/ SyncScanReturns(q) \/ SyncScanFails(q)
                 \/ RecordSync(q)
        PROVE  FALSE
    BY <2>1
       DEF ReceiveAsync, Enqueue, BeginScan, ScanReturns, ReceiveSync,
           SyncScanReturns, SyncScanFails, RecordSync, Spawned, Scanning,
           ScanOver, QueueInv, QueueTypes
  <2>2. ASSUME NEW q \in Requests, FinishJob(q) \/ RecoverJob(q)
        PROVE  FALSE
    <3>1. PICK end : DispatchNext(q, end)
      BY <2>2 DEF FinishJob, RecoverJob
    <3>2. CASE queuedJobs # <<>>
      <4>1. pc' = [pc EXCEPT ![q] = "exited", ![Head(queuedJobs)] = Spawned]
        BY <3>1, <3>2 DEF DispatchNext
      <4> QED BY <4>1 DEF Spawned, QueueInv, QueueTypes
    <3>3. CASE queuedJobs = <<>>
      BY <3>1, <3>3 DEF DispatchNext, QueueInv, QueueTypes
    <3> QED BY <3>2, <3>3
  <2>3. pc' # pc
    OBVIOUS
  <2>4. PICK q \in Requests : Refuse(q)
    BY <2>1, <2>2, <2>3
       DEF Next, vars, Tick, AllOver, AsyncHandler, SyncHandler, Worker
  <2> QED BY <2>4 DEF Refuse, QueueInv, QueueTypes
<1>2. Len(queuedJobs) \in Nat
  BY LenProperties DEF QueueInv, QueueTypes
<1>3. Len(queuedJobs) = maxQueue
  BY <1>1, <1>2, LimitsPositive DEF Refuse, QueueInv, QueueHoldsTheWaiting
<1>4. queuedJobs # <<>>
  BY <1>3, EmptySeq, LimitsPositive
<1> QED BY <1>3, <1>4 DEF QueueInv, WorkConserving, SlotsBackedByWorkers

\* A request is refused only when every slot runs a scan and the queue is full.
THEOREM RefusalJustified == Spec => RefusedOnlyWhenSaturated
<1>1. QueueInv /\ [Next]_vars
        => [\A r \in Requests :
              pc[r] # "refused" /\ pc'[r] = "refused" =>
                /\ Cardinality(Workers) = maxConcurrent
                /\ Len(queuedJobs) = maxQueue]_vars
  BY RefusedStep
<1> QED BY <1>1, SpecQueueInv, PTL DEF Spec, RefusedOnlyWhenSaturated

-----------------------------------------------------------------------------
(* The queue implements JobPool *)

\* The waiting jobs are the end of the line of accepted jobs.
ArrivalsInv ==
  /\ IsInjective(arrivals)
  /\ Range(arrivals) = {r \in AsyncRequests : status[r] # "none"}
  /\ Len(queuedJobs) <= Len(arrivals)
  /\ \A i \in 1 .. Len(queuedJobs) :
       queuedJobs[i] = arrivals[Len(arrivals) - Len(queuedJobs) + i]

\* Lengths and domains of the two sequences of jobs.
LEMMA LengthsAreNat ==
  ASSUME QueueTypes
  PROVE  /\ Len(queuedJobs) \in Nat
         /\ Len(arrivals) \in Nat
         /\ DOMAIN queuedJobs = 1 .. Len(queuedJobs)
         /\ DOMAIN arrivals = 1 .. Len(arrivals)
BY LenProperties DEF QueueTypes

\* What a job that arrives and one that is dispatched do to the line, the
\* queue and the statuses; every other step leaves all three alone, as far as
\* asynchronous requests are concerned.
LEMMA QueueStepKinds ==
  ASSUME QueueInv, [Next]_vars
  PROVE  \/ \E r \in AsyncRequests : Enqueue(r)
         \/ \E r \in AsyncRequests, end \in Finished :
              r \in Workers /\ DispatchNext(r, end) /\ UNCHANGED arrivals
         \/ /\ UNCHANGED <<queuedJobs, arrivals>>
            /\ \A r \in AsyncRequests : status'[r] = status[r]
<1>1. ASSUME NEW r \in Requests, Enqueue(r)
      PROVE  r \in AsyncRequests
  BY <1>1 DEF Enqueue, QueueInv, HandlersInv, Lost, Requests
<1>2. ASSUME NEW r \in Requests, FinishJob(r) \/ RecoverJob(r)
      PROVE  \E end \in Finished :
               /\ r \in AsyncRequests /\ r \in Workers
               /\ DispatchNext(r, end) /\ UNCHANGED arrivals
  <2>1. pc[r] \in ScanOver
    BY <1>2 DEF FinishJob, RecoverJob, ScanOver
  <2>2. r \in AsyncRequests /\ r \in Workers
    BY <2>1 DEF QueueInv, HandlersInv, Lost, Requests, Workers, WorkerPcs, ScanOver
  <2> QED BY <1>2, <2>2 DEF FinishJob, RecoverJob, Finished
<1>3. ASSUME NEW r \in Requests, SyncHandler(r)
      PROVE  /\ UNCHANGED <<queuedJobs, arrivals>>
             /\ \A q \in AsyncRequests : status'[q] = status[q]
  <2>1. r \in SyncRequests
    BY <1>3 DEF SyncHandler, ReceiveSync, SyncScanReturns, SyncScanFails,
                RecordSync, QueueInv, HandlersInv, Requests
  <2> QED BY <1>3, <2>1, RequestsAssumption
          DEF SyncHandler, ReceiveSync, SyncScanReturns, SyncScanFails,
              RecordSync, serverVars, QueueInv, QueueTypes, Requests
<1>4. ASSUME NEW r \in Requests,
             ReceiveAsync(r) \/ Refuse(r) \/ BeginScan(r) \/ ScanReturns(r)
      PROVE  UNCHANGED <<queuedJobs, arrivals, status>>
  BY <1>4 DEF ReceiveAsync, Refuse, BeginScan, ScanReturns, serverVars
<1>5. Tick \/ AllOver \/ UNCHANGED vars
        => UNCHANGED <<queuedJobs, arrivals, status>>
  BY DEF Tick, AllOver, vars, serverVars
<1> QED BY <1>1, <1>2, <1>3, <1>4, <1>5 DEF Next, AsyncHandler, Worker

\* A job that is enqueued has no status yet.
LEMMA EnqueuedIsNew ==
  ASSUME QueueInv, NEW r \in AsyncRequests, Enqueue(r)
  PROVE  status[r] = "none"
BY DEF Enqueue, QueueInv, QueueTypes, StatusFollowsWorker, Requests, Statuses, WorkerPcs,
       Spawned, Scanning, ScanOver, Finished

\* What Enqueue does to the queue and to the statuses.
LEMMA EnqueueEffect ==
  ASSUME QueueInv, NEW r \in AsyncRequests, Enqueue(r)
  PROVE  /\ arrivals' = Append(arrivals, r)
         /\ status' = [status EXCEPT ![r] = status'[r]]
         /\ status'[r] \in {"running", "queued"}
         /\ \/ activeScans < maxConcurrent /\ queuedJobs' = queuedJobs
            \/ /\ activeScans >= maxConcurrent
               /\ queuedJobs' = Append(queuedJobs, r)
BY DEF Enqueue, QueueInv, QueueTypes, Requests

\* What DispatchNext does to the queue and to the statuses.
LEMMA DispatchEffect ==
  ASSUME QueueInv, NEW r \in AsyncRequests, r \in Workers,
         NEW end \in Finished, DispatchNext(r, end)
  PROVE  /\ status[r] = "running"
         /\ status'[r] = end
         /\ \A q \in AsyncRequests \ {r} :
              \/ status'[q] = status[q]
              \/ status[q] = "queued" /\ status'[q] = "running"
         /\ queuedJobs' = IF queuedJobs = <<>> THEN <<>> ELSE Tail(queuedJobs)
<1>1. status[r] = "running" /\ r \notin Range(queuedJobs)
  BY DEF QueueInv, StatusFollowsWorker, QueueHoldsTheWaiting, Workers, Finished
<1>2. CASE queuedJobs = <<>>
  BY <1>1, <1>2 DEF DispatchNext, QueueInv, QueueTypes, Requests
<1>3. CASE queuedJobs # <<>>
  <2> DEFINE next == Head(queuedJobs)
  <2>1. next \in Range(queuedJobs)
    BY <1>3, TailOfInjective DEF QueueInv, QueueTypes, QueueHoldsTheWaiting
  <2>2. next \in AsyncRequests /\ status[next] = "queued" /\ next # r
    BY <1>1, <2>1 DEF QueueInv, QueueHoldsTheWaiting
  <2>3. /\ queuedJobs' = Tail(queuedJobs)
        /\ status' = [status EXCEPT ![r] = end, ![next] = "running"]
    BY <1>3 DEF DispatchNext
  <2> HIDE DEF next
  <2> QED BY <1>1, <1>3, <2>2, <2>3 DEF QueueInv, QueueTypes, Requests
<1> QED BY <1>2, <1>3

\* Nothing has arrived at an idle server.
LEMMA InitArrivals == Init => ArrivalsInv
<1> SUFFICES ASSUME Init PROVE ArrivalsInv
  OBVIOUS
<1>1. IsInjective(arrivals) /\ Range(arrivals) = {}
  BY DEF Init, IsInjective, Range
<1>2. Len(queuedJobs) = 0 /\ Len(arrivals) = 0
  BY EmptySeq DEF Init
<1>3. {r \in AsyncRequests : status[r] # "none"} = {}
  BY DEF Init, Requests
<1> QED BY <1>1, <1>2, <1>3 DEF ArrivalsInv

\* The queue stays the tail of the arrivals.
LEMMA NextArrivals == QueueInv /\ ArrivalsInv /\ [Next]_vars => ArrivalsInv'
<1> SUFFICES ASSUME QueueInv, ArrivalsInv, [Next]_vars PROVE ArrivalsInv'
  OBVIOUS
<1>1. /\ QueueTypes
      /\ Len(queuedJobs) \in Nat
      /\ Len(arrivals) \in Nat
      /\ queuedJobs \in Seq(AsyncRequests)
      /\ arrivals \in Seq(AsyncRequests)
  BY LengthsAreNat DEF QueueInv, QueueTypes
<1>2. ASSUME NEW r \in AsyncRequests, Enqueue(r) PROVE ArrivalsInv'
  <2>1. status[r] = "none" /\ r \notin Range(arrivals)
    BY <1>2, EnqueuedIsNew DEF ArrivalsInv
  <2>2. /\ arrivals' = Append(arrivals, r)
        /\ status' = [status EXCEPT ![r] = status'[r]]
        /\ status'[r] \in {"running", "queued"}
        /\ \/ queuedJobs' = queuedJobs /\ activeScans < maxConcurrent
           \/ queuedJobs' = Append(queuedJobs, r)
    BY <1>2, EnqueueEffect
  <2>3. /\ IsInjective(arrivals')
        /\ Range(arrivals') = Range(arrivals) \cup {r}
        /\ Len(arrivals') = Len(arrivals) + 1
    BY <1>1, <2>1, <2>2, AppendFresh DEF ArrivalsInv
  <2>4. {q \in AsyncRequests : status'[q] # "none"}
          = {q \in AsyncRequests : status[q] # "none"} \cup {r}
    BY <1>1, <2>2 DEF QueueTypes, Requests
  <2>5. /\ \A i \in 1 .. Len(arrivals) : arrivals'[i] = arrivals[i]
        /\ arrivals'[Len(arrivals) + 1] = r
    BY <1>1, <2>2, AppendProperties
  <2>6. CASE queuedJobs' = queuedJobs /\ activeScans < maxConcurrent
    <3>1. queuedJobs = <<>>
      BY <1>1, <2>6, LimitsPositive DEF QueueInv, WorkConserving
    <3>2. Len(queuedJobs') = 0
      BY <2>6, <3>1, EmptySeq
    <3> QED BY <1>1, <2>3, <2>4, <3>2 DEF ArrivalsInv
  <2>7. CASE queuedJobs' = Append(queuedJobs, r)
    <3>1. /\ Len(queuedJobs') = Len(queuedJobs) + 1
          /\ \A i \in 1 .. Len(queuedJobs) : queuedJobs'[i] = queuedJobs[i]
          /\ queuedJobs'[Len(queuedJobs) + 1] = r
      BY <1>1, <2>7, AppendProperties
    <3>2. Len(queuedJobs') <= Len(arrivals')
      BY <1>1, <2>3, <3>1 DEF ArrivalsInv
    <3>3. ASSUME NEW i \in 1 .. Len(queuedJobs')
          PROVE  queuedJobs'[i]
                   = arrivals'[Len(arrivals') - Len(queuedJobs') + i]
      <4>1. Len(arrivals') - Len(queuedJobs') + i
              = Len(arrivals) - Len(queuedJobs) + i
        BY <1>1, <2>3, <3>1
      <4>2. CASE i = Len(queuedJobs) + 1
        BY <1>1, <2>5, <3>1, <4>1, <4>2
      <4>3. CASE i \in 1 .. Len(queuedJobs)
        <5>1. Len(arrivals) - Len(queuedJobs) + i \in 1 .. Len(arrivals)
          BY <1>1, <4>3 DEF ArrivalsInv
        <5> QED BY <2>5, <3>1, <4>1, <4>3, <5>1 DEF ArrivalsInv
      <4> QED BY <1>1, <3>1, <3>3, <4>2, <4>3
    <3> QED BY <2>3, <2>4, <3>2, <3>3 DEF ArrivalsInv
  <2> QED BY <2>2, <2>6, <2>7
<1>3. ASSUME NEW r \in AsyncRequests, NEW end \in Finished,
             r \in Workers, DispatchNext(r, end), UNCHANGED arrivals
      PROVE  ArrivalsInv'
  <2>1. /\ status[r] = "running"
        /\ status'[r] = end
        /\ \A q \in AsyncRequests \ {r} :
             \/ status'[q] = status[q]
             \/ status[q] = "queued" /\ status'[q] = "running"
        /\ queuedJobs' = IF queuedJobs = <<>> THEN <<>> ELSE Tail(queuedJobs)
    BY <1>3, DispatchEffect
  <2>2. {q \in AsyncRequests : status'[q] # "none"}
          = {q \in AsyncRequests : status[q] # "none"}
    BY <2>1 DEF Finished
  <2>3. CASE queuedJobs = <<>>
    BY <1>3, <2>1, <2>2, <2>3 DEF ArrivalsInv
  <2>4. CASE queuedJobs # <<>>
    <3>1. /\ queuedJobs' = Tail(queuedJobs)
          /\ Len(queuedJobs') = Len(queuedJobs) - 1
          /\ \A i \in 1 .. Len(queuedJobs') : queuedJobs'[i] = queuedJobs[i + 1]
          /\ Len(queuedJobs) \in Nat \ {0}
      BY <1>1, <2>1, <2>4, HeadTailProperties, EmptySeq
    <3>2. Len(queuedJobs') <= Len(arrivals')
      BY <1>1, <1>3, <3>1 DEF ArrivalsInv
    <3>3. ASSUME NEW i \in 1 .. Len(queuedJobs')
          PROVE  queuedJobs'[i]
                   = arrivals'[Len(arrivals') - Len(queuedJobs') + i]
      <4>1. i + 1 \in 1 .. Len(queuedJobs)
        BY <3>1
      <4>2. Len(arrivals') - Len(queuedJobs') + i
              = Len(arrivals) - Len(queuedJobs) + (i + 1)
        BY <1>1, <1>3, <3>1
      <4> QED BY <1>3, <3>1, <4>1, <4>2 DEF ArrivalsInv
    <3> QED BY <1>3, <2>2, <3>2, <3>3 DEF ArrivalsInv
  <2> QED BY <2>3, <2>4
<1>4. CASE /\ UNCHANGED <<queuedJobs, arrivals>>
           /\ \A r \in AsyncRequests : status'[r] = status[r]
  BY <1>4 DEF ArrivalsInv
<1> QED BY <1>2, <1>3, <1>4, QueueStepKinds

\* The jobs JobPool takes to be running are those that have a worker.
LEMMA PoolRunningIsWorkers ==
  ASSUME QueueInv, ArrivalsInv
  PROVE  Pool!Running = Workers
<1> DEFINE n == Len(arrivals)
           w == Len(queuedJobs)
           front == {arrivals[i] : i \in 1 .. n - w}
           over == {r \in AsyncRequests : status[r] \in Finished}
<1>1. /\ n \in Nat /\ w \in Nat /\ w <= n
      /\ DOMAIN arrivals = 1 .. n
      /\ DOMAIN queuedJobs = 1 .. w
  BY LengthsAreNat DEF QueueInv, ArrivalsInv
<1>2. Pool!Running = front \ over
  BY DEF Pool!Running
<1>3. ASSUME NEW r \in Workers PROVE r \in front \ over
  <2>1. r \in AsyncRequests /\ status[r] = "running"
    BY DEF QueueInv, StatusFollowsWorker, Workers
  <2>2. PICK i \in 1 .. n : arrivals[i] = r
    BY <1>1, <2>1 DEF ArrivalsInv, Range
  <2>3. i <= n - w
    <3> SUFFICES ASSUME i > n - w PROVE FALSE
      BY <1>1
    <3>1. i - (n - w) \in 1 .. w /\ n - w + (i - (n - w)) = i
      BY <1>1
    <3>2. queuedJobs[i - (n - w)] = r
      BY <2>2, <3>1 DEF ArrivalsInv
    <3>3. r \in Range(queuedJobs)
      BY <1>1, <3>1, <3>2 DEF Range
    <3> QED BY <2>1, <3>3 DEF QueueInv, QueueHoldsTheWaiting
  <2>4. i \in 1 .. n - w
    BY <1>1, <2>3
  <2> QED BY <2>1, <2>2, <2>4 DEF Finished
<1>4. ASSUME NEW r \in front, r \notin over PROVE r \in Workers
  <2>1. PICK i \in 1 .. n - w : arrivals[i] = r
    OBVIOUS
  <2>2. i \in 1 .. n
    BY <1>1
  <2>3. r \in AsyncRequests /\ status[r] # "none"
    BY <1>1, <2>1, <2>2 DEF ArrivalsInv, Range
  <2>4. status[r] # "queued"
    <3> SUFFICES ASSUME status[r] = "queued" PROVE FALSE
      OBVIOUS
    <3>1. PICK k \in 1 .. w : queuedJobs[k] = r
      BY <1>1, <2>3 DEF QueueInv, QueueHoldsTheWaiting, Range
    <3>2. arrivals[n - w + k] = r /\ n - w + k \in 1 .. n
      BY <1>1, <3>1 DEF ArrivalsInv
    <3>3. n - w + k = i
      BY <1>1, <2>1, <2>2, <3>2 DEF ArrivalsInv, IsInjective
    <3> QED BY <1>1, <3>3
  <2>5. status[r] = "running"
    BY <1>4, <2>3, <2>4 DEF QueueInv, QueueTypes, Requests, Statuses
  <2> QED BY <2>3, <2>5 DEF QueueInv, StatusFollowsWorker, Workers
<1> QED BY <1>2, <1>3, <1>4

\* An idle server is an idle pool.
LEMMA PoolInit == Init => Pool!Init
<1> SUFFICES ASSUME Init PROVE Pool!Init
  OBVIOUS
<1>1. Len(arrivals) = 0 /\ Len(queuedJobs) = 0 /\ arrivals = <<>>
  BY EmptySeq DEF Init
<1>2. {r \in AsyncRequests : status[r] \in Finished} = {}
  BY DEF Init, Finished, Requests
<1> QED BY <1>1, <1>2 DEF Pool!Init

\* Each step is one of the abstract pool, or none.
LEMMA PoolNext ==
  QueueInv /\ ArrivalsInv /\ [Next]_vars => [Pool!Next]_(Pool!poolVars)
<1> SUFFICES ASSUME QueueInv, ArrivalsInv, [Next]_vars
             PROVE  [Pool!Next]_(Pool!poolVars)
  OBVIOUS
<1> DEFINE n == Len(arrivals)
           w == Len(queuedJobs)
           over == {r \in AsyncRequests : status[r] \in Finished}
<1>1. /\ n \in Nat /\ w \in Nat /\ w <= n
      /\ DOMAIN arrivals = 1 .. n
      /\ queuedJobs \in Seq(AsyncRequests)
      /\ arrivals \in Seq(AsyncRequests)
      /\ activeScans \in Nat
  BY LengthsAreNat DEF QueueInv, ArrivalsInv, QueueTypes
<1>2. Pool!Running = Workers /\ Cardinality(Workers) = activeScans
  BY PoolRunningIsWorkers DEF QueueInv, SlotsBackedByWorkers
<1>3. Pool!Waiting = w
  BY <1>1 DEF Pool!Waiting
<1>4. ASSUME NEW r \in AsyncRequests, Enqueue(r) PROVE Pool!Admit(r)
  <2>1. status[r] = "none"
    BY <1>4, EnqueuedIsNew
  <2>2. /\ arrivals' = Append(arrivals, r)
        /\ status' = [status EXCEPT ![r] = status'[r]]
        /\ status'[r] \in {"running", "queued"}
        /\ \/ activeScans < maxConcurrent /\ queuedJobs' = queuedJobs
           \/ /\ activeScans >= maxConcurrent
              /\ queuedJobs' = Append(queuedJobs, r)
    BY <1>4, EnqueueEffect
  <2>3. \A i \in DOMAIN arrivals : arrivals[i] # r
    BY <2>1 DEF ArrivalsInv, Range
  <2>4. Pool!Waiting < maxQueue
    BY <1>3, <1>4 DEF Enqueue
  <2>5. over' = over
    BY <2>1, <2>2 DEF QueueInv, QueueTypes, Finished, Requests
  <2>6. n' = n + 1
    BY <1>1, <2>2, AppendProperties
  <2>7. n' - w' = IF activeScans < maxConcurrent THEN n - w + 1 ELSE n - w
    <3>1. CASE activeScans < maxConcurrent
      <4>1. queuedJobs' = queuedJobs
        BY <1>1, <2>2, <3>1, LimitsPositive
      <4> QED BY <1>1, <2>6, <3>1, <4>1
    <3>2. CASE ~(activeScans < maxConcurrent)
      <4>1. w' = w + 1
        BY <1>1, <2>2, <3>2, AppendProperties
      <4> QED BY <1>1, <2>6, <3>2, <4>1
    <3> QED BY <3>1, <3>2
  <2>8. arrivals' = Append(arrivals, r)
    BY <2>2
  <2>9. Pool!Cardinality(Workers) = Cardinality(Workers)
    BY Zenon DEF Pool!Cardinality, Cardinality
  <2> QED BY <1>2, <2>3, <2>4, <2>5, <2>7, <2>8, <2>9 DEF Pool!Admit
<1>5. ASSUME NEW r \in AsyncRequests, NEW end \in Finished,
             r \in Workers, DispatchNext(r, end), UNCHANGED arrivals
      PROVE  Pool!End(r)
  <2>1. /\ status[r] = "running"
        /\ status'[r] = end
        /\ \A q \in AsyncRequests \ {r} :
             \/ status'[q] = status[q]
             \/ status[q] = "queued" /\ status'[q] = "running"
        /\ queuedJobs' = IF queuedJobs = <<>> THEN <<>> ELSE Tail(queuedJobs)
    BY <1>5, DispatchEffect
  <2>2. over' = over \cup {r}
    BY <2>1 DEF Finished
  <2>3. n' - w' = IF w > 0 THEN n - w + 1 ELSE n - w
    <3>1. CASE queuedJobs = <<>>
      <4>1. w = 0 /\ w' = 0
        BY <2>1, <3>1, EmptySeq
      <4> QED BY <1>1, <1>5, <4>1
    <3>2. CASE queuedJobs # <<>>
      <4>1. w' = w - 1 /\ w > 0
        BY <1>1, <2>1, <3>2, HeadTailProperties, EmptySeq
      <4> QED BY <1>1, <1>5, <4>1
    <3> QED BY <3>1, <3>2
  <2> QED BY <1>2, <1>3, <1>5, <2>2, <2>3 DEF Pool!End
<1>6. CASE /\ UNCHANGED <<queuedJobs, arrivals>>
           /\ \A r \in AsyncRequests : status'[r] = status[r]
  BY <1>6 DEF Pool!poolVars
<1> QED BY <1>4, <1>5, <1>6, QueueStepKinds DEF Pool!Next

\* The queue of the server implements the abstract pool: jobs start first come
\* first served, each once, and as soon as a slot is free.  (That every job
\* ends is checked by TLC only.)
THEOREM QueueImplementsPool == Spec => Pool!Spec
<1>1. Init => QueueInv /\ ArrivalsInv
  BY InitQueueInv, InitArrivals
<1>2. QueueInv /\ ArrivalsInv /\ [Next]_vars => (QueueInv /\ ArrivalsInv)'
  BY NextQueueInv, NextArrivals
<1> QED BY <1>1, <1>2, PoolInit, PoolNext, PTL DEF Spec, Pool!Spec

-----------------------------------------------------------------------------
(* The job map *)

\* What the job map refers to: jobs that exist, under their own IDs.  The job
\* of a synchronous request is finished from the start.
MapInv ==
  /\ KeysMatchIds
  /\ \A id \in Tracked :
       pc[jobs[id]] \notin HandlerPcs /\ status[jobs[id]] # "none"
  /\ \A r \in SyncRequests : status[r] \in {"none", "completed"}

\* An empty job map is in its invariant.
LEMMA InitMapInv == Init => MapInv
BY DEF Init, MapInv, KeysMatchIds, Tracked, Requests

\* A new entry for job r, the pruning before it included.
LEMMA StoredMapInv ==
  ASSUME QueueTypes, MapInv, NEW r \in Requests, NEW id \in ScanIds, NEW D,
         jobs' = Stored(D, id, r), scanId'[r] = id,
         pc'[r] \notin HandlerPcs, status'[r] # "none",
         r \in SyncRequests => status'[r] = "completed",
         \A q \in Requests \ {r} :
           pc'[q] = pc[q] /\ status'[q] = status[q] /\ scanId'[q] = scanId[q],
         pc[r] \in HandlerPcs
  PROVE  MapInv'
<1>1. ASSUME NEW i \in Tracked'
      PROVE  /\ scanId'[jobs'[i]] = i
             /\ pc'[jobs'[i]] \notin HandlerPcs
             /\ status'[jobs'[i]] # "none"
  <2>1. i \in ScanIds /\ jobs'[i] # NoJob
    BY <1>1 DEF Tracked
  <2>2. CASE i = id
    BY <2>1, <2>2 DEF Stored
  <2>3. CASE i # id
    <3>1. jobs'[i] = jobs[i] /\ i \in Tracked
      BY <2>1, <2>3 DEF Stored, Tracked
    <3>2. jobs[i] \in Requests /\ jobs[i] # r
      BY <3>1 DEF MapInv, QueueTypes, Tracked
    <3> QED BY <3>1, <3>2 DEF MapInv, KeysMatchIds
  <2> QED BY <2>2, <2>3
<1>2. \A q \in SyncRequests : status'[q] \in {"none", "completed"}
  BY DEF MapInv, Requests
<1> QED BY <1>1, <1>2 DEF MapInv, KeysMatchIds

\* A step that leaves the map alone and no tracked job in a handler.
LEMMA OtherMapInv ==
  ASSUME QueueTypes, MapInv, jobs' = jobs,
         \A q \in Requests :
           \/ pc[q] \in HandlerPcs /\ status'[q] = status[q]
           \/ /\ scanId'[q] = scanId[q]
              /\ pc'[q] = pc[q] \/ pc'[q] \notin HandlerPcs
              /\ \/ status'[q] = status[q]
                 \/ q \in AsyncRequests /\ status'[q] # "none"
  PROVE  MapInv'
<1>1. ASSUME NEW i \in Tracked'
      PROVE  /\ scanId'[jobs'[i]] = i
             /\ pc'[jobs'[i]] \notin HandlerPcs
             /\ status'[jobs'[i]] # "none"
  <2>1. i \in Tracked /\ jobs'[i] = jobs[i] /\ jobs[i] \in Requests
    BY <1>1 DEF Tracked, QueueTypes
  <2> QED BY <2>1 DEF MapInv, KeysMatchIds
<1>2. \A q \in SyncRequests : status'[q] \in {"none", "completed"}
  BY RequestsAssumption DEF MapInv, Requests
<1> QED BY <1>1, <1>2 DEF MapInv, KeysMatchIds

\* Each step keeps the invariant of the job map.
LEMMA NextMapInv == QueueInv /\ MapInv /\ [Next]_vars => MapInv'
<1> SUFFICES ASSUME QueueInv, MapInv, [Next]_vars PROVE MapInv'
  OBVIOUS
<1>0. QueueTypes
  BY DEF QueueInv
<1>1. CASE UNCHANGED vars
  BY <1>0, <1>1, OtherMapInv DEF vars
<1>2. CASE Tick
  BY <1>0, <1>2, OtherMapInv DEF Tick, serverVars
<1>3. ASSUME NEW r \in Requests,
             \/ ReceiveAsync(r) \/ Refuse(r) \/ BeginScan(r) \/ ScanReturns(r)
             \/ ReceiveSync(r) \/ SyncScanReturns(r) \/ SyncScanFails(r)
      PROVE  MapInv'
  <2>1. /\ UNCHANGED <<jobs, status>>
        /\ \A q \in Requests \ {r} : scanId'[q] = scanId[q] /\ pc'[q] = pc[q]
        /\ \/ pc[r] \in HandlerPcs
           \/ scanId'[r] = scanId[r] /\ pc'[r] \notin HandlerPcs
    BY <1>0, <1>3
       DEF ReceiveAsync, Refuse, BeginScan, ScanReturns, ReceiveSync,
           SyncScanReturns, SyncScanFails, serverVars, QueueTypes, HandlerPcs,
           Spawned, Scanning, ScanOver
  <2> QED BY <1>0, <2>1, OtherMapInv
<1>4. ASSUME NEW r \in Requests, Enqueue(r) PROVE MapInv'
  <2>1. r \in AsyncRequests /\ r \notin SyncRequests
    BY <1>4, RequestsAssumption DEF Enqueue, QueueInv, HandlersInv, Lost, Requests
  <2>2. PICK id \in FreshIds(r), D \in PruneChoices :
          /\ scanId' = [scanId EXCEPT ![r] = id]
          /\ jobs' = Stored(D, id, r)
    BY <1>4 DEF Enqueue
  <2>3. id \in ScanIds
    BY <1>4 DEF Enqueue, QueueInv, HandlersInv, FreshIds, ScanIds
  <2>4. /\ pc[r] \in HandlerPcs
        /\ pc'[r] \notin HandlerPcs /\ status'[r] # "none"
        /\ \A q \in Requests \ {r} : pc'[q] = pc[q] /\ status'[q] = status[q]
    BY <1>0, <1>4 DEF Enqueue, QueueTypes, HandlerPcs, Spawned
  <2>5. scanId'[r] = id /\ \A q \in Requests \ {r} : scanId'[q] = scanId[q]
    BY <1>0, <2>2 DEF QueueTypes
  <2> QED BY <1>0, <2>1, <2>2, <2>3, <2>4, <2>5, StoredMapInv
<1>5. ASSUME NEW r \in Requests, RecordSync(r) PROVE MapInv'
  <2>1. PICK D \in PruneChoices : jobs' = Stored(D, scanId[r], r)
    BY <1>5 DEF RecordSync
  <2>2. scanId[r] \in ScanIds /\ scanId'[r] = scanId[r]
    BY <1>5 DEF RecordSync, QueueInv, HandlersInv
  <2>3. /\ pc[r] \in HandlerPcs
        /\ pc'[r] \notin HandlerPcs /\ status'[r] = "completed"
        /\ \A q \in Requests \ {r} :
             pc'[q] = pc[q] /\ status'[q] = status[q] /\ scanId'[q] = scanId[q]
    BY <1>0, <1>5 DEF RecordSync, QueueTypes, HandlerPcs
  <2> QED BY <1>0, <2>1, <2>2, <2>3, StoredMapInv
<1>6. ASSUME NEW r \in Requests, FinishJob(r) \/ RecoverJob(r) PROVE MapInv'
  <2>1. PICK end \in Finished :
          DispatchNext(r, end) /\ UNCHANGED <<jobs, scanId>>
    BY <1>6 DEF FinishJob, RecoverJob, Finished
  <2>2. r \in AsyncRequests
    BY <1>6 DEF FinishJob, RecoverJob, QueueInv, HandlersInv, Lost, Requests
  <2>3. CASE queuedJobs = <<>>
    <3>1. /\ status' = [status EXCEPT ![r] = end]
          /\ pc' = [pc EXCEPT ![r] = "exited"]
      BY <2>1, <2>3 DEF DispatchNext
    <3> QED BY <1>0, <2>1, <2>2, <3>1, OtherMapInv
            DEF QueueTypes, HandlerPcs, Finished
  <2>4. CASE queuedJobs # <<>>
    <3> DEFINE next == Head(queuedJobs)
    <3>1. /\ status' = [status EXCEPT ![r] = end, ![next] = "running"]
          /\ pc' = [pc EXCEPT ![r] = "exited", ![next] = Spawned]
      BY <2>1, <2>4 DEF DispatchNext
    <3>2. next \in AsyncRequests
      BY <2>4, HeadTailProperties DEF QueueInv, QueueTypes
    <3> HIDE DEF next
    <3>3. \A q \in Requests :
            /\ scanId'[q] = scanId[q]
            /\ pc'[q] = pc[q] \/ pc'[q] \notin HandlerPcs
            /\ \/ status'[q] = status[q]
               \/ q \in AsyncRequests /\ status'[q] # "none"
      BY <1>0, <2>1, <2>2, <3>1, <3>2 DEF QueueTypes, HandlerPcs, Spawned, Finished
    <3> QED BY <1>0, <2>1, <3>3, OtherMapInv
  <2> QED BY <2>3, <2>4
<1>7. CASE AllOver
  BY <1>1, <1>7 DEF AllOver
<1> QED
  BY <1>1, <1>2, <1>3, <1>4, <1>5, <1>6, <1>7
     DEF Next, AsyncHandler, SyncHandler, Worker

\* GetJob(id) returns a job with that ID, for any IDs and any pruning.
THEOREM KeysAlwaysMatch == Spec => []KeysMatchIds
<1>1. QueueInv /\ MapInv => KeysMatchIds
  BY DEF MapInv
<1>2. QueueInv /\ MapInv /\ [Next]_vars => (QueueInv /\ MapInv)'
  BY NextQueueInv, NextMapInv
<1> QED BY <1>1, <1>2, InitQueueInv, InitMapInv, PTL DEF Spec

\* As many jobs are live as there are places in the queue and slots, at most.
LEMMA LiveJobsBounded ==
  ASSUME QueueInv
  PROVE  /\ IsFiniteSet(LiveJobs)
         /\ Cardinality(LiveJobs) \in Nat
         /\ Cardinality(LiveJobs) <= maxConcurrent + maxQueue
<1> DEFINE w == Len(queuedJobs)
           waiting == Range(queuedJobs)
<1>1. w \in Nat /\ DOMAIN queuedJobs = 1 .. w /\ w <= maxQueue
  BY LengthsAreNat DEF QueueInv, QueueHoldsTheWaiting
<1>2. IsFiniteSet(1 .. w) /\ Cardinality(1 .. w) = w
  <2>1. 1 \in Int /\ w \in Int /\ (1 > w => w = 0) /\ w - 1 + 1 = w
    BY <1>1
  <2>2. /\ IsFiniteSet(1 .. w)
        /\ Cardinality(1 .. w) = IF 1 > w THEN 0 ELSE w - 1 + 1
    BY <2>1, FS_Interval
  <2> QED BY <2>1, <2>2
<1>3. queuedJobs \in Surjection(1 .. w, waiting)
  <2>1. queuedJobs \in [1 .. w -> waiting]
    BY <1>1 DEF Range, QueueInv, QueueTypes
  <2> QED BY <1>1, <2>1 DEF Surjection, Range
<1>4. /\ IsFiniteSet(waiting)
      /\ Cardinality(waiting) \in Nat
      /\ Cardinality(waiting) <= maxQueue
  <2>1. IsFiniteSet(waiting) /\ Cardinality(waiting) <= w
    BY <1>2, <1>3, FS_Surjection
  <2>2. Cardinality(waiting) \in Nat
    BY <2>1, FS_CardinalityType
  <2> QED BY <1>1, <2>1, <2>2, LimitsPositive
<1>5. /\ IsFiniteSet(Workers)
      /\ Cardinality(Workers) \in Nat
      /\ Cardinality(Workers) <= maxConcurrent
  BY WorkersFinite DEF QueueInv, SlotsBackedByWorkers
<1>6. LiveJobs = waiting \cup Workers
  BY DEF LiveJobs, Workers, QueueInv, QueueHoldsTheWaiting, StatusFollowsWorker
<1>7. /\ IsFiniteSet(LiveJobs)
      /\ Cardinality(LiveJobs) = Cardinality(waiting) + Cardinality(Workers)
                                   - Cardinality(waiting \cap Workers)
  BY <1>4, <1>5, <1>6, FS_Union
<1>8. Cardinality(waiting \cap Workers) \in Nat
  BY <1>4, FS_Intersection, FS_CardinalityType
<1>9. Cardinality(LiveJobs) \in Nat
  BY <1>7, FS_CardinalityType
<1> QED BY <1>4, <1>5, <1>7, <1>8, <1>9, LimitsPositive

\* There are finitely many IDs.
LEMMA ScanIdsFinite == IsFiniteSet(ScanIds)
<1>1. IsFiniteSet(Seconds)
  BY ScanIdsAssumption, FS_Interval DEF Seconds
<1>2. IsFiniteSet(Suffixes \cup {NoSuffix})
  BY ScanIdsAssumption, FS_AddElement
<1> QED BY <1>1, <1>2, FS_Product DEF ScanIds

\* The size of the job map after pruning: what the thresholds or the live jobs
\* leave.
LEMMA PrunedBounded ==
  ASSUME QueueInv, MapInv, NEW D \in PruneChoices
  PROVE  /\ IsFiniteSet(Tracked \ D)
         /\ Cardinality(Tracked \ D) \in Nat
         /\ \/ Cardinality(Tracked \ D) <= PruneHigh
            \/ Cardinality(Tracked \ D) <= maxConcurrent + maxQueue
<1>1. IsFiniteSet(Tracked)
  <2>1. Tracked \in SUBSET ScanIds
    BY DEF Tracked
  <2> QED BY <2>1, ScanIdsFinite, FS_Subset
<1>2. IsFiniteSet(Tracked \ D) /\ Cardinality(Tracked \ D) \in Nat
  BY <1>1, FS_Difference, FS_CardinalityType
<1>3. CASE Cardinality(Tracked) <= PruneHigh
  <2>1. D = {}
    BY <1>3 DEF PruneChoices
  <2>2. Tracked \ D = Tracked
    BY <2>1
  <2> QED BY <1>2, <1>3, <2>2
<1>4. CASE Cardinality(Tracked \ D) = PruneLow
  BY <1>2, <1>4, LimitsAssumption
<1>5. CASE D = FinishedIds
  <2> DEFINE live == Tracked \ D
             job == [id \in live |-> jobs[id]]
  <2>1. ASSUME NEW id \in live PROVE jobs[id] \in LiveJobs
    <3>1. /\ id \in Tracked
          /\ jobs[id] \in Requests
          /\ status[jobs[id]] \in {"queued", "running"}
      BY <1>5 DEF FinishedIds, Tracked, QueueInv, QueueTypes, MapInv, Statuses
    <3>2. jobs[id] \in AsyncRequests
      BY <3>1 DEF MapInv, Requests
    <3> QED BY <3>1, <3>2 DEF LiveJobs
  <2>2. job \in Injection(live, LiveJobs)
    <3>1. job \in [live -> LiveJobs]
      BY <2>1
    <3>2. \A a, b \in live : job[a] = job[b] => a = b
      BY DEF MapInv, KeysMatchIds
    <3> QED BY <3>1, <3>2 DEF Injection, IsInjective
  <2>3. Cardinality(live) <= Cardinality(LiveJobs)
    <3> HIDE DEF live, job
    <3> QED BY <2>2, LiveJobsBounded, FS_Injection
  <2> QED BY <1>2, <2>3, LiveJobsBounded, LimitsPositive
<1> QED BY <1>3, <1>4, <1>5 DEF PruneChoices

\* Each step keeps the job map within its bound.
LEMMA NextJobMapBounded ==
  QueueInv /\ MapInv /\ JobMapBounded /\ [Next]_vars => JobMapBounded'
<1> SUFFICES ASSUME QueueInv, MapInv, JobMapBounded, [Next]_vars
             PROVE  JobMapBounded'
  OBVIOUS
<1>1. CASE jobs' = jobs
  <2>1. Tracked' = Tracked
    BY <1>1 DEF Tracked
  <2> QED BY <2>1 DEF JobMapBounded
<1>2. ASSUME NEW r \in Requests, NEW D \in PruneChoices, NEW id,
             jobs' = Stored(D, id, r)
      PROVE  JobMapBounded'
  <2> DEFINE kept == Tracked \ D
  <2>1. Tracked' \subseteq kept \cup {id}
    BY <1>2 DEF Tracked, Stored
  <2>2. /\ IsFiniteSet(kept)
        /\ Cardinality(kept) \in Nat
        /\ \/ Cardinality(kept) <= PruneHigh
           \/ Cardinality(kept) <= maxConcurrent + maxQueue
    BY PrunedBounded
  <2> HIDE DEF kept
  <2>3. /\ IsFiniteSet(kept \cup {id})
        /\ Cardinality(kept \cup {id}) <= Cardinality(kept) + 1
        /\ Cardinality(kept \cup {id}) \in Nat
    <3>1. /\ IsFiniteSet(kept \cup {id})
          /\ Cardinality(kept \cup {id})
               = IF id \in kept THEN Cardinality(kept) ELSE Cardinality(kept) + 1
      BY <2>2, FS_AddElement
    <3> QED BY <2>2, <3>1
  <2>4. /\ Cardinality(Tracked') \in Nat
        /\ Cardinality(Tracked') <= Cardinality(kept \cup {id})
    BY <2>1, <2>3, FS_Subset, FS_CardinalityType
  <2> QED BY <2>2, <2>3, <2>4, LimitsPositive, LimitsAssumption
          DEF JobMapBounded
<1>3. \/ jobs' = jobs
      \/ \E r \in Requests, D \in PruneChoices : \E id : jobs' = Stored(D, id, r)
  BY DEF Next, vars, Tick, AsyncHandler, SyncHandler, Worker, AllOver,
         ReceiveAsync, Refuse, Enqueue, BeginScan, ScanReturns, FinishJob,
         RecoverJob, ReceiveSync, SyncScanReturns, SyncScanFails, RecordSync,
         serverVars
<1> QED BY <1>1, <1>2, <1>3

\* The job map is bounded by the pruning threshold and the live jobs.
THEOREM JobMapStaysBounded == Spec => []JobMapBounded
<1>1. Init => JobMapBounded
  <2> SUFFICES ASSUME Init PROVE JobMapBounded
    OBVIOUS
  <2>1. Tracked = {}
    BY DEF Init, Tracked
  <2> QED BY <2>1, FS_EmptySet, LimitsPositive, LimitsAssumption
          DEF JobMapBounded
<1>2. QueueInv /\ MapInv /\ JobMapBounded /\ [Next]_vars
        => (QueueInv /\ MapInv /\ JobMapBounded)'
  BY NextQueueInv, NextMapInv, NextJobMapBounded
<1> QED BY <1>1, <1>2, InitQueueInv, InitMapInv, PTL DEF Spec

-----------------------------------------------------------------------------
(* The service: types and the inductive invariant *)

\* The types of the variables that say what becomes of a scan.
ScanTypes ==
  /\ queuedJobs \in Seq(AsyncRequests)
  /\ jobs \in [ScanIds -> Requests \cup {NoJob}]
  /\ status \in [Requests -> Statuses]
  /\ scanId \in [Requests -> ScanIds \cup {NoId}]
  /\ pc \in [Requests -> WorkerPcs \cup HandlerPcs \cup RestingPcs \cup {Lost}]
  /\ now \in Seconds
  /\ rows \in [Onions \X Seconds -> Requests \cup {NoScan}]
  /\ ended \in [Requests -> Seconds \cup {NoScan}]
  /\ saved \subseteq Requests

\* The types of the client's variables.
Queries == [at : {"none", "job", "target", "targets", "search"},
            id : ScanIds \cup {NoId}, target : Onions \cup {NoTarget},
            job : Requests \cup {NoScan}, todo : SUBSET Onions,
            known : BOOLEAN, erred : BOOLEAN]
Answers == [id : ScanIds \cup {NoId}, kind : Kinds, scan : Requests \cup {NoScan},
            known : BOOLEAN, erred : BOOLEAN]

\* The waiting jobs are parked, each once.
LineInv ==
  /\ \A i, j \in DOMAIN queuedJobs : queuedJobs[i] = queuedJobs[j] => i = j
  /\ \A i \in DOMAIN queuedJobs : pc[queuedJobs[i]] = "parked"

\* How the status of a job, its goroutine and its stored scan go together.
\* A scan is saved before its job is completed, and never if it fails.
RunInv(r) ==
  /\ pc[r] = "arrived" => r \in AsyncRequests
  /\ pc[r] \in {"arrived", "inlineDone"} => scanId[r] \in ScanIds
  /\ pc[r] \in HandlerPcs \cup {"refused", Lost} => status[r] = "none"
  /\ pc[r] \in {"idle", "arrived", "inline", "parked", Spawned} =>
       r \notin saved /\ ended[r] = NoScan
  /\ pc[r] = "succeeded" => r \in saved
  /\ pc[r] \in {"erred", "panicked"} => r \notin saved
  /\ pc[r] = "parked" <=> status[r] = "queued"
  /\ pc[r] \in WorkerPcs <=> status[r] = "running"
  /\ status[r] = "completed" => r \in saved
  /\ status[r] = "failed" => pc[r] = "exited" /\ r \notin saved

RunsInv == \A r \in Requests : RunInv(r)

\* The job map has every job under its own ID.
JobsInv ==
  \A id \in ScanIds : jobs[id] # NoJob =>
    /\ scanId[jobs[id]] = id
    /\ pc[jobs[id]] \notin HandlerPcs
    /\ status[jobs[id]] # "none"

\* Every saved scan has a row under its key, its own or that of a later one.
StoreInv ==
  /\ \A r \in saved : ended[r] \in Seconds /\ rows[<<TargetOf[r], ended[r]>>] # NoScan
  /\ \A k \in Onions \X Seconds : rows[k] # NoScan =>
       rows[k] \in saved /\ k = <<TargetOf[rows[k]], ended[rows[k]]>>

\* A request bears an ID for good: that of its job, or that of its saved scan.
Bears(r, id) ==
  \/ scanId[r] = id /\ pc[r] \notin HandlerPcs
  \/ r \in saved /\ id = <<ended[r], NoSuffix>>

\* The job map shows no live job of r under id.
NotLive(r, id) == jobs[id] = r => status[r] = "completed"

\* What the GET at hand relies on: the job it copied is completed; a scan that
\* was known is in the targets that it has still to ask; and some request bore
\* the ID before and is not at work on it.
QueryInv ==
  /\ query.at # "none" => query.id \in ScanIds
  /\ query.at = "job" =>
       /\ query.job \in Requests /\ Bears(query.job, query.id)
       /\ status[query.job] = "completed"
  /\ query.at = "target" => query.target \in Onions
  /\ query.at \in {"target", "targets", "search"} =>
       /\ \E r \in Requests : Bears(r, query.id) /\ NotLive(r, query.id)
       /\ query.known =>
            \/ query.at = "search" /\ query.erred
            \/ \E r \in saved :
                 /\ query.id = <<ended[r], NoSuffix>>
                 /\ query.at = "target" => TargetOf[r] = query.target
                 /\ query.at = "search" => TargetOf[r] \in query.todo

\* What the answer `kind` with scan r to a GET of id says of r for good.
\* Where r is shown as completed, its job is not shown as live any more,
\* unless there is another request with the same ID.
StaysTrue(id, kind, r) ==
  /\ kind = "completed" => r # NoScan
  /\ r # NoScan =>
       /\ id \in ScanIds /\ Bears(r, id)
       /\ kind \in {"queued", "running", "failed", "completed"}
       /\ kind = "running" => status[r] # "queued"
       /\ kind = "failed" =>
            pc[r] \in {"exited", Lost} /\ r \notin saved /\ status[r] \in {"failed", "none"}
       /\ kind = "completed" =>
            /\ r \in saved
            /\ NotLive(r, id) \/ \E q \in Requests \ {r} : Bears(q, id)

AnswerInv == StaysTrue(answer.id, answer.kind, answer.scan)

\* The inductive invariant: what is true of the scans, and what the client
\* was or will be told of them.
ScanInv == ScanTypes /\ LineInv /\ RunsInv /\ JobsInv /\ StoreInv

ClientInv ==
  /\ query \in Queries /\ answer \in Answers
  /\ QueryInv /\ AnswerInv /\ AnsweredIfKnown

ServiceInv == ScanInv /\ ClientInv

-----------------------------------------------------------------------------
(* The daemon *)

\* What a step of the daemon leaves to a client: saved scans and their rows,
\* the bearers of an ID, a job that is not live under it, the truth of what
\* was answered, and, unless it ends the GET, what is completed.
Keeps ==
  /\ \A r \in saved : r \in saved' /\ ended'[r] = ended[r]
  /\ \A k \in Onions \X Seconds : rows[k] # NoScan => rows'[k] # NoScan
  /\ \A r \in Requests, id \in ScanIds :
       Bears(r, id) =>
         /\ Bears(r, id)'
         /\ NotLive(r, id) => NotLive(r, id)'
         /\ status[r] # "queued" => status'[r] # "queued"
  /\ \A r \in Requests :
       /\ pc[r] \in {"exited", Lost} /\ r \notin saved /\ status[r] \in {"failed", "none"}
          => pc'[r] \in {"exited", Lost} /\ r \notin saved' /\ status'[r] \in {"failed", "none"}
       /\ query'.at # "none" /\ status[r] = "completed" => status'[r] = "completed"

\* The scan IDs are pairs of a second and a suffix, or none.
LEMMA ScanIdFacts ==
  /\ NoId \notin ScanIds
  /\ \A s \in Seconds : <<s, NoSuffix>> \in ScanIds
  /\ \A id \in ScanIds : \A s : id[2] = NoSuffix /\ id[1] = s <=> id = <<s, NoSuffix>>
  /\ \A id \in ScanIds : id[1] \in Seconds
  /\ \A id \in ScanIds, s \in Suffixes : <<id[1], s>> \in ScanIds
  /\ NoScan \notin Seconds /\ NoScan \notin Requests /\ NoJob \notin Requests
BY ScanIdsAssumption, RequestsAssumption, ServiceAssumption DEF ScanIds

\* The effect of a step in which request r alone goes on, without a lock.
Alone(r) ==
  /\ UNCHANGED <<queuedJobs, jobs, status, rows, saved>>
  /\ pc[r] \notin {"parked", "exited", Lost}
  /\ \A q \in Requests \ {r} :
       scanId'[q] = scanId[q] /\ pc'[q] = pc[q] /\ ended'[q] = ended[q]
  /\ \/ pc[r] \in HandlerPcs /\ r \notin saved
     \/ scanId'[r] = scanId[r] /\ pc'[r] \notin HandlerPcs
  /\ r \in saved => ended'[r] = ended[r]

\* Such a step keeps what is about others and what clients rely on.
LEMMA AloneKeeps ==
  ASSUME ScanInv, NEW r \in Requests, Alone(r), RunInv(r)', ScanTypes'
  PROVE  ScanInv' /\ Keeps
<1> USE DEF ScanInv
<1>1. /\ UNCHANGED <<queuedJobs, jobs, status, rows, saved>>
      /\ pc[r] \notin {"parked", "exited", Lost}
      /\ \A q \in Requests \ {r} :
           scanId'[q] = scanId[q] /\ pc'[q] = pc[q] /\ ended'[q] = ended[q]
      /\ \/ pc[r] \in HandlerPcs /\ r \notin saved
         \/ scanId'[r] = scanId[r] /\ pc'[r] \notin HandlerPcs
      /\ r \in saved => ended'[r] = ended[r]
  BY DEF Alone
<1>2. LineInv'
  <2>1. \A i \in DOMAIN queuedJobs : queuedJobs[i] \in Requests
    BY DEF ScanTypes, Requests
  <2> QED BY <1>1, <2>1 DEF LineInv
<1>3. RunsInv'
  <2>1. ASSUME NEW q \in Requests, q # r PROVE RunInv(q)'
    BY <1>1, <2>1 DEF RunsInv, RunInv
  <2> QED BY <2>1 DEF RunsInv
<1>4. JobsInv'
  BY <1>1, RequestsAssumption DEF JobsInv, ScanTypes
<1>5. StoreInv'
  <2>1. \A q \in saved : ended'[q] = ended[q]
    BY <1>1 DEF ScanTypes
  <2>2. \A k \in Onions \X Seconds : rows[k] # NoScan => rows[k] \in saved
    BY DEF StoreInv
  <2> QED BY <1>1, <2>1, <2>2 DEF StoreInv
<1>6. Keeps
  BY <1>1 DEF Keeps, Bears, NotLive, ScanTypes
<1> QED BY <1>2, <1>3, <1>4, <1>5, <1>6

\* A request arrives.
LEMMA ReceiveKeeps ==
  ASSUME ScanInv, NEW r \in Requests, Receive(r)
  PROVE  ScanInv' /\ Keeps
<1>1. ScanTypes /\ RunInv(r)
  BY DEF ScanInv, RunsInv
<1>2. pc[r] = "idle" /\ pc' = [pc EXCEPT ![r] = pc'[r]] /\ pc'[r] \in {"arrived", "inline"}
  BY <1>1 DEF Receive, ReceiveAsync, ReceiveSync, ScanTypes
<1>3. UNCHANGED <<queuedJobs, jobs, status, rows, saved, ended, now>>
  BY DEF Receive, ReceiveAsync, ReceiveSync, serverVars, storeVars
<1>4. /\ scanId' \in [Requests -> ScanIds \cup {NoId}]
      /\ \A q \in Requests \ {r} : scanId'[q] = scanId[q]
      /\ pc'[r] = "arrived" => scanId'[r] \in ScanIds /\ r \in AsyncRequests
  BY <1>1, ScanIdFacts DEF Receive, ReceiveAsync, ReceiveSync, ScanTypes
<1>5. ScanTypes'
  BY <1>1, <1>2, <1>3, <1>4 DEF ScanTypes, HandlerPcs
<1>6. RunInv(r)'
  BY <1>1, <1>2, <1>3, <1>4 DEF RunInv, HandlerPcs, WorkerPcs, Spawned, Scanning, ScanOver, Lost
<1>7. r \notin saved
  BY <1>1, <1>2 DEF RunInv
<1>8. Alone(r)
  BY <1>1, <1>2, <1>3, <1>4, <1>7 DEF Alone, HandlerPcs, ScanTypes, Lost
<1> QED BY <1>5, <1>6, <1>8, AloneKeeps

\* A step of a handler or worker that only moves on.
LEMMA MoveKeeps ==
  ASSUME ScanInv, NEW r \in Requests,
         Refuse(r) \/ BeginScan(r) \/ ScanReturns(r) \/ SyncScanFails(r),
         UNCHANGED storeVars, pc'[r] = "succeeded" => r \in saved,
         pc'[r] \in {"erred", "panicked"} => r \notin saved
  PROVE  ScanInv' /\ Keeps
<1>1. ScanTypes /\ RunInv(r)
  BY DEF ScanInv, RunsInv
<1>2. /\ \/ pc[r] = "arrived" /\ pc'[r] = "refused"
         \/ pc[r] = Spawned /\ pc'[r] = Scanning
         \/ pc[r] = Scanning /\ pc'[r] \in ScanOver
         \/ pc[r] = "inline" /\ pc'[r] = "replied"
      /\ pc' = [pc EXCEPT ![r] = pc'[r]]
  BY <1>1 DEF Refuse, BeginScan, ScanReturns, SyncScanFails, ScanTypes
<1>3. UNCHANGED <<queuedJobs, jobs, status, rows, saved, ended, scanId, now>>
  BY DEF Refuse, BeginScan, ScanReturns, SyncScanFails, serverVars, storeVars
<1>5. ScanTypes'
  BY <1>1, <1>2, <1>3 DEF ScanTypes, RestingPcs, WorkerPcs
<1>6. RunInv(r)'
  BY <1>1, <1>2, <1>3 DEF RunInv, HandlerPcs, WorkerPcs, Spawned, Scanning, ScanOver, Lost
<1>8. Alone(r)
  BY <1>1, <1>2, <1>3 DEF Alone, HandlerPcs, ScanTypes, RunInv, Lost, Spawned, Scanning, ScanOver
<1> QED BY <1>5, <1>6, <1>8, AloneKeeps

\* A scan has its result.
LEMMA EndKeeps ==
  ASSUME ScanInv, NEW r \in Requests, EndScan(r) \/ EndSyncScan(r)
  PROVE  ScanInv' /\ Keeps
<1>1. ScanTypes /\ RunInv(r)
  BY DEF ScanInv, RunsInv
<1>2. /\ \/ pc[r] = Scanning /\ pc'[r] = Scanning /\ scanId'[r] = scanId[r]
         \/ pc[r] = "inline" /\ pc'[r] = "inlineDone" /\ scanId'[r] \in ScanIds
      /\ pc' = [pc EXCEPT ![r] = pc'[r]]
      /\ scanId' = [scanId EXCEPT ![r] = scanId'[r]]
  BY <1>1, ScanIdFacts DEF EndScan, EndSyncScan, SyncScanReturns, ScanTypes, vars
<1>3. /\ UNCHANGED <<queuedJobs, jobs, status, rows, saved, now>>
      /\ ended' = [ended EXCEPT ![r] = now]
  BY DEF EndScan, EndSyncScan, SyncScanReturns, serverVars, vars
<1>4. r \notin saved
  <2>1. CASE EndScan(r)
    BY <2>1, ScanIdFacts DEF EndScan, ScanInv, StoreInv
  <2>2. CASE EndSyncScan(r)
    BY <2>2, <1>1 DEF EndSyncScan, SyncScanReturns, RunInv
  <2> QED BY <2>1, <2>2
<1>5. ScanTypes'
  BY <1>1, <1>2, <1>3 DEF ScanTypes, HandlerPcs, WorkerPcs
<1>6. RunInv(r)'
  BY <1>1, <1>2, <1>3, <1>4 DEF RunInv, HandlerPcs, WorkerPcs, Spawned, Scanning, ScanOver, Lost
<1>7. \A q \in Requests \ {r} :
        scanId'[q] = scanId[q] /\ pc'[q] = pc[q] /\ ended'[q] = ended[q]
  BY <1>1, <1>2, <1>3 DEF ScanTypes
<1>8. Alone(r)
  BY <1>2, <1>3, <1>4, <1>7 DEF Alone, HandlerPcs, Lost, Scanning
<1> QED BY <1>5, <1>6, <1>8, AloneKeeps

\* The transaction that saves a scan.  The row of an earlier scan that ended
\* in the same second may be replaced, but the key keeps a row.
LEMMA SaveKeeps ==
  ASSUME ScanInv, NEW r \in Requests, SaveScan(r)
  PROVE  ScanInv' /\ Keeps
<1> DEFINE key == <<TargetOf[r], ended[r]>>
<1>1. ScanTypes /\ RunsInv /\ RunInv(r) /\ StoreInv /\ LineInv /\ JobsInv
  BY DEF ScanInv, RunsInv
<1>2. /\ pc[r] \in {Scanning, "inlineDone"}
      /\ ended[r] # NoScan
      /\ r \notin saved
      /\ rows' = [rows EXCEPT ![key] = r]
      /\ saved' = saved \cup {r}
      /\ UNCHANGED <<queuedJobs, jobs, status, scanId, pc, now, ended>>
  BY DEF SaveScan, vars
<1>3. key \in Onions \X Seconds
  BY <1>1, <1>2, ServiceAssumption DEF ScanTypes
<1>4. /\ rows' \in [Onions \X Seconds -> Requests \cup {NoScan}]
      /\ rows'[key] = r
      /\ \A k \in Onions \X Seconds : k # key => rows'[k] = rows[k]
  BY <1>1, <1>2, <1>3 DEF ScanTypes
<1> HIDE DEF key
<1>5. ScanTypes'
  BY <1>1, <1>2, <1>4 DEF ScanTypes
<1>6. RunsInv' /\ LineInv' /\ JobsInv'
  BY <1>1, <1>2 DEF RunsInv, RunInv, LineInv, JobsInv, WorkerPcs, Spawned, Scanning, ScanOver, HandlerPcs, Lost
<1>7. StoreInv'
  <2>1. r # NoScan
    BY ScanIdFacts
  <2>2. ASSUME NEW q \in saved' PROVE ended'[q] \in Seconds /\ rows'[<<TargetOf[q], ended'[q]>>] # NoScan
    <3>1. CASE q = r
      BY <3>1, <1>1, <1>2, <1>4, <2>1 DEF ScanTypes, key
    <3>2. CASE q # r
      <4>1. q \in saved /\ ended'[q] = ended[q]
        BY <3>2, <1>2
      <4>2. ended[q] \in Seconds /\ rows[<<TargetOf[q], ended[q]>>] # NoScan
        BY <4>1, <1>1 DEF StoreInv
      <4>3. <<TargetOf[q], ended[q]>> \in Onions \X Seconds
        BY <4>1, <4>2, <1>1, ServiceAssumption DEF ScanTypes
      <4> QED BY <4>1, <4>2, <4>3, <1>4, <2>1
    <3> QED BY <3>1, <3>2
  <2>3. ASSUME NEW k \in Onions \X Seconds, rows'[k] # NoScan
        PROVE  rows'[k] \in saved' /\ k = <<TargetOf[rows'[k]], ended'[rows'[k]]>>
    <3>1. CASE k = key
      BY <3>1, <1>2, <1>4 DEF key
    <3>2. CASE k # key
      BY <3>2, <2>3, <1>1, <1>2, <1>4 DEF StoreInv
    <3> QED BY <3>1, <3>2
  <2> QED BY <2>2, <2>3 DEF StoreInv
<1>8. Keeps
  <2>1. /\ \A q \in saved : q \in saved' /\ ended'[q] = ended[q]
        /\ \A k \in Onions \X Seconds : rows[k] # NoScan => rows'[k] # NoScan
    BY <1>2, <1>4, ScanIdFacts
  <2>2. pc[r] \notin {"exited", Lost}
    BY <1>2 DEF Scanning, Lost
  <2>3. \A q \in Requests, id \in ScanIds :
       Bears(q, id) =>
         /\ Bears(q, id)'
         /\ NotLive(q, id) => NotLive(q, id)'
         /\ status[q] # "queued" => status'[q] # "queued"
    BY <1>2 DEF Bears, NotLive
  <2> QED BY <2>1, <2>2, <2>3, <1>2 DEF Keeps
<1> QED BY <1>5, <1>6, <1>7, <1>8 DEF ScanInv

\* What storing request r under id and deleting D does to the job map.
LEMMA StoredFacts ==
  ASSUME ScanTypes, NEW r \in Requests, NEW id, NEW D
  PROVE  /\ Stored(D, id, r) \in [ScanIds -> Requests \cup {NoJob}]
         /\ \A i \in ScanIds : i # id =>
              Stored(D, id, r)[i] = jobs[i] \/ Stored(D, id, r)[i] = NoJob
         /\ id \in ScanIds => Stored(D, id, r)[id] = r
BY DEF Stored, ScanTypes

\* An accepted job starts or waits.
LEMMA EnqueueKeeps ==
  ASSUME ScanInv, NEW r \in Requests, Enqueue(r), UNCHANGED storeVars
  PROVE  ScanInv' /\ Keeps
<1>1. ScanTypes /\ RunsInv /\ RunInv(r) /\ StoreInv /\ LineInv /\ JobsInv
  BY DEF ScanInv, RunsInv
<1>2. /\ pc[r] = "arrived"
      /\ UNCHANGED <<now, rows, saved, ended>>
  BY DEF Enqueue, storeVars
<1>3. PICK id \in FreshIds(r), D \in PruneChoices :
        scanId' = [scanId EXCEPT ![r] = id] /\ jobs' = Stored(D, id, r)
  BY DEF Enqueue
<1>4. id \in ScanIds
  BY <1>1, <1>2, <1>3, ScanIdFacts DEF FreshIds, RunInv
<1>5. /\ jobs' \in [ScanIds -> Requests \cup {NoJob}]
      /\ \A i \in ScanIds : i # id => jobs'[i] = jobs[i] \/ jobs'[i] = NoJob
      /\ jobs'[id] = r
  BY <1>1, <1>3, <1>4, StoredFacts
<1>6. scanId'[r] = id /\ \A q \in Requests \ {r} : scanId'[q] = scanId[q]
  BY <1>1, <1>3 DEF ScanTypes
<1>7. /\ \/ /\ queuedJobs' = queuedJobs
            /\ status' = [status EXCEPT ![r] = "running"]
            /\ pc' = [pc EXCEPT ![r] = Spawned]
         \/ /\ queuedJobs' = Append(queuedJobs, r)
            /\ status' = [status EXCEPT ![r] = "queued"]
            /\ pc' = [pc EXCEPT ![r] = "parked"]
      /\ scanId' \in [Requests -> ScanIds \cup {NoId}]
  BY <1>1, <1>3, <1>4 DEF Enqueue, ScanTypes
<1>8. /\ \A q \in Requests \ {r} : pc'[q] = pc[q] /\ status'[q] = status[q]
      /\ \/ pc'[r] = Spawned /\ status'[r] = "running"
         \/ pc'[r] = "parked" /\ status'[r] = "queued"
  BY <1>1, <1>7 DEF ScanTypes
<1>9. /\ r \notin saved /\ ended[r] = NoScan
      /\ \A i \in DOMAIN queuedJobs : queuedJobs[i] \in Requests /\ queuedJobs[i] # r
  BY <1>1, <1>2 DEF RunInv, LineInv, ScanTypes, Requests
<1>10. ScanTypes'
  <2>1. queuedJobs' \in Seq(AsyncRequests)
    <3>1. r \in AsyncRequests /\ queuedJobs \in Seq(AsyncRequests)
      BY <1>1, <1>2 DEF ScanTypes, RunInv
    <3>2. Append(queuedJobs, r) \in Seq(AsyncRequests)
      BY <3>1, AppendProperties
    <3> QED BY <3>1, <3>2, <1>7
  <2>2. /\ status' \in [Requests -> Statuses]
        /\ pc' \in [Requests -> WorkerPcs \cup HandlerPcs \cup RestingPcs \cup {Lost}]
    BY <1>1, <1>7 DEF ScanTypes, Statuses, WorkerPcs, RestingPcs
  <2> QED BY <2>1, <2>2, <1>1, <1>2, <1>5, <1>7 DEF ScanTypes
<1>11. LineInv'
  <2>1. CASE queuedJobs' = queuedJobs
    BY <2>1, <1>1, <1>8, <1>9 DEF LineInv
  <2>2. CASE queuedJobs' = Append(queuedJobs, r) /\ pc' = [pc EXCEPT ![r] = "parked"]
    <3> DEFINE line == Append(queuedJobs, r)
    <3>1. /\ DOMAIN queuedJobs = 1 .. Len(queuedJobs) /\ Len(queuedJobs) \in Nat
          /\ DOMAIN line = 1 .. Len(queuedJobs) + 1
          /\ \A i \in 1 .. Len(queuedJobs) : line[i] = queuedJobs[i]
          /\ line[Len(queuedJobs) + 1] = r
      BY <1>1, <1>2, AppendProperties, LenProperties DEF ScanTypes, RunInv
    <3>2. pc'[r] = "parked" /\ queuedJobs' = line
      BY <2>2, <1>1 DEF ScanTypes
    <3> HIDE DEF line
    <3> QED BY <3>1, <3>2, <1>1, <1>8, <1>9 DEF LineInv
  <2> QED BY <2>1, <2>2, <1>7
<1>12. RunsInv'
  <2>1. RunInv(r)'
    BY <1>2, <1>8, <1>9 DEF RunInv, HandlerPcs, WorkerPcs, Spawned, Scanning, ScanOver, Lost
  <2>2. ASSUME NEW q \in Requests, q # r PROVE RunInv(q)'
    BY <2>2, <1>1, <1>2, <1>6, <1>8 DEF RunsInv, RunInv
  <2> QED BY <2>1, <2>2 DEF RunsInv
<1>13. JobsInv'
  <2>1. pc'[r] \notin HandlerPcs /\ status'[r] # "none"
    BY <1>8 DEF HandlerPcs, Spawned
  <2>2. ASSUME NEW i \in ScanIds, jobs'[i] # NoJob, i # id
        PROVE  jobs'[i] = jobs[i] /\ jobs[i] \in Requests /\ jobs[i] # r
    <3>1. jobs'[i] = jobs[i] /\ jobs[i] # NoJob /\ jobs[i] \in Requests
      BY <2>2, <1>1, <1>5 DEF ScanTypes
    <3>2. pc[jobs[i]] \notin HandlerPcs
      BY <3>1, <1>1 DEF JobsInv
    <3> QED BY <3>1, <3>2, <1>2 DEF HandlerPcs
  <2> QED BY <2>1, <2>2, <1>1, <1>5, <1>6, <1>8 DEF JobsInv
<1>14. StoreInv'
  BY <1>1, <1>2 DEF StoreInv
<1>15. Keeps
  <2>1. ASSUME NEW q \in Requests, NEW i \in ScanIds, Bears(q, i) PROVE q # r
    BY <2>1, <1>2, <1>9 DEF Bears, HandlerPcs
  <2>2. ASSUME NEW q \in Requests, NEW i \in ScanIds, Bears(q, i)
        PROVE  /\ Bears(q, i)'
               /\ NotLive(q, i) => NotLive(q, i)'
               /\ status[q] # "queued" => status'[q] # "queued"
    <3>1. q # r
      BY <2>1, <2>2
    <3>2. jobs'[i] = q => jobs[i] = q
      BY <3>1, <1>5, RequestsAssumption
    <3> QED BY <2>2, <3>1, <3>2, <1>2, <1>6, <1>8 DEF Bears, NotLive
  <2>3. status[r] = "none" /\ pc[r] \notin {"exited", Lost}
    BY <1>1, <1>2 DEF RunInv, HandlerPcs, Lost
  <2> QED BY <2>2, <2>3, <1>2, <1>8 DEF Keeps
<1> QED BY <1>10, <1>11, <1>12, <1>13, <1>14, <1>15 DEF ScanInv

\* The oldest job of a line is in it, and no more once it is removed.
LEMMA LineAdvances ==
  ASSUME ScanTypes, LineInv, queuedJobs # <<>>
  PROVE  /\ Head(queuedJobs) \in Requests
         /\ pc[Head(queuedJobs)] = "parked"
         /\ Tail(queuedJobs) \in Seq(AsyncRequests)
         /\ \A i, j \in DOMAIN Tail(queuedJobs) :
              Tail(queuedJobs)[i] = Tail(queuedJobs)[j] => i = j
         /\ \A i \in DOMAIN Tail(queuedJobs) :
              /\ Tail(queuedJobs)[i] \in Requests
              /\ pc[Tail(queuedJobs)[i]] = "parked"
              /\ Tail(queuedJobs)[i] # Head(queuedJobs)
<1> DEFINE line == queuedJobs
           rest == Tail(queuedJobs)
<1>1. line \in Seq(AsyncRequests) /\ line # <<>>
  BY DEF ScanTypes
<1>2. /\ rest \in Seq(AsyncRequests)
      /\ Len(rest) = Len(line) - 1
      /\ Head(line) = line[1]
      /\ \A i \in 1 .. Len(rest) : rest[i] = line[i + 1]
  BY <1>1, HeadTailProperties
<1>3. /\ DOMAIN line = 1 .. Len(line)
      /\ DOMAIN rest = 1 .. Len(line) - 1
      /\ Len(line) \in Nat /\ Len(line) # 0
  BY <1>1, <1>2, LenProperties, EmptySeq
<1>4. /\ \A i, j \in 1 .. Len(line) : line[i] = line[j] => i = j
      /\ \A i \in 1 .. Len(line) : pc[line[i]] = "parked" /\ line[i] \in Requests
  BY <1>1, <1>3 DEF LineInv, Requests
<1>5. rest \in Seq(AsyncRequests)
  BY <1>2
<1> HIDE DEF line, rest
<1>6. \A i \in 1 .. Len(line) - 1 : rest[i] = line[i + 1] /\ i + 1 \in 1 .. Len(line)
  BY <1>2, <1>3
<1>7. 1 \in 1 .. Len(line)
  BY <1>3
<1>8. \A i \in 1 .. Len(line) - 1 : i + 1 # 1
  OBVIOUS
<1>9. \A i, j \in 1 .. Len(line) - 1 : i + 1 = j + 1 => i = j
  OBVIOUS
<1>10. /\ Head(line) \in Requests /\ pc[Head(line)] = "parked"
       /\ \A i, j \in DOMAIN rest : rest[i] = rest[j] => i = j
       /\ \A i \in DOMAIN rest :
            rest[i] \in Requests /\ pc[rest[i]] = "parked" /\ rest[i] # Head(line)
  BY <1>2, <1>3, <1>4, <1>6, <1>7, <1>8, <1>9
<1> QED BY <1>5, <1>10 DEF line, rest

\* A job ends and gives its slot to the oldest that waits.
LEMMA DispatchKeeps ==
  ASSUME ScanInv, NEW r \in Requests, FinishJob(r) \/ RecoverJob(r), UNCHANGED storeVars
  PROVE  ScanInv' /\ Keeps
<1>1. ScanTypes /\ RunsInv /\ RunInv(r) /\ StoreInv /\ LineInv /\ JobsInv
  BY DEF ScanInv, RunsInv
<1>2. /\ pc[r] \in ScanOver
      /\ UNCHANGED <<jobs, scanId, now, rows, saved, ended>>
  BY DEF FinishJob, RecoverJob, storeVars, ScanOver
<1>3. PICK end \in Finished :
        /\ DispatchNext(r, end)
        /\ end = "completed" => r \in saved
        /\ end = "failed" => r \notin saved
  <2>1. CASE FinishJob(r) /\ pc[r] = "succeeded"
    BY <2>1, <1>1 DEF FinishJob, RunInv, Finished
  <2>2. CASE FinishJob(r) /\ pc[r] = "erred"
    BY <2>2, <1>1 DEF FinishJob, RunInv, Finished
  <2>3. CASE RecoverJob(r)
    BY <2>3, <1>1 DEF RecoverJob, RunInv, Finished
  <2> QED BY <2>1, <2>2, <2>3 DEF FinishJob
\* What becomes of the others: the jobs in N, at most one, start.
<1>4. PICK N \in SUBSET (Requests \ {r}) :
        /\ \A q \in N : pc[q] = "parked"
        /\ \A q \in Requests \ {r} :
             /\ pc'[q] = IF q \in N THEN Spawned ELSE pc[q]
             /\ status'[q] = IF q \in N THEN "running" ELSE status[q]
        /\ pc'[r] = "exited" /\ status'[r] = end
        /\ pc' \in [Requests -> WorkerPcs \cup HandlerPcs \cup RestingPcs \cup {Lost}]
        /\ status' \in [Requests -> Statuses]
        /\ queuedJobs' \in Seq(AsyncRequests)
        /\ \A i, j \in DOMAIN queuedJobs' : queuedJobs'[i] = queuedJobs'[j] => i = j
        /\ \A i \in DOMAIN queuedJobs' :
             /\ queuedJobs'[i] \in Requests /\ pc[queuedJobs'[i]] = "parked"
             /\ queuedJobs'[i] \notin N
  <2>0. /\ pc \in [Requests -> WorkerPcs \cup HandlerPcs \cup RestingPcs \cup {Lost}]
        /\ status \in [Requests -> Statuses]
        /\ end \in Statuses /\ "running" \in Statuses
        /\ {"exited", Spawned} \subseteq WorkerPcs \cup HandlerPcs \cup RestingPcs \cup {Lost}
    BY <1>1 DEF ScanTypes, Statuses, WorkerPcs, RestingPcs
  <2>1. CASE queuedJobs = <<>>
    <3>1. /\ status' = [status EXCEPT ![r] = end]
          /\ pc' = [pc EXCEPT ![r] = "exited"]
          /\ queuedJobs' = <<>>
      BY <1>3, <2>1 DEF DispatchNext
    <3>2. DOMAIN queuedJobs' = {} /\ queuedJobs' \in Seq(AsyncRequests)
      BY <3>1, EmptySeq
    <3>3. /\ \A q \in Requests \ {r} : pc'[q] = pc[q] /\ status'[q] = status[q]
          /\ pc'[r] = "exited" /\ status'[r] = end
          /\ pc' \in [Requests -> WorkerPcs \cup HandlerPcs \cup RestingPcs \cup {Lost}]
          /\ status' \in [Requests -> Statuses]
      BY <2>0, <3>1
    <3> WITNESS {} \in SUBSET (Requests \ {r})
    <3> QED BY <3>2, <3>3
  <2>2. CASE queuedJobs # <<>>
    <3> DEFINE next == Head(queuedJobs)
    <3>1. /\ status' = [status EXCEPT ![r] = end, ![next] = "running"]
          /\ pc' = [pc EXCEPT ![r] = "exited", ![next] = Spawned]
          /\ queuedJobs' = Tail(queuedJobs)
      BY <1>3, <2>2 DEF DispatchNext
    <3>2. next \in Requests /\ pc[next] = "parked"
      BY <1>1, <2>2, LineAdvances
    <3>3. /\ queuedJobs' \in Seq(AsyncRequests)
          /\ \A i, j \in DOMAIN queuedJobs' : queuedJobs'[i] = queuedJobs'[j] => i = j
          /\ \A i \in DOMAIN queuedJobs' :
               /\ queuedJobs'[i] \in Requests /\ pc[queuedJobs'[i]] = "parked"
               /\ queuedJobs'[i] # next
      BY <1>1, <2>2, <3>1, LineAdvances
    <3> HIDE DEF next
    <3>4. next # r
      BY <1>2, <3>2 DEF ScanOver
    <3>5. /\ \A q \in Requests \ {r, next} : pc'[q] = pc[q] /\ status'[q] = status[q]
          /\ pc'[r] = "exited" /\ status'[r] = end
          /\ pc'[next] = Spawned /\ status'[next] = "running"
          /\ pc' \in [Requests -> WorkerPcs \cup HandlerPcs \cup RestingPcs \cup {Lost}]
          /\ status' \in [Requests -> Statuses]
      BY <2>0, <3>1, <3>2, <3>4
    <3>6. {next} \in SUBSET (Requests \ {r})
      BY <3>2, <3>4
    <3> QED BY <3>6, <3>2, <3>3, <3>4, <3>5
  <2> QED BY <2>1, <2>2
<1>5. ScanTypes'
  BY <1>1, <1>2, <1>4 DEF ScanTypes
<1>6. LineInv'
  BY <1>2, <1>4 DEF LineInv, ScanOver
<1>7. RunsInv'
  <2>1. RunInv(r)'
    BY <1>1, <1>2, <1>3, <1>4 DEF RunInv, HandlerPcs, WorkerPcs, Spawned, Scanning, ScanOver, Lost, Finished
  <2>2. ASSUME NEW q \in N PROVE RunInv(q)'
    <3>1. q \in Requests /\ q # r /\ pc[q] = "parked" /\ pc'[q] = Spawned /\ status'[q] = "running"
      BY <1>4
    <3> QED BY <3>1, <1>1, <1>2 DEF RunsInv, RunInv, HandlerPcs, WorkerPcs, Spawned, Scanning, ScanOver, Lost
  <2>3. ASSUME NEW q \in Requests, q # r, q \notin N PROVE RunInv(q)'
    BY <2>3, <1>1, <1>2, <1>4 DEF RunsInv, RunInv
  <2> QED BY <2>1, <2>2, <2>3 DEF RunsInv
<1>8. JobsInv'
  <2>1. \A q \in Requests : pc[q] \notin HandlerPcs => pc'[q] \notin HandlerPcs
    BY <1>4 DEF HandlerPcs, Spawned
  <2>2. \A q \in Requests : status[q] # "none" => status'[q] # "none"
    BY <1>3, <1>4 DEF Finished
  <2> QED BY <2>1, <2>2, <1>1, <1>2 DEF JobsInv, ScanTypes
<1>9. StoreInv'
  BY <1>1, <1>2 DEF StoreInv
<1>10. Keeps
  <2>1. \A q \in Requests :
          /\ pc[q] \notin HandlerPcs => pc'[q] \notin HandlerPcs
          /\ status[q] = "completed" => status'[q] = "completed"
          /\ status[q] # "queued" => status'[q] # "queued"
    <3>1. status[r] = "running"
      BY <1>1, <1>2 DEF RunInv, WorkerPcs
    <3>2. \A q \in N : status[q] = "queued"
      BY <1>1, <1>4 DEF RunsInv, RunInv
    <3> QED BY <3>1, <3>2, <1>3, <1>4 DEF Finished, HandlerPcs, Spawned
  <2>2. \A q \in Requests : pc[q] \in {"exited", Lost} => pc'[q] = pc[q] /\ status'[q] = status[q]
    BY <1>2, <1>4 DEF ScanOver, Lost
  <2>3. \A q \in Requests, id \in ScanIds :
       Bears(q, id) => Bears(q, id)' /\ (NotLive(q, id) => NotLive(q, id)')
    BY <2>1, <1>2 DEF Bears, NotLive
  <2> QED BY <2>1, <2>2, <2>3, <1>2 DEF Keeps
<1> QED BY <1>5, <1>6, <1>7, <1>8, <1>9, <1>10 DEF ScanInv

\* A synchronous scan is saved, and then a completed job.  The job that had
\* the ID before, if any, is not in the map any more.
LEMMA RecordKeeps ==
  ASSUME ScanInv, NEW r \in Requests, RecordSync(r), r \in saved, UNCHANGED storeVars
  PROVE  ScanInv' /\ Keeps
<1> DEFINE id == scanId[r]
<1>1. ScanTypes /\ RunsInv /\ RunInv(r) /\ StoreInv /\ LineInv /\ JobsInv
  BY DEF ScanInv, RunsInv
<1>2. /\ pc[r] = "inlineDone"
      /\ UNCHANGED <<queuedJobs, scanId, now, rows, saved, ended>>
      /\ status' = [status EXCEPT ![r] = "completed"]
      /\ pc' = [pc EXCEPT ![r] = "replied"]
  BY DEF RecordSync, storeVars
<1>3. id \in ScanIds
  BY <1>1, <1>2 DEF RunInv
<1>4. /\ jobs' \in [ScanIds -> Requests \cup {NoJob}]
      /\ \A i \in ScanIds : i # id => jobs'[i] = jobs[i] \/ jobs'[i] = NoJob
      /\ jobs'[id] = r
  <2>1. PICK D \in PruneChoices : jobs' = Stored(D, id, r)
    BY DEF RecordSync
  <2> QED BY <2>1, <1>1, <1>3, StoredFacts
<1>5. scanId[r] = id
  OBVIOUS
<1> HIDE DEF id
<1>6. /\ \A q \in Requests \ {r} : pc'[q] = pc[q] /\ status'[q] = status[q]
      /\ pc'[r] = "replied" /\ status'[r] = "completed"
  BY <1>1, <1>2 DEF ScanTypes
<1>7. ScanTypes'
  BY <1>1, <1>2, <1>4 DEF ScanTypes, Statuses, Finished, RestingPcs
<1>8. LineInv'
  <2>1. \A i \in DOMAIN queuedJobs : queuedJobs[i] \in Requests /\ queuedJobs[i] # r
    BY <1>1, <1>2 DEF LineInv, ScanTypes, Requests
  <2> QED BY <2>1, <1>1, <1>2, <1>6 DEF LineInv
<1>9. RunsInv'
  <2>1. RunInv(r)'
    BY <1>1, <1>2, <1>6 DEF RunInv, HandlerPcs, WorkerPcs, Spawned, Scanning, ScanOver, Lost
  <2>2. ASSUME NEW q \in Requests, q # r PROVE RunInv(q)'
    BY <2>2, <1>1, <1>2, <1>6 DEF RunsInv, RunInv
  <2> QED BY <2>1, <2>2 DEF RunsInv
<1>10. JobsInv'
  <2>1. "replied" \notin HandlerPcs
    BY DEF HandlerPcs
  <2>2. ASSUME NEW i \in ScanIds, jobs'[i] # NoJob
        PROVE  scanId[jobs'[i]] = i /\ pc'[jobs'[i]] \notin HandlerPcs /\ status'[jobs'[i]] # "none"
    <3>1. CASE i = id
      BY <3>1, <2>1, <1>4, <1>5, <1>6
    <3>2. CASE i # id
      <4>1. jobs'[i] = jobs[i] /\ jobs[i] # NoJob /\ jobs[i] \in Requests
        BY <3>2, <2>2, <1>1, <1>4 DEF ScanTypes
      <4>2. scanId[jobs[i]] = i /\ pc[jobs[i]] \notin HandlerPcs /\ status[jobs[i]] # "none"
        BY <4>1, <1>1 DEF JobsInv
      <4> QED BY <4>1, <4>2, <2>1, <1>6
    <3> QED BY <3>1, <3>2
  <2> QED BY <2>2, <1>2 DEF JobsInv
<1>11. StoreInv'
  BY <1>1, <1>2 DEF StoreInv
<1>12. Keeps
  <2>1. \A q \in Requests :
          /\ pc[q] \notin HandlerPcs => pc'[q] \notin HandlerPcs
          /\ status[q] = "completed" => status'[q] = "completed"
          /\ status[q] # "queued" => status'[q] # "queued"
    BY <1>6 DEF HandlerPcs
  <2>2. \A q \in Requests : pc[q] \in {"exited", Lost} => pc'[q] = pc[q] /\ status'[q] = status[q]
    BY <1>2, <1>6 DEF Lost
  <2>3. ASSUME NEW q \in Requests, NEW i \in ScanIds, Bears(q, i)
        PROVE  Bears(q, i)' /\ (NotLive(q, i) => NotLive(q, i)')
    <3>1. Bears(q, i)'
      BY <2>1, <2>3, <1>2 DEF Bears
    <3>2. ASSUME NotLive(q, i), jobs'[i] = q PROVE status'[q] = "completed"
      <4>1. CASE q = r
        BY <4>1, <1>6
      <4>2. CASE q # r
        BY <4>2, <3>2, <2>1, <1>4, RequestsAssumption DEF NotLive
      <4> QED BY <4>1, <4>2
    <3> QED BY <3>1, <3>2 DEF NotLive
  <2> QED BY <2>1, <2>2, <2>3, <1>2 DEF Keeps
<1> QED BY <1>7, <1>8, <1>9, <1>10, <1>11, <1>12 DEF ScanInv

\* The process ends: the saved scans stay, and what bears an ID bears it on.
LEMMA ExitKeeps ==
  ASSUME ScanInv, Exit
  PROVE  ScanInv' /\ Keeps
<1>1. ScanTypes /\ RunsInv /\ StoreInv /\ LineInv /\ JobsInv
  BY DEF ScanInv
<1>2. /\ queuedJobs' = <<>>
      /\ jobs' = [id \in ScanIds |-> NoJob]
      /\ status' = [r \in Requests |-> "none"]
      /\ pc' = [r \in Requests |-> IF pc[r] = "idle" THEN "idle" ELSE Lost]
      /\ ended' = [r \in Requests |-> IF r \in saved THEN ended[r] ELSE NoScan]
      /\ UNCHANGED <<scanId, now, rows, saved>>
      /\ query' = NoQuery
  BY DEF Exit
<1>3. DOMAIN queuedJobs' = {} /\ queuedJobs' \in Seq(AsyncRequests)
  BY <1>2, EmptySeq
<1>4. /\ \A r \in Requests : status'[r] = "none"
      /\ \A r \in Requests : pc'[r] = IF pc[r] = "idle" THEN "idle" ELSE Lost
      /\ \A r \in Requests : ended'[r] = IF r \in saved THEN ended[r] ELSE NoScan
      /\ \A id \in ScanIds : jobs'[id] = NoJob
  BY <1>2
<1>5. ScanTypes'
  BY <1>1, <1>2, <1>3 DEF ScanTypes, Statuses, HandlerPcs
<1>6. LineInv'
  BY <1>3 DEF LineInv
<1>7. RunsInv'
  <2>1. ASSUME NEW r \in Requests PROVE RunInv(r)'
    <3>1. RunInv(r)
      BY <1>1 DEF RunsInv
    <3> QED BY <3>1, <1>2, <1>4
         DEF RunInv, HandlerPcs, WorkerPcs, Spawned, Scanning, ScanOver, Lost
  <2> QED BY <2>1 DEF RunsInv
<1>8. JobsInv'
  BY <1>4 DEF JobsInv
<1>9. StoreInv'
  BY <1>1, <1>2, <1>4 DEF StoreInv, ScanTypes
<1>10. Keeps
  <2>1. /\ \A r \in saved : r \in saved' /\ ended'[r] = ended[r]
        /\ \A k \in Onions \X Seconds : rows[k] # NoScan => rows'[k] # NoScan
    BY <1>1, <1>2, <1>4 DEF ScanTypes
  <2>2. \A r \in Requests, id \in ScanIds :
          Bears(r, id) => Bears(r, id)' /\ NotLive(r, id)' /\ status'[r] # "queued"
    <3>1. Lost \notin HandlerPcs /\ "idle" \in HandlerPcs
      BY DEF Lost, HandlerPcs
    <3> QED BY <3>1, <2>1, <1>2, <1>4, RequestsAssumption DEF Bears, NotLive
  <2>3. \A r \in Requests : pc[r] \in {"exited", Lost} => pc'[r] = Lost /\ status'[r] = "none"
    BY <1>4 DEF Lost
  <2>4. query'.at = "none"
    BY <1>2 DEF NoQuery
  <2> QED BY <2>1, <2>2, <2>3, <2>4, <1>2 DEF Keeps
<1> QED BY <1>5, <1>6, <1>7, <1>8, <1>9, <1>10 DEF ScanInv

\* A step that leaves the scans alone keeps all that is known of them.
LEMMA IdleKeeps ==
  ASSUME ScanInv, now' \in Seconds,
         UNCHANGED <<queuedJobs, jobs, status, scanId, pc, storeVars>>
  PROVE  ScanInv' /\ Keeps
BY DEF ScanInv, ScanTypes, LineInv, RunsInv, RunInv, JobsInv, StoreInv, Keeps,
       Bears, NotLive, storeVars

-----------------------------------------------------------------------------
(* The client *)

\* A step of the daemon leaves what was answered true, and the GET at hand
\* what it relies on.
LEMMA ClientsKept ==
  ASSUME ServiceInv, Keeps, answer' = answer, query' \in {query, NoQuery}
  PROVE  ClientInv'
<1>1. /\ ScanInv /\ ScanTypes /\ query \in Queries /\ answer \in Answers
      /\ QueryInv /\ AnswerInv /\ AnsweredIfKnown
  BY DEF ServiceInv, ClientInv, ScanInv
<1>2. /\ \A r \in saved : r \in saved' /\ ended'[r] = ended[r]
      /\ \A r \in Requests, id \in ScanIds : Bears(r, id) =>
           /\ Bears(r, id)'
           /\ NotLive(r, id) => NotLive(r, id)'
           /\ status[r] # "queued" => status'[r] # "queued"
      /\ \A r \in Requests :
           pc[r] \in {"exited", Lost} /\ r \notin saved /\ status[r] \in {"failed", "none"}
           => pc'[r] \in {"exited", Lost} /\ r \notin saved' /\ status'[r] \in {"failed", "none"}
      /\ \A r \in Requests :
           query'.at # "none" /\ status[r] = "completed" => status'[r] = "completed"
  BY DEF Keeps
<1>3. NoQuery \in Queries /\ NoQuery.at = "none"
  BY DEF NoQuery, Queries
<1>4. query' \in Queries /\ answer' \in Answers /\ AnsweredIfKnown'
  BY <1>1, <1>3 DEF AnsweredIfKnown
<1>5. QueryInv'
  <2>1. CASE query' = NoQuery
    BY <2>1, <1>3 DEF QueryInv
  <2>2. CASE query' = query
    <3>1. PICK at, id, job, target, todo, known, erred :
            /\ at = query.at /\ id = query.id /\ job = query.job
            /\ target = query.target /\ todo = query.todo
            /\ known = query.known /\ erred = query.erred
      OBVIOUS
    <3>2. /\ at # "none" => id \in ScanIds
          /\ at = "job" => job \in Requests /\ Bears(job, id) /\ status[job] = "completed"
          /\ at = "target" => target \in Onions
      BY <3>1, <1>1 DEF QueryInv
    <3>3. /\ at = "job" => Bears(job, id)' /\ status'[job] = "completed"
      BY <3>1, <3>2, <2>2, <1>2
    <3>4. ASSUME at \in {"target", "targets", "search"}
          PROVE  /\ \E r \in Requests : Bears(r, id)' /\ NotLive(r, id)'
                 /\ known =>
                      \/ at = "search" /\ erred
                      \/ \E r \in saved' :
                           /\ id = <<ended'[r], NoSuffix>>
                           /\ at = "target" => TargetOf[r] = target
                           /\ at = "search" => TargetOf[r] \in todo
      <4>1. \E r \in Requests : Bears(r, id)' /\ NotLive(r, id)'
        <5>1. PICK r \in Requests : Bears(r, id) /\ NotLive(r, id)
          BY <3>1, <3>4, <1>1 DEF QueryInv
        <5>2. Bears(r, id)' /\ NotLive(r, id)'
          BY <5>1, <3>2, <3>4, <1>2
        <5> QED BY <5>2
      <4>2. ASSUME known, ~(at = "search" /\ erred)
            PROVE  \E r \in saved' :
                     /\ id = <<ended'[r], NoSuffix>>
                     /\ at = "target" => TargetOf[r] = target
                     /\ at = "search" => TargetOf[r] \in todo
        <5>1. PICK r \in saved :
                /\ id = <<ended[r], NoSuffix>>
                /\ at = "target" => TargetOf[r] = target
                /\ at = "search" => TargetOf[r] \in todo
          BY <3>1, <3>4, <4>2, <1>1 DEF QueryInv
        <5>2. r \in saved' /\ ended'[r] = ended[r]
          BY <5>1, <1>2
        <5> QED BY <5>1, <5>2
      <4> QED BY <4>1, <4>2
    <3>5. /\ at = query'.at /\ id = query'.id /\ job = query'.job
          /\ target = query'.target /\ todo = query'.todo
          /\ known = query'.known /\ erred = query'.erred
      BY <3>1, <2>2
    <3> QED BY <3>2, <3>3, <3>4, <3>5 DEF QueryInv, Bears, NotLive
  <2> QED BY <2>1, <2>2
<1>7. AnswerInv'
  <2>1. PICK id, kind, r : id = answer.id /\ kind = answer.kind /\ r = answer.scan
    OBVIOUS
  <2>2. StaysTrue(id, kind, r)
    BY <2>1, <1>1 DEF AnswerInv
  <2>3. r \in Requests \cup {NoScan}
    BY <2>1, <1>1 DEF Answers
  <2>4. StaysTrue(id, kind, r)'
    <3>1. CASE r = NoScan
      BY <3>1, <2>2 DEF StaysTrue
    <3>2. CASE r # NoScan
      <4>1. /\ r \in Requests /\ id \in ScanIds /\ Bears(r, id)
            /\ kind \in {"queued", "running", "failed", "completed"}
            /\ kind = "running" => status[r] # "queued"
            /\ kind = "failed" =>
                 pc[r] \in {"exited", Lost} /\ r \notin saved /\ status[r] \in {"failed", "none"}
            /\ kind = "completed" =>
                 /\ r \in saved
                 /\ NotLive(r, id) \/ \E q \in Requests \ {r} : Bears(q, id)
        BY <3>2, <2>2, <2>3 DEF StaysTrue
      <4>2. /\ Bears(r, id)'
            /\ kind = "running" => status'[r] # "queued"
            /\ kind = "failed" =>
                 pc'[r] \in {"exited", Lost} /\ r \notin saved' /\ status'[r] \in {"failed", "none"}
            /\ kind = "completed" => r \in saved'
        BY <4>1, <1>2
      <4>3. kind = "completed" => NotLive(r, id)' \/ \E q \in Requests \ {r} : Bears(q, id)'
        BY <4>1, <1>2
      <4> QED BY <3>2, <4>1, <4>2, <4>3 DEF StaysTrue
    <3> QED BY <3>1, <3>2
  <2> QED BY <2>1, <2>4 DEF AnswerInv
<1> QED BY <1>4, <1>5, <1>7 DEF ClientInv

\* A row that the store returns for an ID is that of a saved scan with this ID.
LEMMA RowBears ==
  ASSUME ScanInv, NEW o \in Onions, NEW id \in ScanIds, GetScan(o, id) # NoScan
  PROVE  /\ GetScan(o, id) \in saved /\ GetScan(o, id) \in Requests
         /\ Bears(GetScan(o, id), id)
<1>1. ScanTypes /\ StoreInv
  BY DEF ScanInv
<1>2. /\ id[2] = NoSuffix
      /\ GetScan(o, id) = rows[<<o, id[1]>>]
      /\ <<o, id[1]>> \in Onions \X Seconds
  BY ScanIdFacts DEF GetScan
<1>3. PICK r : r = rows[<<o, id[1]>>]
  OBVIOUS
<1>4. r \in saved /\ <<o, id[1]>> = <<TargetOf[r], ended[r]>>
  BY <1>1, <1>2, <1>3 DEF StoreInv
<1>5. r \in Requests /\ id = <<ended[r], NoSuffix>>
  BY <1>1, <1>2, <1>4, ScanIdFacts DEF ScanTypes
<1> QED BY <1>2, <1>3, <1>4, <1>5 DEF Bears

\* The store finds some scan of the target under the ID of a saved one.
LEMMA SavedFound ==
  ASSUME ScanInv, NEW r \in saved, NEW id \in ScanIds, id = <<ended[r], NoSuffix>>
  PROVE  TargetOf[r] \in Onions /\ GetScan(TargetOf[r], id) # NoScan
<1>1. ScanTypes /\ StoreInv
  BY DEF ScanInv
<1>2. ended[r] \in Seconds /\ rows[<<TargetOf[r], ended[r]>>] # NoScan
  BY <1>1 DEF StoreInv
<1>3. id[2] = NoSuffix /\ id[1] = ended[r]
  BY ScanIdFacts, <1>2
<1>4. GetScan(TargetOf[r], id) = rows[<<TargetOf[r], ended[r]>>]
  BY <1>3 DEF GetScan
<1> QED BY <1>1, <1>2, <1>4, ServiceAssumption DEF ScanTypes

\* A step of the GET handler leaves the scans alone.
LEMMA AskingKeeps ==
  ASSUME ScanInv, UNCHANGED <<vars, storeVars>>
  PROVE  ScanInv'
BY DEF ScanInv, ScanTypes, LineInv, RunsInv, RunInv, JobsInv, StoreInv, storeVars, vars

\* An answer that is true, and a 404 for a known scan only after an error.
LEMMA AnswerKeeps ==
  ASSUME ServiceInv, NEW q \in Queries, NEW kind \in Kinds, NEW scan \in Requests \cup {NoScan},
         NEW erred \in BOOLEAN, Answer(q, kind, scan, erred),
         StaysTrue(q.id, kind, scan),
         q.known /\ kind = "notfound" => erred
  PROVE  ServiceInv'
<1> DEFINE id == IF scan = NoScan THEN NoId ELSE q.id
           known == q.known /\ kind = "notfound"
           bad == q.known /\ erred /\ kind = "notfound"
<1>1. /\ answer' = [id |-> id, kind |-> kind, scan |-> scan, known |-> known, erred |-> bad]
      /\ query' = NoQuery
      /\ UNCHANGED <<vars, storeVars>>
  BY DEF Answer
<1>2. ScanInv'
  BY <1>1, AskingKeeps DEF ServiceInv
<1>3. query' \in Queries /\ query'.at = "none"
  BY <1>1 DEF NoQuery, Queries
<1>4. QueryInv'
  BY <1>3 DEF QueryInv
<1>5. id \in ScanIds \cup {NoId}
  BY DEF Queries
<1>6. known \in BOOLEAN /\ bad \in BOOLEAN /\ (known => bad)
  OBVIOUS
<1>7. StaysTrue(id, kind, scan)
  BY DEF StaysTrue
<1>8. PICK i : i = id
  OBVIOUS
<1>9. PICK k \in BOOLEAN : k = known
  BY <1>6
<1>10. PICK b \in BOOLEAN : b = bad
  BY <1>6
<1>11. /\ answer' = [id |-> i, kind |-> kind, scan |-> scan, known |-> k, erred |-> b]
       /\ i \in ScanIds \cup {NoId} /\ (k => b) /\ StaysTrue(i, kind, scan)
  BY <1>1, <1>5, <1>6, <1>7, <1>8, <1>9, <1>10
<1> HIDE DEF id, known, bad
<1>12. answer' \in Answers /\ answer'.id = i /\ answer'.kind = kind /\ answer'.scan = scan
  BY <1>11 DEF Answers
<1>13. answer'.known = k /\ answer'.erred = b
  BY <1>11
<1>14. AnsweredIfKnown'
  BY <1>11, <1>13 DEF AnsweredIfKnown
<1>15. StaysTrue(i, kind, scan)'
  BY <1>1, <1>11 DEF StaysTrue, Bears, NotLive, vars, storeVars
<1>16. AnswerInv'
  BY <1>12, <1>15 DEF AnswerInv
<1> QED BY <1>2, <1>3, <1>4, <1>12, <1>14, <1>16 DEF ServiceInv, ClientInv

\* A handler that goes on asking relies on what is true.
LEMMA ContinueKeeps ==
  ASSUME ServiceInv, NEW q \in Queries, Continue(q), q.at # "none" => q.id \in ScanIds,
         q.at = "job" =>
           q.job \in Requests /\ Bears(q.job, q.id) /\ status[q.job] = "completed",
         q.at = "target" => q.target \in Onions,
         q.at \in {"target", "targets", "search"} =>
           /\ \E r \in Requests : Bears(r, q.id) /\ NotLive(r, q.id)
           /\ q.known =>
                \/ q.at = "search" /\ q.erred
                \/ \E r \in saved :
                     /\ q.id = <<ended[r], NoSuffix>>
                     /\ q.at = "target" => TargetOf[r] = q.target
                     /\ q.at = "search" => TargetOf[r] \in q.todo
  PROVE  ServiceInv'
<1>1. query' = q /\ UNCHANGED <<vars, storeVars, answer>>
  BY DEF Continue
<1>2. ScanInv'
  BY <1>1, AskingKeeps DEF ServiceInv
<1>3. UNCHANGED <<jobs, status, scanId, pc, ended, saved, answer>>
  BY <1>1 DEF vars, storeVars
<1>4. AnswerInv' /\ AnsweredIfKnown' /\ answer' \in Answers
  BY <1>3 DEF ServiceInv, ClientInv, AnswerInv, AnsweredIfKnown, StaysTrue, Bears, NotLive
<1>5. QueryInv'
  BY <1>1, <1>3 DEF QueryInv, Bears, NotLive
<1> QED BY <1>1, <1>2, <1>4, <1>5 DEF ServiceInv, ClientInv

\* The fields of a GET whose ID is that of a job, and of one whose is not.
LEMMA FoundFields ==
  ASSUME NEW asked \in Queries, NEW job \in Requests
  PROVE  LET found == [asked EXCEPT !.at = "job", !.job = job] IN
         found \in Queries /\ found.at = "job" /\ found.id = asked.id /\ found.job = job
BY DEF Queries

\* A query whose job has no scan goes on to the store.
LEMMA LostFields ==
  ASSUME NEW asked \in Queries, NEW at \in {"target", "targets"}
  PROVE  LET lost == [asked EXCEPT !.at = at] IN
         /\ lost \in Queries /\ lost.at = at /\ lost.id = asked.id
         /\ lost.target = asked.target /\ lost.known = asked.known
BY DEF Queries

\* What a client may ask for is an ID that a request bears.
LEMMA GivenBears ==
  ASSUME ScanInv, NEW g \in Given
  PROVE  /\ g[1] \in ScanIds /\ g[2] \in Onions \cup {NoTarget}
         /\ \E r \in Requests : Bears(r, g[1])
<1>1. ScanTypes /\ RunsInv
  BY DEF ScanInv
<1>2. PICK r \in Requests : g \in IdsOf(r) \X {TargetOf[r], NoTarget}
  BY DEF Given
<1>3. g[1] \in IdsOf(r) /\ g[2] \in {TargetOf[r], NoTarget}
  BY <1>2
<1>4. /\ g[1] \in ScanIds
      /\ \/ g[1] = scanId[r] /\ status[r] # "none"
         \/ r \in saved /\ g[1] = <<ended[r], NoSuffix>>
  BY <1>3 DEF IdsOf
<1>5. status[r] # "none" => pc[r] \notin HandlerPcs
  BY <1>1 DEF RunsInv, RunInv
<1> QED BY <1>3, <1>4, <1>5, ServiceAssumption DEF Bears

\* The copy of the job.
LEMMA CopyKeeps ==
  ASSUME ServiceInv, NEW g \in Given, CopyJob(g[1], g[2])
  PROVE  ServiceInv'
<1>1. /\ ScanInv /\ ScanTypes /\ RunsInv /\ JobsInv
  BY DEF ServiceInv, ScanInv
<1>2. PICK id \in ScanIds, target \in Onions \cup {NoTarget} : id = g[1] /\ target = g[2]
  BY <1>1, GivenBears
<1>3. PICK w \in Requests : Bears(w, id)
  BY <1>1, <1>2, GivenBears
<1>4. PICK known \in BOOLEAN : known = Known(id, target)
  <2>1. Known(id, target) \in BOOLEAN
    BY DEF Known
  <2> QED BY <2>1
<1> DEFINE job == jobs[id]
           asked == [NoQuery EXCEPT !.id = id, !.target = target, !.known = known]
           found == [asked EXCEPT !.at = "job", !.job = job]
           where == IF target # NoTarget THEN "target" ELSE "targets"
           lost == [asked EXCEPT !.at = where]
<1>5. \/ job # NoJob /\ status[job] # "completed" /\ Answer(asked, status[job], job, FALSE)
      \/ job # NoJob /\ status[job] = "completed" /\ Continue(found)
      \/ job = NoJob /\ Continue(lost)
  BY <1>2, <1>4 DEF CopyJob
<1>6. job # NoJob =>
        /\ job \in Requests /\ Bears(job, id) /\ job # NoScan
        /\ status[job] \in {"queued", "running", "failed", "completed"}
        /\ status[job] = "failed" => pc[job] = "exited" /\ job \notin saved
  BY <1>1, ScanIdFacts DEF JobsInv, ScanTypes, Bears, RunsInv, RunInv, Statuses, Finished
<1>7. where \in {"target", "targets"}
  OBVIOUS
<1>8. /\ asked \in Queries /\ asked.id = id /\ asked.known = known
      /\ lost \in Queries /\ lost.at = where /\ lost.id = id /\ lost.target = target
      /\ lost.known = known
  <2>1. asked \in Queries /\ asked.id = id /\ asked.target = target /\ asked.known = known
    BY DEF NoQuery, Queries
  <2> HIDE DEF asked, where
  <2>2. /\ lost \in Queries /\ lost.at = where /\ lost.id = asked.id
        /\ lost.target = asked.target /\ lost.known = asked.known
    BY <2>1, <1>7, LostFields
  <2> QED BY <2>1, <2>2
<1>9. CASE job # NoJob /\ status[job] # "completed" /\ Answer(asked, status[job], job, FALSE)
  <2>1. StaysTrue(asked.id, status[job], job)
    BY <1>6, <1>8, <1>9 DEF StaysTrue
  <2>2. status[job] \in Kinds /\ status[job] # "notfound" /\ job \in Requests \cup {NoScan}
    BY <1>6, <1>9 DEF Kinds
  <2> HIDE DEF asked, job
  <2> QED BY <1>8, <1>9, <2>1, <2>2, AnswerKeeps
<1>10. CASE job # NoJob /\ status[job] = "completed" /\ Continue(found)
  <2>1. found \in Queries /\ found.at = "job" /\ found.id = id /\ found.job = job
    <3> HIDE DEF asked, job
    <3> QED BY <1>6, <1>8, <1>10, FoundFields
  <2> HIDE DEF found, job
  <2> QED BY <1>6, <1>10, <2>1, ContinueKeeps
<1>11. CASE job = NoJob /\ Continue(lost)
  <2>1. Bears(w, id) /\ NotLive(w, id)
    BY <1>3, <1>11, RequestsAssumption DEF NotLive
  <2>2. known => \E r \in saved : /\ id = <<ended[r], NoSuffix>>
                                  /\ where = "target" => TargetOf[r] = target
    BY <1>4, <1>11 DEF Known
  <2>3. where = "target" => target \in Onions
    OBVIOUS
  <2> HIDE DEF lost, where, job
  <2>5. /\ lost.at = "target" => lost.target \in Onions
        /\ lost.at # "job" /\ lost.at # "search" /\ lost.id \in ScanIds
    BY <1>7, <1>8, <2>3
  <2>6. \E r \in Requests : Bears(r, lost.id) /\ NotLive(r, lost.id)
    BY <1>8, <2>1
  <2>7. lost.known => \E r \in saved : /\ lost.id = <<ended[r], NoSuffix>>
                                       /\ lost.at = "target" => TargetOf[r] = lost.target
    BY <1>8, <2>2
  <2> QED BY <1>8, <1>11, <2>5, <2>6, <2>7, ContinueKeeps
<1> QED BY <1>5, <1>9, <1>10, <1>11

\* The answer to a GET whose job was completed.
LEMMA AnswerJobKeeps ==
  ASSUME ServiceInv, AnswerJob
  PROVE  ServiceInv'
<1>1. ScanInv /\ ScanTypes /\ RunsInv /\ query \in Queries /\ QueryInv
  BY DEF ServiceInv, ScanInv, ClientInv
<1>2. PICK id \in ScanIds, job \in Requests :
        /\ id = query.id /\ job = query.job
        /\ Bears(job, id) /\ status[job] = "completed"
  BY <1>1 DEF QueryInv, AnswerJob
<1>3. PICK row : row = GetScan(TargetOf[job], id)
  OBVIOUS
<1>4. \/ row # NoScan /\ Answer(query, "completed", row, FALSE)
      \/ Answer(query, "completed", job, row # NoScan)
  BY <1>2, <1>3 DEF AnswerJob, Finish
<1>5. "completed" \in Kinds
  BY DEF Kinds
<1>6. CASE row # NoScan /\ Answer(query, "completed", row, FALSE)
  <2>1. row \in Requests /\ row \in saved /\ Bears(row, id)
    BY <1>1, <1>2, <1>3, <1>6, RowBears, ServiceAssumption
  <2>2. NotLive(row, id) \/ \E q \in Requests \ {row} : Bears(q, id)
    BY <1>2 DEF NotLive
  <2>3. StaysTrue(query.id, "completed", row)
    BY <1>2, <1>6, <2>1, <2>2 DEF StaysTrue
  <2> QED BY <1>1, <1>5, <1>6, <2>1, <2>3, AnswerKeeps
<1>7. CASE Answer(query, "completed", job, row # NoScan)
  <2>1. job \in saved
    BY <1>1, <1>2 DEF RunsInv, RunInv
  <2>2. StaysTrue(query.id, "completed", job)
    BY <1>2, <2>1, ScanIdFacts DEF StaysTrue, NotLive
  <2>3. (row # NoScan) \in BOOLEAN
    OBVIOUS
  <2> QED BY <1>1, <1>2, <1>5, <1>7, <2>2, <2>3, AnswerKeeps
<1> QED BY <1>4, <1>6, <1>7

\* What a GET may rely on while it asks the store.
LEMMA Relied ==
  ASSUME ServiceInv, query.at \in {"target", "targets", "search"}
  PROVE  /\ query \in Queries /\ query.id \in ScanIds
         /\ \E r \in Requests : Bears(r, query.id) /\ NotLive(r, query.id)
         /\ query.known =>
              \/ query.at = "search" /\ query.erred
              \/ \E r \in saved :
                   /\ query.id = <<ended[r], NoSuffix>>
                   /\ query.at = "target" => TargetOf[r] = query.target
                   /\ query.at = "search" => TargetOf[r] \in query.todo
BY DEF ServiceInv, ClientInv, QueryInv

\* A row that is found for an ID that some request bears is a true answer.
LEMMA RowAnswers ==
  ASSUME ServiceInv, query.at \in {"target", "search"}, NEW o \in Onions,
         GetScan(o, query.id) # NoScan
  PROVE  /\ StaysTrue(query.id, "completed", GetScan(o, query.id))
         /\ GetScan(o, query.id) \in Requests
<1>1. PICK id \in ScanIds : id = query.id
  BY Relied
<1>2. PICK w \in Requests : Bears(w, id) /\ NotLive(w, id)
  BY <1>1, Relied
<1>3. PICK row : row = GetScan(o, id)
  OBVIOUS
<1>4. row \in saved /\ row \in Requests /\ Bears(row, id) /\ row # NoScan
  BY <1>1, <1>3, RowBears DEF ServiceInv
<1>5. NotLive(row, id) \/ \E q \in Requests \ {row} : Bears(q, id)
  BY <1>2, <1>4
<1> QED BY <1>1, <1>3, <1>4, <1>5 DEF StaysTrue

\* An answer without a scan is true of all of them.
LEMMA NoScanIsTrue ==
  ASSUME NEW id, NEW kind \in {"notfound", "error"}
  PROVE  StaysTrue(id, kind, NoScan)
BY DEF StaysTrue

\* The answer from the scans of the target that was named.
LEMMA AnswerTargetKeeps ==
  ASSUME ServiceInv, AnswerTarget
  PROVE  ServiceInv'
<1>1. query.at = "target" /\ query.target \in Onions /\ query \in Queries
  BY DEF AnswerTarget, ServiceInv, ClientInv, QueryInv
<1>2. PICK row : row = GetScan(query.target, query.id)
  OBVIOUS
<1>3. \/ Answer(query, "error", NoScan, TRUE)
      \/ row # NoScan /\ Answer(query, "completed", row, FALSE)
      \/ row = NoScan /\ Answer(query, "notfound", NoScan, FALSE)
  BY <1>2 DEF AnswerTarget, Finish
<1>4. {"completed", "notfound", "error"} \subseteq Kinds
  BY DEF Kinds
<1>5. CASE Answer(query, "error", NoScan, TRUE)
  BY <1>1, <1>4, <1>5, NoScanIsTrue, AnswerKeeps
<1>6. CASE row # NoScan /\ Answer(query, "completed", row, FALSE)
  <2>1. StaysTrue(query.id, "completed", row) /\ row \in Requests
    BY <1>1, <1>2, <1>6, RowAnswers
  <2> QED BY <1>1, <1>4, <1>6, <2>1, AnswerKeeps
<1>7. CASE row = NoScan /\ Answer(query, "notfound", NoScan, FALSE)
  <2>1. ASSUME query.known PROVE FALSE
    <3>1. PICK r \in saved : query.id = <<ended[r], NoSuffix>> /\ TargetOf[r] = query.target
      BY <1>1, <2>1, Relied
    <3>2. GetScan(TargetOf[r], query.id) # NoScan
      BY <1>1, <3>1, SavedFound, Relied DEF ServiceInv
    <3> QED BY <1>2, <1>7, <3>1, <3>2
  <2> QED BY <1>1, <1>4, <1>7, <2>1, NoScanIsTrue, AnswerKeeps
<1> QED BY <1>3, <1>5, <1>6, <1>7

\* The fields of a GET that lists the targets, and that has asked one.
LEMMA SearchFields ==
  ASSUME NEW q \in Queries, NEW T \in SUBSET Onions
  PROVE  LET s == [q EXCEPT !.at = "search", !.todo = T] IN
         /\ s \in Queries /\ s.at = "search" /\ s.id = q.id /\ s.todo = T
         /\ s.known = q.known
BY DEF Queries

\* A query that has asked one target, with success or not.
LEMMA NextFields ==
  ASSUME NEW q \in Queries, NEW o
  PROVE  LET next == [q EXCEPT !.todo = @ \ {o}]
             failed == [next EXCEPT !.erred = TRUE]
         IN /\ next \in Queries /\ next.at = q.at /\ next.id = q.id
            /\ next.todo = q.todo \ {o} /\ next.known = q.known /\ next.erred = q.erred
            /\ failed \in Queries /\ failed.at = q.at /\ failed.id = q.id
            /\ failed.known = q.known /\ failed.erred
BY DEF Queries

\* The targets to search are those of the scans that are saved by then.
LEMMA ListKeeps ==
  ASSUME ServiceInv, ListTargets
  PROVE  ServiceInv'
<1> DEFINE T == {TargetOf[r] : r \in saved}
           s == [query EXCEPT !.at = "search", !.todo = T]
<1>1. /\ query.at = "targets"
      /\ Continue(s) \/ Answer(query, "notfound", NoScan, TRUE)
  BY DEF ListTargets, Finish
<1>2. query \in Queries /\ saved \in SUBSET Requests
  BY DEF ServiceInv, ClientInv, ScanInv, ScanTypes
<1>3. CASE Answer(query, "notfound", NoScan, TRUE)
  BY <1>2, <1>3, NoScanIsTrue, AnswerKeeps DEF Kinds
<1>4. CASE Continue(s)
  <2>1. T \in SUBSET Onions
    BY <1>2, ServiceAssumption
  <2>2. \A r \in saved : TargetOf[r] \in T
    OBVIOUS
  <2> HIDE DEF T
  <2>3. /\ s \in Queries /\ s.at = "search" /\ s.id = query.id /\ s.todo = T
        /\ s.known = query.known
    BY <1>2, <2>1, SearchFields
  <2> HIDE DEF s
  <2>4. \E r \in Requests : Bears(r, s.id) /\ NotLive(r, s.id)
    BY <1>1, <2>3, Relied
  <2>5. s.known => \E r \in saved : s.id = <<ended[r], NoSuffix>> /\ TargetOf[r] \in s.todo
    BY <1>1, <2>2, <2>3, Relied
  <2>6. s.id \in ScanIds
    BY <1>1, <2>3, Relied
  <2> QED BY <1>4, <2>3, <2>4, <2>5, <2>6, ContinueKeeps
<1> QED BY <1>1, <1>3, <1>4

\* One target is asked, and passed over if that fails.
LEMMA SearchKeeps ==
  ASSUME ServiceInv, SearchTarget
  PROVE  ServiceInv'
<1>1. query.at = "search" /\ query \in Queries
  BY DEF SearchTarget, ServiceInv, ClientInv
<1>2. PICK o \in query.todo :
        \/ /\ GetScan(o, query.id) # NoScan
           /\ Answer(query, "completed", GetScan(o, query.id), query.erred)
        \/ GetScan(o, query.id) = NoScan /\ Continue([query EXCEPT !.todo = @ \ {o}])
        \/ Continue([[query EXCEPT !.todo = @ \ {o}] EXCEPT !.erred = TRUE])
  BY DEF SearchTarget, Finish
<1>3. o \in Onions
  BY <1>1, <1>2 DEF Queries
<1> DEFINE next == [query EXCEPT !.todo = @ \ {o}]
           failed == [next EXCEPT !.erred = TRUE]
<1>4. /\ next \in Queries /\ next.at = query.at /\ next.id = query.id
      /\ next.todo = query.todo \ {o} /\ next.known = query.known /\ next.erred = query.erred
      /\ failed \in Queries /\ failed.at = query.at /\ failed.id = query.id
      /\ failed.known = query.known /\ failed.erred
  BY <1>1, NextFields
<1>5. CASE /\ GetScan(o, query.id) # NoScan
           /\ Answer(query, "completed", GetScan(o, query.id), query.erred)
  <2>1. PICK row : row = GetScan(o, query.id)
    OBVIOUS
  <2>2. StaysTrue(query.id, "completed", row) /\ row \in Requests
    BY <1>1, <1>3, <1>5, <2>1, RowAnswers
  <2>3. query.erred \in BOOLEAN /\ "completed" \in Kinds
    BY <1>1 DEF Queries, Kinds
  <2> QED BY <1>1, <1>5, <2>1, <2>2, <2>3, AnswerKeeps
<1>6. CASE GetScan(o, query.id) = NoScan /\ Continue(next)
  <2> HIDE DEF next
  <2>1. \E r \in Requests : Bears(r, next.id) /\ NotLive(r, next.id)
    BY <1>1, <1>4, Relied
  <2>2. ASSUME next.known, ~next.erred
        PROVE  \E r \in saved : next.id = <<ended[r], NoSuffix>> /\ TargetOf[r] \in next.todo
    <3>1. PICK r \in saved : query.id = <<ended[r], NoSuffix>> /\ TargetOf[r] \in query.todo
      BY <1>1, <1>4, <2>2, Relied
    <3>2. GetScan(TargetOf[r], query.id) # NoScan
      BY <1>1, <3>1, SavedFound, Relied DEF ServiceInv
    <3> QED BY <1>4, <1>6, <3>1, <3>2
  <2>3. next.id \in ScanIds
    BY <1>1, <1>4, Relied
  <2> QED BY <1>1, <1>4, <1>6, <2>1, <2>2, <2>3, ContinueKeeps
<1>7. CASE Continue(failed)
  <2> HIDE DEF failed
  <2>1. \E r \in Requests : Bears(r, failed.id) /\ NotLive(r, failed.id)
    BY <1>1, <1>4, Relied
  <2>2. failed.id \in ScanIds
    BY <1>1, <1>4, Relied
  <2> QED BY <1>1, <1>4, <1>7, <2>1, <2>2, ContinueKeeps
<1> QED BY <1>2, <1>5, <1>6, <1>7

\* All targets were asked.
LEMMA SearchEndKeeps ==
  ASSUME ServiceInv, SearchEnds
  PROVE  ServiceInv'
<1>1. /\ query.at = "search" /\ query.todo = {}
      /\ Answer(query, "notfound", NoScan, query.erred)
  BY DEF SearchEnds, Finish
<1>2. query.known => query.erred
  BY <1>1, Relied
<1>3. query \in Queries /\ query.erred \in BOOLEAN /\ "notfound" \in Kinds
  BY DEF ServiceInv, ClientInv, Queries, Kinds
<1> QED BY <1>1, <1>2, <1>3, NoScanIsTrue, AnswerKeeps

-----------------------------------------------------------------------------
(* The invariant is inductive *)

\* A server that has just started is in the invariant.
LEMMA ServiceInvInit == ServiceInit => ServiceInv
<1> SUFFICES ASSUME ServiceInit PROVE ServiceInv
  OBVIOUS
<1>1. /\ queuedJobs = <<>>
      /\ jobs = [id \in ScanIds |-> NoJob]
      /\ status = [r \in Requests |-> "none"]
      /\ scanId = [r \in Requests |-> NoId]
      /\ pc = [r \in Requests |-> "idle"]
      /\ now = 0
      /\ rows = [k \in Onions \X Seconds |-> NoScan]
      /\ ended = [r \in Requests |-> NoScan]
      /\ saved = {}
      /\ query = NoQuery
      /\ answer = NoAnswer
  BY DEF ServiceInit, Init
<1>2. DOMAIN queuedJobs = {} /\ queuedJobs \in Seq(AsyncRequests)
  BY <1>1, EmptySeq
<1>3. ScanTypes
  BY <1>1, <1>2, ScanIdsAssumption DEF ScanTypes, Statuses, HandlerPcs, Seconds
<1>4. LineInv /\ JobsInv /\ StoreInv
  BY <1>1, <1>2 DEF LineInv, JobsInv, StoreInv
<1>5. RunsInv
  BY <1>1 DEF RunsInv, RunInv, HandlerPcs, WorkerPcs, Spawned, Scanning, ScanOver, Lost
<1>6. query \in Queries /\ query.at = "none" /\ answer \in Answers
  BY <1>1 DEF NoQuery, NoAnswer, Queries, Answers, Kinds
<1>7. QueryInv
  BY <1>6 DEF QueryInv
<1>8. answer.kind = "none" /\ answer.scan = NoScan
  BY <1>1 DEF NoAnswer
<1>9. AnswerInv /\ AnsweredIfKnown
  BY <1>8 DEF AnswerInv, AnsweredIfKnown, StaysTrue
<1> QED BY <1>3, <1>4, <1>5, <1>6, <1>7, <1>9 DEF ServiceInv, ScanInv, ClientInv

\* Every step of the daemon keeps what is true of the scans.
DaemonStep ==
  \/ ClockTicks
  \/ \E r \in Requests :
       \/ Receive(r) \/ Proceed(r) \/ Reply(r)
       \/ EndScan(r) \/ EndSyncScan(r) \/ SaveScan(r) \/ ReturnToWorker(r)
  \/ Signal \/ Exit \/ Restart

\* The steps of the daemon keep the scans' half of the invariant and give no answers.
LEMMA DaemonKeeps ==
  ASSUME ScanInv, DaemonStep
  PROVE  /\ ScanInv' /\ Keeps
         /\ answer' = answer /\ query' \in {query, NoQuery}
<1>1. CASE ClockTicks
  <2>1. /\ UNCHANGED <<queuedJobs, jobs, status, scanId, pc, storeVars, query, answer>>
        /\ now < MaxSecond /\ now' = now + 1
    BY <1>1 DEF ClockTicks, Tick, serverVars, clientVars
  <2>2. now' \in Seconds
    BY <2>1, ScanIdsAssumption DEF ScanInv, ScanTypes, Seconds
  <2> QED BY <2>1, <2>2, IdleKeeps
<1>2. ASSUME NEW r \in Requests, Receive(r)
      PROVE  ScanInv' /\ Keeps /\ UNCHANGED <<query, answer>>
  BY <1>2, ReceiveKeeps DEF Receive, clientVars
<1>3. ASSUME NEW r \in Requests, Proceed(r)
      PROVE  ScanInv' /\ Keeps /\ UNCHANGED <<query, answer>>
  <2>1. UNCHANGED <<storeVars, query, answer>>
    BY <1>3 DEF Proceed, clientVars
  <2>2. CASE Refuse(r) \/ BeginScan(r)
    <3>1. pc'[r] \in {"refused", Scanning}
      BY <2>2 DEF Refuse, BeginScan, ScanInv, ScanTypes
    <3> QED BY <2>1, <2>2, <3>1, MoveKeeps DEF Scanning
  <2>3. CASE Enqueue(r)
    BY <2>1, <2>3, EnqueueKeeps
  <2>4. CASE FinishJob(r) \/ RecoverJob(r)
    BY <2>1, <2>4, DispatchKeeps
  <2> QED BY <1>3, <2>2, <2>3, <2>4 DEF Proceed
<1>4. ASSUME NEW r \in Requests, Reply(r)
      PROVE  ScanInv' /\ Keeps /\ UNCHANGED <<query, answer>>
  <2>1. UNCHANGED <<storeVars, query, answer>>
    BY <1>4 DEF Reply, clientVars
  <2>2. CASE SyncScanFails(r)
    <3>1. pc'[r] = "replied"
      BY <2>2 DEF SyncScanFails, ScanInv, ScanTypes
    <3> QED BY <2>1, <2>2, <3>1, MoveKeeps
  <2>3. CASE r \in saved /\ RecordSync(r)
    BY <2>1, <2>3, RecordKeeps
  <2> QED BY <1>4, <2>2, <2>3 DEF Reply
<1>5. ASSUME NEW r \in Requests, EndScan(r) \/ EndSyncScan(r)
      PROVE  ScanInv' /\ Keeps /\ UNCHANGED <<query, answer>>
  BY <1>5, EndKeeps DEF EndScan, EndSyncScan, clientVars
<1>6. ASSUME NEW r \in Requests, SaveScan(r)
      PROVE  ScanInv' /\ Keeps /\ UNCHANGED <<query, answer>>
  BY <1>6, SaveKeeps DEF SaveScan, clientVars
<1>7. ASSUME NEW r \in Requests, ReturnToWorker(r)
      PROVE  ScanInv' /\ Keeps /\ UNCHANGED <<query, answer>>
  <2>1. /\ ScanReturns(r) /\ UNCHANGED <<storeVars, query, answer>>
        /\ pc'[r] = "succeeded" <=> r \in saved
    BY <1>7 DEF ReturnToWorker, clientVars
  <2> QED BY <2>1, MoveKeeps
<1>8. CASE Signal \/ Restart
  <2>1. UNCHANGED <<queuedJobs, jobs, status, scanId, pc, now, storeVars, query, answer>>
    BY <1>8 DEF Signal, Restart, vars, clientVars
  <2> QED BY <2>1, IdleKeeps DEF ScanInv, ScanTypes
<1>9. CASE Exit
  BY <1>9, ExitKeeps DEF Exit
<1> QED BY <1>1, <1>2, <1>3, <1>4, <1>5, <1>6, <1>7, <1>8, <1>9 DEF DaemonStep

\* Every step of the GET handler keeps the invariant.
HandlerStep ==
  \/ \E g \in Given : CopyJob(g[1], g[2])
  \/ AnswerJob \/ AnswerTarget \/ ListTargets \/ SearchTarget \/ SearchEnds

\* A step is one of the daemon or one of a handler of a GET.
LEMMA ServiceStepKinds == ServiceNext => DaemonStep \/ HandlerStep
BY DEF ServiceNext, DaemonStep, HandlerStep

\* Each step keeps the invariant.
LEMMA ServiceInvStep == ServiceInv /\ [ServiceNext]_serviceVars => ServiceInv'
<1> SUFFICES ASSUME ServiceInv, [ServiceNext]_serviceVars PROVE ServiceInv'
  OBVIOUS
<1>1. CASE DaemonStep
  BY <1>1, DaemonKeeps, ClientsKept DEF ServiceInv
<1>2. CASE HandlerStep
  BY <1>2, CopyKeeps, AnswerJobKeeps, AnswerTargetKeeps, ListKeeps, SearchKeeps,
     SearchEndKeeps DEF HandlerStep
<1>3. CASE UNCHANGED serviceVars
  <2>1. /\ UNCHANGED <<queuedJobs, jobs, status, scanId, pc, now, storeVars>>
        /\ UNCHANGED <<query, answer>>
    BY <1>3 DEF serviceVars, vars, clientVars
  <2>2. ScanInv' /\ Keeps
    BY <2>1, IdleKeeps DEF ServiceInv, ScanInv, ScanTypes
  <2> QED BY <2>1, <2>2, ClientsKept DEF ServiceInv
<1> QED BY <1>1, <1>2, <1>3, ServiceStepKinds

\* The invariant holds throughout.
LEMMA ServiceInvHolds == ServiceSpec => []ServiceInv
BY ServiceInvInit, ServiceInvStep, PTL DEF ServiceSpec

-----------------------------------------------------------------------------
(* The queue over restarts *)

\* What is true of the queue and of the job map.
ServerInv == QueueInv /\ MapInv /\ JobMapBounded

\* The service takes the steps of the queue, until the process ends.
LEMMA ServiceTakesQueueSteps == [ServiceNext]_serviceVars => [Next]_vars \/ Exit
<1>1. ASSUME NEW r \in Requests,
             \/ Receive(r) \/ Proceed(r) \/ Reply(r)
             \/ EndScan(r) \/ EndSyncScan(r) \/ SaveScan(r) \/ ReturnToWorker(r)
      PROVE  [Next]_vars
  BY <1>1 DEF Receive, Proceed, Reply, EndScan, EndSyncScan, SaveScan, ReturnToWorker,
              Next, AsyncHandler, Worker, SyncHandler
<1>2. Signal \/ Restart => UNCHANGED vars
  BY DEF Signal, Restart
<1>3. ClockTicks => Next
  BY DEF ClockTicks, Next
<1>4. HandlerStep => UNCHANGED vars
  BY DEF HandlerStep, CopyJob, AnswerJob, AnswerTarget, ListTargets, SearchTarget,
         SearchEnds, Finish, Answer, Continue
<1>5. UNCHANGED serviceVars => UNCHANGED vars
  BY DEF serviceVars
<1> QED BY <1>1, <1>2, <1>3, <1>4, <1>5, ServiceStepKinds DEF DaemonStep

\* A process that ends leaves no worker, no slot in use and no waiting job.
LEMMA ExitServerInv ==
  ASSUME ServerInv, Exit
  PROVE  ServerInv'
<1>1. /\ activeScans' = 0 /\ queuedJobs' = <<>> /\ arrivals' = <<>>
      /\ jobs' = [id \in ScanIds |-> NoJob]
      /\ status' = [r \in Requests |-> "none"]
      /\ pc' = [r \in Requests |-> IF pc[r] = "idle" THEN "idle" ELSE Lost]
      /\ UNCHANGED <<scanId, now>>
  BY DEF Exit
<1>2. QueueTypes'
  BY <1>1, EmptySeq DEF ServerInv, QueueInv, QueueTypes, Statuses, HandlerPcs
<1>3. Workers' = {}
  BY <1>1 DEF Workers, WorkerPcs, Spawned, Scanning, ScanOver, Lost, Requests
<1>4. SlotsBackedByWorkers'
  BY <1>1, <1>3, FS_EmptySet, LimitsPositive DEF SlotsBackedByWorkers
<1>5. QueueHoldsTheWaiting'
  <2>1. IsInjective(queuedJobs') /\ Range(queuedJobs') = {}
    BY <1>1 DEF IsInjective, Range
  <2>2. Len(queuedJobs') = 0
    BY <1>1, EmptySeq
  <2> QED BY <1>1, <2>1, <2>2, LimitsPositive DEF QueueHoldsTheWaiting, Requests
<1>6. HandlersInv' /\ StatusFollowsWorker' /\ WorkConserving'
  BY <1>1 DEF HandlersInv, StatusFollowsWorker, WorkConserving, Requests, WorkerPcs,
              Spawned, Scanning, ScanOver, Finished, Lost
<1>7. Tracked' = {}
  BY <1>1 DEF Tracked
<1>8. MapInv'
  BY <1>1, <1>7 DEF MapInv, KeysMatchIds, Requests
<1>9. JobMapBounded'
  BY <1>7, FS_EmptySet, LimitsPositive, LimitsAssumption DEF JobMapBounded
<1> QED BY <1>2, <1>4, <1>5, <1>6, <1>8, <1>9 DEF ServerInv, QueueInv

\* The invariant of the queue holds throughout the life of the service.
LEMMA ServerInvHolds == ServiceSpec => []ServerInv
<1>1. ServiceInit => ServerInv
  <2> SUFFICES ASSUME ServiceInit PROVE ServerInv
    OBVIOUS
  <2>1. Init
    BY DEF ServiceInit
  <2>2. Tracked = {}
    BY <2>1 DEF Init, Tracked
  <2>3. JobMapBounded
    BY <2>2, FS_EmptySet, LimitsPositive, LimitsAssumption DEF JobMapBounded
  <2> QED BY <2>1, <2>3, InitQueueInv, InitMapInv DEF ServerInv
<1>2. ServerInv /\ [ServiceNext]_serviceVars => ServerInv'
  <2>1. ServerInv /\ [Next]_vars => ServerInv'
    BY NextQueueInv, NextMapInv, NextJobMapBounded DEF ServerInv
  <2> QED BY <2>1, ExitServerInv, ServiceTakesQueueSteps
<1> QED BY <1>1, <1>2, PTL DEF ServiceSpec

\* What holds of the queue and the job map holds of a service that is told to
\* stop, killed and started again any number of times: a daemon that comes up
\* again leaks no slot to the workers of the one before, has no job waiting
\* that nobody will start, and reports no status that is not so.
THEOREM QueueSoundOverRestarts ==
  ServiceSpec => [](/\ SlotsBackedByWorkers /\ WorkConserving
                    /\ QueueHoldsTheWaiting /\ StatusFollowsWorker
                    /\ KeysMatchIds /\ JobMapBounded)
<1>1. ServerInv => /\ SlotsBackedByWorkers /\ WorkConserving
                   /\ QueueHoldsTheWaiting /\ StatusFollowsWorker
                   /\ KeysMatchIds /\ JobMapBounded
  BY DEF ServerInv, QueueInv, MapInv
<1> QED BY <1>1, ServerInvHolds, PTL

\* In a service that is stopped and started again, too, a request gets a 429
\* only when every slot runs a scan and the queue is full.
THEOREM RefusalJustifiedOverRestarts == ServiceSpec => RefusedOnlyWhenSaturated
<1>1. ASSUME ServerInv, [ServiceNext]_serviceVars, NEW r \in Requests,
             pc[r] # "refused", pc'[r] = "refused"
      PROVE  /\ Cardinality(Workers) = maxConcurrent
             /\ Len(queuedJobs) = maxQueue
  <2>1. CASE [Next]_vars
    BY <1>1, <2>1, RefusedStep DEF ServerInv
  <2>2. CASE Exit
    <3>1. pc'[r] \in {"idle", Lost}
      BY <2>2 DEF Exit
    <3> QED BY <1>1, <3>1 DEF Lost
  <2> QED BY <1>1, <2>1, <2>2, ServiceTakesQueueSteps
<1>2. ServerInv /\ [ServiceNext]_serviceVars
        => [\A r \in Requests :
              pc[r] # "refused" /\ pc'[r] = "refused" =>
                /\ Cardinality(Workers) = maxConcurrent
                /\ Len(queuedJobs) = maxQueue]_vars
  BY <1>1
<1> QED BY <1>2, ServerInvHolds, PTL DEF ServiceSpec, RefusedOnlyWhenSaturated

-----------------------------------------------------------------------------
(* What the runs check *)

\* What the server knew when a GET of scans/{id} began is not answered with
\* 404 unless a query fails: whatever handleGetScan copies of the job map, a
\* job that is pruned, a row that is replaced and a scan that is saved while
\* it asks the store leave it something to find.
THEOREM KnownScansAreAnswered == ServiceSpec => []AnsweredIfKnown
<1>1. ServiceInv => AnsweredIfKnown
  BY DEF ServiceInv, ClientInv
<1> QED BY <1>1, ServiceInvHolds, PTL

\* A scan that a client saw completed was saved, and survives the process.
THEOREM CompletedScansAreSaved == ServiceSpec => []CompletedWasSaved
<1>1. ServiceInv => CompletedWasSaved
  BY DEF ServiceInv, ClientInv, AnswerInv, StaysTrue, CompletedWasSaved
<1> QED BY <1>1, ServiceInvHolds, PTL

\* A GET answers with a scan that bears the ID that was asked for.
THEOREM AnswersBearTheirId == ServiceSpec => []AnswerBearsId
<1>1. ServiceInv => AnswerBearsId
  BY DEF ServiceInv, ClientInv, AnswerInv, StaysTrue, AnswerBearsId, Bears, Bearers, Answers
<1> QED BY <1>1, ServiceInvHolds, PTL

\* What an answer says, and of what.
LEMMA AnswerFields ==
  ASSUME NEW q, NEW kind, NEW scan, NEW erred, Answer(q, kind, scan, erred)
  PROVE  /\ answer'.kind = kind /\ answer'.scan = scan
         /\ scan # NoScan => answer'.id = q.id
         /\ UNCHANGED <<vars, storeVars>>
BY DEF Answer

\* A handler answers with a completed scan or with the status of the job that
\* is in the map under the ID, or it does not answer yet.
LEMMA AnswerKinds ==
  ASSUME ServiceInv, HandlerStep
  PROVE  /\ UNCHANGED <<vars, storeVars>>
         /\ \/ answer' = answer
            \/ answer'.scan = NoScan
            \/ answer'.kind = "completed"
            \/ /\ answer'.kind = status[answer'.scan]
               /\ jobs[answer'.id] = answer'.scan
<1>1. ASSUME NEW q, Continue(q)
      PROVE  UNCHANGED <<vars, storeVars>> /\ answer' = answer
  BY <1>1 DEF Continue
<1>2. ASSUME NEW kind \in {"notfound", "error"}, NEW erred, Answer(query, kind, NoScan, erred)
      PROVE  UNCHANGED <<vars, storeVars>> /\ answer'.scan = NoScan
  BY <1>2, AnswerFields
<1>3. ASSUME NEW scan, NEW erred, Answer(query, "completed", scan, erred)
      PROVE  UNCHANGED <<vars, storeVars>> /\ answer'.kind = "completed"
  BY <1>3, AnswerFields
<1>4. ASSUME NEW g \in Given, CopyJob(g[1], g[2])
      PROVE  /\ UNCHANGED <<vars, storeVars>>
             /\ \/ answer' = answer
                \/ /\ answer'.kind = status[answer'.scan]
                   /\ jobs[answer'.id] = answer'.scan
  <2> DEFINE asked == [NoQuery EXCEPT !.id = g[1], !.target = g[2], !.known = Known(g[1], g[2])]
             job == jobs[g[1]]
  <2>1. \/ \E q : Continue(q)
        \/ job # NoJob /\ Answer(asked, status[job], job, FALSE)
    BY <1>4 DEF CopyJob
  <2>2. asked.id = g[1]
    BY DEF NoQuery
  <2>3. job # NoJob => job # NoScan
    BY GivenBears, ScanIdFacts DEF ServiceInv, ScanInv, ScanTypes
  <2> HIDE DEF asked
  <2>4. CASE job # NoJob /\ Answer(asked, status[job], job, FALSE)
    <3>1. answer'.kind = status[job] /\ answer'.scan = job /\ answer'.id = asked.id
      BY <2>3, <2>4, AnswerFields
    <3>2. UNCHANGED <<vars, storeVars>>
      BY <2>4, AnswerFields
    <3> QED BY <2>2, <3>1, <3>2
  <2> QED BY <1>1, <2>1, <2>4
<1>5. CASE AnswerJob
  BY <1>3, <1>5 DEF AnswerJob, Finish
<1>6. CASE AnswerTarget
  BY <1>2, <1>3, <1>6 DEF AnswerTarget, Finish
<1>7. CASE ListTargets
  BY <1>1, <1>2, <1>7 DEF ListTargets, Finish
<1>8. CASE SearchTarget
  BY <1>1, <1>3, <1>8 DEF SearchTarget, Finish
<1>9. CASE SearchEnds
  BY <1>2, <1>9 DEF SearchEnds, Finish
<1> QED BY <1>4, <1>5, <1>6, <1>7, <1>8, <1>9 DEF HandlerStep

\* Two requests that bear an ID alone are one.
LEMMA OneBearer ==
  ASSUME NEW id, Cardinality(Bearers(id)) = 1, NEW q \in Bearers(id), NEW r \in Bearers(id)
  PROVE  q = r
<1>1. IsFiniteSet(Requests)
  BY RequestsAssumption, FS_Union DEF Requests
<1>2. IsFiniteSet(Bearers(id))
  BY <1>1, FS_Subset DEF Bearers
<1> QED BY <1>2, FS_Singleton

\* What one step may do to what a client sees of an ID.
PollAdvances ==
  answer.scan # NoScan /\ answer'.id = answer.id /\ answer'.scan # NoScan
    /\ Cardinality(Bearers(answer.id)') = 1
  => /\ answer'.scan = answer.scan
     /\ Rank[answer.kind] <= Rank[answer'.kind]
     /\ answer.kind \in Finished => answer'.kind = answer.kind

\* A step that answers anew answers with what is no earlier.
LEMMA PollStep == ServiceInv /\ ServiceInv' /\ [ServiceNext]_serviceVars => PollAdvances
<1> SUFFICES ASSUME ServiceInv, ServiceInv', [ServiceNext]_serviceVars,
                    answer.scan # NoScan, answer'.id = answer.id, answer'.scan # NoScan,
                    Cardinality(Bearers(answer.id)') = 1
             PROVE  /\ answer'.scan = answer.scan
                    /\ Rank[answer.kind] <= Rank[answer'.kind]
                    /\ answer.kind \in Finished => answer'.kind = answer.kind
  BY DEF PollAdvances
<1> DEFINE Live == {"queued", "running", "failed", "completed"}
<1>0. \A k \in Live : Rank[k] \in Nat
  BY DEF Rank, Kinds, Finished
<1>1. PICK id, old, new, r, s : /\ id = answer.id /\ old = answer.kind /\ new = answer'.kind
                                /\ r = answer.scan /\ s = answer'.scan
  OBVIOUS
<1>2. /\ StaysTrue(id, old, r) /\ r \in Requests
      /\ StaysTrue(id, new, s)' /\ s \in Requests
  BY <1>1 DEF ServiceInv, ClientInv, AnswerInv, Answers
<1>3. /\ id \in ScanIds /\ Bears(r, id) /\ old \in Live /\ new \in Live
  BY <1>1, <1>2 DEF StaysTrue
<1>4. CASE answer' = answer
  BY <1>0, <1>1, <1>3, <1>4
<1>5. CASE answer' # answer
  <2>1. /\ UNCHANGED <<vars, storeVars>>
        /\ \/ new = "completed"
           \/ new = status[s] /\ jobs[id] = s
    <3>1. HandlerStep
      BY <1>5, ServiceStepKinds, DaemonKeeps DEF ServiceInv, serviceVars, clientVars
    <3> QED BY <1>1, <1>5, <3>1, AnswerKinds
  <2>2. UNCHANGED <<jobs, status, scanId, pc, ended, saved>>
    BY <2>1 DEF vars, storeVars
  <2>3. StaysTrue(id, new, s)
    BY <1>2, <2>2 DEF StaysTrue, Bears, NotLive
  <2>4. Bearers(id)' = Bearers(id)
    BY <2>2 DEF Bearers
  <2>5. Cardinality(Bearers(id)) = 1
    BY <1>1, <2>4
  <2>6. \A q \in Requests : Bears(q, id) => q \in Bearers(id)
    BY DEF Bears, Bearers
  <2>7. Bears(s, id)
    BY <1>1, <2>3 DEF StaysTrue
  <2>8. s = r
    BY <1>2, <1>3, <2>5, <2>6, <2>7, OneBearer
  <2>9. \A q \in Requests : Bears(q, id) => q = r
    BY <1>2, <1>3, <2>5, <2>6, OneBearer
  <2>10. old = "completed" => new = "completed"
    BY <1>1, <1>2, <2>1, <2>8, <2>9 DEF StaysTrue, NotLive
  <2>11. old = "failed" => new = "failed"
    BY <1>1, <1>2, <1>3, <2>1, <2>3, <2>8 DEF StaysTrue
  <2>12. old = "running" => new # "queued"
    BY <1>1, <1>2, <2>1, <2>8 DEF StaysTrue
  <2>13. /\ Rank["queued"] = 1 /\ Rank["running"] = 2
         /\ Rank["failed"] = 3 /\ Rank["completed"] = 3
    BY DEF Rank, Kinds, Finished
  <2>14. Rank[old] <= Rank[new]
    BY <1>3, <2>10, <2>11, <2>12, <2>13
  <2>15. old \in Finished => new = old
    BY <2>10, <2>11 DEF Finished
  <2> QED BY <1>1, <2>8, <2>14, <2>15
<1> QED BY <1>4, <1>5

\* Two polls of an ID in a row: what a client sees of its scan only advances,
\* and what is final stays, over any number of prunings and restarts, as long
\* as the ID is borne by that scan alone.
THEOREM PollsAdvance == ServiceSpec => PollsOnlyAdvance
<1>1. ServiceInv /\ ServiceInv' /\ [ServiceNext]_serviceVars => [PollAdvances]_serviceVars
  BY PollStep
<1> QED BY <1>1, ServiceInvHolds, PTL DEF ServiceSpec, PollsOnlyAdvance, PollAdvances

=============================================================================
