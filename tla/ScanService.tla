----------------------------- MODULE ScanService -----------------------------
(***************************************************************************)
(* The daemon as its clients see it: the scan queue of ScanQueue, the      *)
(* scans table its scans are saved in (internal/storage/sqlite.go), the    *)
(* handler of GET /v1/scans/{id} (internal/api/server.go), which reads the *)
(* job map and then the store, and the process around them                 *)
(* (cmd/onionsecd/main.go), which may be told to stop or killed at any     *)
(* time and started again.  The job map dies with the process, the store   *)
(* does not.                                                               *)
(***************************************************************************)
EXTENDS ScanQueue

CONSTANTS
  Onions,     \* targets
  TargetOf,   \* request -> the onion it asks to scan
  NoTarget,   \* a GET without "?target="
  NoScan      \* no row, no entry, no second

ASSUME ServiceAssumption ==
  /\ TargetOf \in [Requests -> Onions]
  /\ NoTarget \notin Onions
  /\ NoScan \notin Requests \cup Seconds

VARIABLES
  daemon,  \* "up", "draining" in Shutdown, or "down"
  rows,    \* (onion, second) -> the request whose ScanResult the row holds
  ended,   \* request -> the second of its result's EndedAt
  saved,   \* the requests whose Save was committed
  query,   \* the GET that is served
  answer   \* the last answer

storeVars == <<rows, ended, saved>>
clientVars == <<query, answer>>
serviceVars == <<vars, daemon, storeVars, clientVars>>

Lost == "lost"  \* pc of a request to a process that is gone

NoQuery == [at |-> "none", id |-> NoId, target |-> NoTarget, job |-> NoScan,
            todo |-> {}, known |-> FALSE, erred |-> FALSE]

NoAnswer == [id |-> NoId, kind |-> "none", scan |-> NoScan,
             known |-> FALSE, erred |-> FALSE]

ServiceInit ==
  /\ Init
  /\ daemon = "up"
  /\ rows = [k \in Onions \X Seconds |-> NoScan]
  /\ ended = [r \in Requests |-> NoScan]
  /\ saved = {}
  /\ query = NoQuery
  /\ answer = NoAnswer

ClockTicks == Tick /\ UNCHANGED <<daemon, storeVars, clientVars>>

-----------------------------------------------------------------------------
(* Scans *)

\* A new connection is accepted only while the listener is open.
Receive(r) ==
  /\ daemon = "up"
  /\ ReceiveAsync(r) \/ ReceiveSync(r)
  /\ UNCHANGED <<daemon, storeVars, clientVars>>

\* Handlers and workers go on while Shutdown waits.
Proceed(r) ==
  /\ daemon # "down"
  /\ Refuse(r) \/ Enqueue(r) \/ BeginScan(r) \/ FinishJob(r) \/ RecoverJob(r)
  /\ UNCHANGED <<daemon, storeVars, clientVars>>

\* Mutant of EndScan: the job is completed before its result is saved.
EndScanCompleted(r) ==
  /\ daemon # "down"
  /\ pc[r] = Scanning
  /\ ended[r] = NoScan
  /\ ended' = [ended EXCEPT ![r] = now]
  /\ status' = [status EXCEPT ![r] = "completed"]
  /\ UNCHANGED <<serverVars, scanId, pc, now, arrivals, daemon, rows, saved, clientVars>>

\* scan.Run has its result and takes EndedAt.
EndScan(r) ==
  /\ daemon # "down"
  /\ pc[r] = Scanning
  /\ ended[r] = NoScan
  /\ ended' = [ended EXCEPT ![r] = now]
  /\ UNCHANGED <<vars, daemon, rows, saved, clientVars>>

\* The same in the handler of a synchronous request.  A failure of its Save,
\* which leaves no trace, is a SyncScanFails from the step before.
EndSyncScan(r) ==
  /\ daemon # "down"
  /\ SyncScanReturns(r)
  /\ ended' = [ended EXCEPT ![r] = now]
  /\ UNCHANGED <<daemon, rows, saved, clientVars>>

\* The transaction of Save: INSERT OR REPLACE under the second of EndedAt.
SaveScan(r) ==
  /\ daemon # "down"
  /\ pc[r] \in {Scanning, "inlineDone"}
  /\ ended[r] # NoScan
  /\ r \notin saved
  /\ rows' = [rows EXCEPT ![<<TargetOf[r], ended[r]>>] = r]
  /\ saved' = saved \cup {r}
  /\ UNCHANGED <<vars, daemon, ended, clientVars>>

\* Mutant of ReturnToWorker: an error of Save is dropped.
ReturnAnyway(r) ==
  /\ daemon # "down"
  /\ ScanReturns(r)
  /\ pc'[r] = "succeeded" <=> ended[r] # NoScan
  /\ UNCHANGED <<daemon, storeVars, clientVars>>

\* scan.Run returns no error exactly when its result was saved.
ReturnToWorker(r) ==
  /\ daemon # "down"
  /\ ScanReturns(r)
  /\ pc'[r] = "succeeded" <=> r \in saved
  /\ UNCHANGED <<daemon, storeVars, clientVars>>

\* A synchronous scan failed, or is saved and enters the job map.
Reply(r) ==
  /\ daemon # "down"
  /\ \/ SyncScanFails(r)
     \/ r \in saved /\ RecordSync(r)
  /\ UNCHANGED <<daemon, storeVars, clientVars>>

-----------------------------------------------------------------------------
(* The process *)

\* SIGINT or SIGTERM: Shutdown closes the listener and waits for handlers.
Signal ==
  /\ daemon = "up"
  /\ daemon' = "draining"
  /\ UNCHANGED <<vars, storeVars, clientVars>>

\* main returns, when no handler is left or ten seconds after the signal, or
\* the process is killed: nobody waits for the workers, and all that is in
\* memory is gone.
Exit ==
  /\ daemon # "down"
  /\ daemon' = "down"
  /\ activeScans' = 0
  /\ queuedJobs' = <<>>
  /\ jobs' = [id \in ScanIds |-> NoJob]
  /\ status' = [r \in Requests |-> "none"]
  /\ pc' = [r \in Requests |-> IF pc[r] = "idle" THEN "idle" ELSE Lost]
  /\ ended' = [r \in Requests |-> IF r \in saved THEN ended[r] ELSE NoScan]
  /\ arrivals' = <<>>
  /\ query' = NoQuery
  /\ UNCHANGED <<scanId, now, rows, saved, answer>>

\* A new process opens the same database with an empty job map.
Restart ==
  /\ daemon = "down"
  /\ daemon' = "up"
  /\ UNCHANGED <<vars, storeVars, clientVars>>

-----------------------------------------------------------------------------
(* GET /v1/scans/{id} *)

\* Mutant of GetScan: "-<nanos>" is cut off an ID.
GetScanOfSecond(o, id) == rows[<<o, id[1]>>]

\* Store.GetScan: the stored scan of o whose ID is id.
GetScan(o, id) == IF id[2] = NoSuffix THEN rows[<<o, id[1]>>] ELSE NoScan

\* The IDs under which r is known: that of its job, and that of its stored
\* scan, which /v1/history lists.
IdsOf(r) ==
  {id \in ScanIds : \/ id = scanId[r] /\ status[r] # "none"
                    \/ r \in saved /\ id = <<ended[r], NoSuffix>>}

\* What a client knows: the job's status_url, the history of a target, and
\* the answers it had before.
Given ==
  UNION {IdsOf(r) \X {TargetOf[r], NoTarget} : r \in Requests}

\* History: what there is to be found for id when the GET begins.
Known(id, target) ==
  \/ jobs[id] # NoJob
  \/ \E r \in saved : id = <<ended[r], NoSuffix>> /\ target \in {TargetOf[r], NoTarget}

\* The answer to q, which names the ID with the scan, and whether a failed
\* query made it a 404 for a scan that was known.
Answer(q, kind, scan, erred) ==
  /\ answer' = [id |-> IF scan = NoScan THEN NoId ELSE q.id,
                kind |-> kind, scan |-> scan,
                known |-> q.known /\ kind = "notfound",
                erred |-> q.known /\ erred /\ kind = "notfound"]
  /\ query' = NoQuery
  /\ UNCHANGED <<vars, daemon, storeVars>>

Finish(kind, scan, erred) == Answer(query, kind, scan, erred)

Continue(q) ==
  /\ query' = q
  /\ UNCHANGED <<vars, daemon, storeVars, answer>>

\* The handler copies the job under the lock.  A job that is not completed
\* is the answer; otherwise the store is asked next.
CopyJob(id, target) ==
  LET job == jobs[id]
      asked == [NoQuery EXCEPT !.id = id, !.target = target,
                               !.known = Known(id, target)]
  IN
  /\ daemon = "up"
  /\ query.at = "none"
  /\ \/ /\ job # NoJob
        /\ status[job] # "completed"
        /\ Answer(asked, status[job], job, FALSE)
     \/ /\ job # NoJob
        /\ status[job] = "completed"
        /\ Continue([asked EXCEPT !.at = "job", !.job = job])
     \/ /\ job = NoJob
        /\ Continue([asked EXCEPT !.at = IF target # NoTarget THEN "target" ELSE "targets"])

\* Mutant of AnswerJob: what the store does not have is not found.
AnswerJobFromStore ==
  /\ query.at = "job"
  /\ LET row == GetScan(TargetOf[query.job], query.id) IN
     IF row # NoScan THEN Finish("completed", row, FALSE)
                     ELSE Finish("notfound", NoScan, FALSE)

\* A completed job: the scan the store has under the ID of the job, or the
\* job's own result if there is none or the query fails.
AnswerJob ==
  /\ query.at = "job"
  /\ LET row == GetScan(TargetOf[query.job], query.id) IN
     \/ row # NoScan /\ Finish("completed", row, FALSE)
     \/ Finish("completed", query.job, row # NoScan)

\* The job map has no such ID: the store is asked for the target's scan.
AnswerTarget ==
  /\ query.at = "target"
  /\ LET row == GetScan(query.target, query.id) IN
     \/ Finish("error", NoScan, TRUE)
     \/ row # NoScan /\ Finish("completed", row, FALSE)
     \/ row = NoScan /\ Finish("notfound", NoScan, FALSE)

\* No target was named: all of them are searched.
ListTargets ==
  /\ query.at = "targets"
  /\ \/ Continue([query EXCEPT !.at = "search", !.todo = {TargetOf[r] : r \in saved}])
     \/ Finish("notfound", NoScan, TRUE)

\* A target whose query fails is passed over.
SearchTarget ==
  /\ query.at = "search"
  /\ \E o \in query.todo :
       LET row == GetScan(o, query.id)
           next == [query EXCEPT !.todo = @ \ {o}]
       IN
       \/ row # NoScan /\ Finish("completed", row, query.erred)
       \/ row = NoScan /\ Continue(next)
       \/ Continue([next EXCEPT !.erred = TRUE])

SearchEnds ==
  /\ query.at = "search"
  /\ query.todo = {}
  /\ Finish("notfound", NoScan, query.erred)

-----------------------------------------------------------------------------
ServiceNext ==
  \/ ClockTicks
  \/ \E r \in Requests :
       \/ Receive(r) \/ Proceed(r) \/ Reply(r)
       \/ EndScan(r) \/ EndSyncScan(r) \/ SaveScan(r) \/ ReturnToWorker(r)
  \/ Signal \/ Exit \/ Restart
  \/ \E g \in Given : CopyJob(g[1], g[2])
  \/ AnswerJob \/ AnswerTarget \/ ListTargets \/ SearchTarget \/ SearchEnds

ServiceSpec == ServiceInit /\ [][ServiceNext]_serviceVars
-----------------------------------------------------------------------------
(* Correctness *)

Kinds == {"none", "queued", "running", "failed", "completed", "notfound", "error"}

\* What the server knew when a GET began, as a job or as a saved scan, is not
\* answered with 404, whatever is pruned, saved or replaced between the copy
\* of the job and the queries, and whatever process saved it: only a failing
\* query hides it.
AnsweredIfKnown ==
  answer.kind = "notfound" /\ answer.known => answer.erred

\* A scan that is answered as completed was saved: what a client has seen
\* completed is still there when the daemon is killed a moment later.
CompletedWasSaved == answer.kind = "completed" => answer.scan \in saved

Bearers(id) == {r \in Requests : id = scanId[r] \/ id = <<ended[r], NoSuffix>>}

\* The scan or job in an answer bears the ID that was asked for, as a job or
\* in the store, so that with an ID of its own a client gets its own scan.
AnswerBearsId ==
  answer.scan # NoScan => answer.scan \in Bearers(answer.id)

\* What two polls of an ID in a row see never goes back, and does not change
\* once it is final, daemon restarts included, as long as only one job or
\* stored scan bears the ID: IDs of one second's resolution do not promise it.
Rank == [k \in Kinds |-> CASE k = "queued" -> 1 [] k = "running" -> 2
                           [] k \in Finished -> 3 [] OTHER -> 0]
PollsOnlyAdvance ==
  [][answer.scan # NoScan /\ answer'.id = answer.id /\ answer'.scan # NoScan
       /\ Cardinality(Bearers(answer.id)') = 1
     => /\ answer'.scan = answer.scan
        /\ Rank[answer.kind] <= Rank[answer'.kind]
        /\ answer.kind \in Finished => answer'.kind = answer.kind]_serviceVars
=============================================================================
