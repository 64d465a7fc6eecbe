# OnionSec in TLA+

This directory holds the formal model of OnionSec, the scanner for onion
services in this repository: TLA+ modules translated from its Go sources, TLC
configurations that model-check them on small instances, and proofs checked by
TLAPS. `PROJECT.json` lists the runs, the theorems, the source lines that each
definition stands for, the hazards the properties are for, and the places where
the code and what the repository says of it disagree.

    tlc -config ScanQueue.cfg MCScanQueue      # model-check an instance
    tlapm ServerProofs.tla                     # check the proofs of a module

Paths below are relative to `src/`.

## Inventory

| Part | Source | State | Operations | Talks to | Model |
|---|---|---|---|---|---|
| Scan queue, job map | `internal/api/server.go` | `activeScans`, `queuedJobs`, `jobs` under `Server.mu`; a goroutine per running job | `enqueueAsyncScan`, `executeJob`, `dispatchNextLocked`, `pruneJobsLocked`, synchronous scans | pipeline, clients | `ScanQueue`, `JobPool` |
| Read endpoints | `internal/api/server.go` | none | scan, targets, findings, assets, history, graph, diff | job map, store | `ScanService` (scan), `EvidenceGraph` (graph, assets) |
| Daemon | `cmd/onionsecd/main.go` | the process | start, signal, shutdown | server, store | `ScanService` |
| Scan pipeline | `internal/scan/scan.go` | none between calls | `Run` | crawler, analyzers, correlation, risk, store | `ScanRuns`, `Analysis`, `ScanChanges` |
| SQLite store | `internal/storage/sqlite.go` | targets, scans, evidence items, links | `Save`, `History`, `Latest`, `GetScan`, `FindCoOccurringTargets`, `ListAssets` | pipeline, server, CLI | `EvidenceStore` |
| Correlation | `internal/correlation/engine.go` | none | in one scan and across targets | store | `Findings`, `ScanRuns` |
| Risk | `internal/risk/risk.go` | none | `DeduplicateFindings`, `Score` | | `Findings` |
| Crawler | `internal/crawler/crawler.go` | queue and seen set of a crawl | `Crawl`, `fetchOne`, redirect policy | HTTP client | `Crawler` |
| SOCKS5 dialer | `internal/tor/socks5.go` | a connection per dial, context callback | `DialContext`, `DialTLSContext` | Tor | `Socks5` |
| Diff | `internal/diff/diff.go` | none | `Diff` | CLI, server | `Diff` |
| `scan`, `monitor` | `cmd/onionsec/main.go` | loop, ticker, signal context | rounds, reports, exit codes | pipeline, store, diff | `Monitor` |
| File store | `internal/storage/filestore.go` | a file per scan, an index file per item | as SQLite, without a transaction | tests only | `FileStore` |
| Dashboard | `web/app/page.tsx` | React state | asynchronous loads and actions | server | not modelled |
| Graph | `internal/graph/graph.go` | none | `BuildGraph`, renderers | store | `EvidenceGraph` |
| Stateful analyzers | `internal/analyzer/{robots,tls,metadata}` | hosts and images already visited | `Analyze`, image parsing | HTTP client | `Analysis`, `ImageMetadata`, `ImageAnalysis` |
| Other analyzers, config, reports, target validation | | none | text in, text out | | not modelled |

How they interact: a handler of the server either runs `scan.Run` itself or
leaves a job to the queue, whose workers run it. `Run` crawls through the
dialer, lets the analyzers make findings of the pages, consolidates them, looks
their evidence up in the store, scores and saves. Status polls read the job
map, then the store. `monitor` runs the same pipeline in its own process on the
same database and compares each scan with the latest before it.

Hard behaviours, each with its line under "hazards" in `PROJECT.json`: handlers,
workers and pruning interleave at `Server.mu`; scan IDs have a resolution of a
second; the lookups and the save of a scan are separate transactions of
concurrent scans; the daemon stops without waiting for jobs; a crawl cut off by
its budget returns what it has without an error; a dial may be cancelled between
any two reads; signals and ticks compete in the monitor's `select`; analyzers
mark what they ask for before they get it, and read files whose parts point at
each other; the file store writes several files without a transaction.

What makes each part correct:

- *Scan queue*: slots never leak, jobs start once and first come first served,
  no job waits while a slot is free, every accepted job ends, the job map is
  bounded and forgets only finished jobs.
- *Service*: what the server knows is found, what was seen completed survives a
  restart, an answer is about the ID that was asked for.
- *Store and pipeline*: the tables are what the saved scans in their order make
  them, targets that share evidence find each other, links lead to stored scans,
  and the graph of a target, those of its peers and its assets agree.
- *Analyzers*: nothing is asked for twice, nothing received goes unreported, and
  an image is read once through, however it points at itself.
- *File store*: after any failure or kill the index can be read and leads to
  scans that are there, and a scan that was saved stays as it was.
- *Crawler*: pages are distinct, same-origin and bounded, nearest first, and
  nothing reachable is left out unless a bound or an error is the cause.
- *Dialer*: a returned connection is granted, at the first byte of the target and
  without a deadline; a failed dial leaves nothing open; every dial ends.
- *Findings and diff*: order and repetition of findings mean nothing, worse
  findings never lower the score, and a diff accounts for every finding.
- *Commands*: the reports of monitor follow each other without gap or overlap as
  far as the store can tell, a failing target harms no other, the exit code is
  right, a signal ends the command.

## Modules

`MC*` modules hold constants, symmetries and initial data for TLC only. A module
`XProofs` holds the inductive invariant of `X`, its types, its lemmas and its
theorems; `ServerProofs` does so for `ScanQueue` and `ScanService`. There are eight:
`ServerProofs`, `ScanRunsProofs`, `CrawlerProofs`, `Socks5Proofs`, `MonitorProofs`,
`AnalysisProofs`, `FileStoreProofs`, `ScanChangesProofs`.
Operators that a comment calls a mutant are the variants of a definition with a
plausible bug, used to show that each property can fail.

**`JobPool`** is the abstract queue: an admission line, a number of jobs started
from its front, a set of jobs that ended. It says that jobs start in order, as
soon as a slot is free, and end.

**`ScanQueue`** is `Server` with its goroutines. A request stands for its
handler and for the `ScanJob` it creates; `pc` says where its goroutine is
between two acquisitions of `Server.mu`, and each locked section is one action:
`Enqueue` and `Refuse` (`enqueueAsyncScan`), `FinishJob` and `RecoverJob` (the
tail and the deferred function of `executeJob`, each with `dispatchNextLocked`),
`RecordSync` (the tail of a synchronous request). Pruning is part of the
insertions and may delete any of the choices that ranging over a Go map allows.
IDs are seconds with an optional suffix. Requests that are answered with 400
change no state and are left out.

**`ScanService`** extends `ScanQueue` with the rows of `scans`, the transaction
of `Save` inside each scan, the process (`Signal`, `Exit`, `Restart`) and a
client that sends GETs, for which the job is copied under the lock and the store
is queried afterwards, one query a step, each of which may fail. `Exit` is both
the end of `main` and a kill: workers and the job map are gone, rows stay.

**`EvidenceStore`** has the four tables, `SaveTx` (one step: the pool has one
connection, and a failing transaction is rolled back) and the queries.
**`EvidenceGraph`** has `BuildGraph` and the nodes and edges that
`GET /v1/graph` makes of it, as state functions of the store.
**`ScanRuns`** composes both with concurrent calls of `scan.Run`: crawl, one
lookup a step in any order (each may fail, or break off with a part of its rows,
which nobody notices), `EndedAt`, save.

**`FileStore`** has the scan files and index files as functions to contents, one
of which is `Torn`. Each system call of `Save` that can fail is a step, and
between any two the process may be killed and started again over the files.
Invariants therefore say what a restarted process finds. `log` and the sets
`acked`, `missed` and `rebuilt` are history: what each save did and which of its
steps failed.

**`Analysis`** is the loop of `scan.Run` over pages and analyzers, for the three
analyzers that keep maps of what they visited and send requests, one step a request:
`DialTLS` and `ReportTLS`; `ReadPage`, `FetchRobots`, `FetchSitemap` and `ReportPaths`;
and for metadata one step a reference (`SkipReference`, `FetchImage`) between
`InspectPage` and `ReportImages`. What a step brings is gathered in `evidence` until the
analyzer returns its findings, and noted in `told` when it is received. Any request may fail. What is found in an image is a constant
operator, `EvidenceIn`, so that the loop can be reasoned about apart from the
reading of images; **`ImageAnalysis`** puts the two together. **`ImageMetadata`** is what metadata reads
of an image, as operators: the parts of a JPEG or PNG, and the walk through the
directories of a TIFF file with its visited map and limits. A directory is its
entries; bytes, byte orders and number formats are abstracted. A call of `parseIFD`
takes what was read so far, the visited map, and comes to what is read after it and
what it said, the assignments to fields of the metadata in their order. Below the
translation are reference definitions in terms of chains of pointers.

**`Crawler`** is the loop of `Crawl` and the requests of `fetchOne`, against a
site that answers every request differently if it likes.

**`Socks5`** counts the bytes of the proxy's reply; the proxy follows any script,
in pieces of any size, and may stall or close. The context may end at any step,
and the `AfterFunc` that closes the connection is a step of another goroutine.

**`Findings`** has consolidation, the two correlations and the score as operators
on sequences of records, **`Diff`** the two matching passes and the comparison of
matched findings, and **`ScanChanges`** builds scans of a target finding by
finding, with what the store knows of other targets. Names, addresses and texts
are model values; sums of confidences are exact integers in the model. The loops of
these parts are recursive functions on the numbers up to a length, of which TLC
computes values and the provers know the equations.

**`Monitor`** runs invocations of `onionsec scan` and `onionsec monitor` one
after the other over a store that another process also saves to (`mode` is
`scan`, `round`, or `interval` for `monitor --interval`). Each target of a round
goes through reading the baseline (monitor), scanning, saving and reporting, with
a possible kill before each step. Scans are numbered in the order they ended, and
`seconds` says in which second each did: a row is kept by target and second, so `Save`
(`Stored`) replaces a row of its second, though it may be that of a newer scan, and
`Latest` then goes back to the older one. Reading the baseline may fail (`Unread`), and
monitor goes on without. `Targets` is a sequence that may name an onion
twice, so reports are kept by place. In interval mode the round is followed by the
`select` over the ticker and the signal; `scan` gives up with 130 when the
signal came while a target was left or made a scan fail.

## Runs

| Run | Checks | Bounds, and why they are enough |
|---|---|---|
| `scan_queue` | slots, queue, liveness, refinement of `JobPool` | 4 asynchronous requests, 2 slots, queue of 2: both slots busy, both places taken and jobs behind jobs that fail or panic |
| `job_map` | statuses, bound of the map, refusals, pruning | 3 + 2 requests, 1 slot, queue of 1, pruning above 2 entries: every kind of entry meets a prune, and IDs collide with and without a suffix |
| `scan_service` | answers of GET, restarts | 2 + 1 requests for 2 targets, 1 slot, pruning above 1 entry, 2 seconds: a waiting job, an ID shared by jobs, a row of another scan under a job's ID, any number of restarts |
| `scan_runs` | tables, peers, provenance, graphs | 3 scans of 2 targets, 2 correlated values, a credential, 2 seconds: a scan meets two saved ones, IDs collide and times come out of order |
| `crawler` | bounds, origin, order, completeness, end | 4 URLs, MaxPages 3, 2 redirects: cut off by pages, by redirects and by the budget; the site's answers are unrestricted, so more URLs add no new kind of answer |
| `socks5` | stream, success, cleanup, end | real lengths of addresses; names of 0 and 2 bytes; a byte of the target behind the reply |
| `scan_changes` | consolidation, score, diff | 3 findings out of 6, baselines of 2: the same rule on two pages, evidence in two orders, and a third finding that may match either |
| `monitor` | reports, failures, exit codes, signal | 2 targets, 3 scans, any two in a row of which may end in one second: a baseline, a scan of another process in between or in its place, and a scan compared with it; 2 outcomes that differ, so that reports have changes or none |
| `analysis` | requests, limits, completeness of findings; reading of images | 3773 TIFF files of three directories that point at each other, at themselves, at directories of the other kind and out of the file, and each container; two crawls of three pages whose references overlap; a depth of 1, two entries of a directory and two images of a page, so that each limit cuts something off |
| `file_store` | index, scan files | 2 targets that share an item, 2 seconds, 3 saves: a save that fails or is killed on top of one that succeeded, under the same name or beside it |
| `scan_queue_tracking`, `crawler_drops` | one statement of the repository each, which the code violates | see Findings |

The types of the variables and the inductive invariants stand in the `*Proofs`
modules and are checked by no run, nor are `WorkConserving` and
`StatusFollowsWorker` of `ScanQueue`: they are proved for every instance.

Symmetry is used in `job_map`, `scan_runs` and `file_store`, which check no liveness. `KeysMatchIds` is an
invariant of the proofs and of no run: `AnswerBearsId` states it of the answers,
for jobs and rows alike. Deadlock is
checked in every passing run but two, where a scan is over (`analysis`) or the
saves are used up (`file_store`). Elsewhere a bounded model that comes to its end
says so with an action of its own (`AllOver`, `Finished`, `Over`).

### Fairness

- `ScanQueue`: `WF(Worker(r))`. A started goroutine runs, and `scan.Run` works
  under a context with a deadline. Clients and the clock owe nothing.
- `Crawler`: `WF(Loop)`, `WF(Fetch)`. A request has a timeout, so a fetch ends.
  Nothing is assumed of the budget: the loop ends without it.
- `Socks5`: `WF(Dialer)`, `WF(DeadlinePasses)`. Reads return when the deadline of
  the connection passes. Neither proxy nor context owe anything. The TLS
  handshake comes after the deadline was reset and is bounded by the caller's
  context only, so `DialEnds` stops there.
- `Monitor`: `WF(Batch)` as above, `WF(SelectTick)`, and `SF(SelectDone)` because
  Go's `select` chooses at random among ready channels: a signal that is ready
  at every `select` is taken some time, however many ticks are.

## Proofs

Each theorem is `Spec => []P` or `Spec => [][A]_v` for every value of the
constants that the named assumptions allow, and every safety property that the passing
runs check is proved. The shape is the same everywhere. No property is inductive as it stands, so `IInv` adds what the code
relies on without saying so: what is true between two steps of one operation.
`Init => IInv` and `IInv /\ [Next]_vars => IInv'`, with a step for each action, are
lemmas; the theorems follow. TLC checked each `IInv` on the instances of the runs
before it was proved.

**`ServerProofs`**, for `ScanQueue`: type correctness, `SlotsBackedByWorkers`,
`WorkConserving`, `QueueHoldsTheWaiting`, `StatusFollowsWorker`, `KeysMatchIds`,
`JobMapBounded`, `OnlyFinishedForgotten`, `RefusedOnlyWhenSaturated`, and that `Spec`
implements the safety part of `JobPool` (`Spec => Pool!Spec`). Assumed: finite disjoint
sets of requests, integers for the limits, `PruneLow < PruneHigh` (400 and 500 in the
code), and markers that are none of the values they stand in for.
`activeScans = Cardinality(Workers)` survives `DispatchNext` only if the job at the
head of the queue is parked and has no worker, that is, if queue and `pc` agree; the
queue has each waiting job once only if nothing in it can arrive again; the map is
bounded only because what pruning may not delete is either a worker or in the queue.
`QueueInv` conjoins the agreement of `pc`, status and queue for every request and the slot
count; `MapInv` adds what the map may hold, and the refinement that the queue is
the tail of `arrivals`. Lemmas about sequences without repetition and cardinalities of
sets that gain or lose an element carry the arithmetic.

**`ServerProofs`**, for `ScanService`: `AnsweredIfKnown`, `CompletedWasSaved`, `AnswerBearsId` and
`PollsOnlyAdvance`, over any number of restarts. Assumed: requests have targets
(`ServiceAssumption`), and what is assumed of the queue. The difficulty is that a
GET copies a job under the lock and asks the store later, while scans go on, are pruned,
or are lost with the process. `ScanInv` is about scans only: a completed job is
saved, a saved scan has a row under its key (its own or a later one's), the job map
has every job under its own ID. `ClientInv` is about what a client was told or will be
told: `QueryInv` says that a GET that has passed the job map still has the target of a
known scan before it, or an error, and `StaysTrue` that what was answered stays true
of the scan for good. The two halves meet in `Keeps`: a step of the daemon takes
nothing away on which a client relies (rows, bearers of an ID, final statuses), and
a step of a handler changes no scan. `PollsOnlyAdvance` is then about two answers
that are both true.

The queue's theorems hold of the service as well: `SlotsBackedByWorkers`,
`WorkConserving`, `QueueHoldsTheWaiting`, `StatusFollowsWorker`, `KeysMatchIds`,
`JobMapBounded` and `RefusedOnlyWhenSaturated` are proved of `ServiceSpec` too, over
any number of restarts. Every step of the service is a step of the queue or leaves its
variables alone, except `Exit`, and `QueueInv` allows for requests that are lost with
their process, so that `Exit` keeps it. What does not carry over is `JobPool`:
a process that ends breaks the promise that an accepted job finishes.

**`ScanRunsProofs`**: types, `TablesMatchLog`, `PeersAreReal`, `EarlierPeersFound`,
`ProvenanceResolves` and `GraphsAgree`, for any number of overlapping runs. Assumed:
finitely many runs, onions and values; signals, credentials and plain values are
disjoint; at least one tick a second; `NoRow` is none of the values of a row. The tables are
compared with a replay of `log` in which times are first and last places of a value,
so a lemma gives each nonempty set of natural numbers its least element (its finite
beginnings are well-founded under inclusion) and bounded ones their greatest. A save
appends one place, and each table has its own step. `RunsInv` says what a run has at each place of
its program, `LogInv` that log, saved runs and rows of `scans` agree, `KnownInv` that a
peer that was known is found already or its lookup is to come and will find it. Links
stay, so lookups find no less than they would have.

**`CrawlerProofs`**: types, `RequestsStayOnsite`, `PagesBoundedAndDistinct`,
`BreadthFirst`, `NothingLeftBehind`, for every site. Assumed: finitely many URLs, the
root among those of the target, at least one redirect allowed; `MaxPages` may be 0 or
negative. `PagesInv`: while a URL is fetched there is room for its page and no page
has it. `DepthInv`: depths rise along pages, fetch and queue, and the queue
ends one link deeper than it begins at most, the classical invariant of a
breadth-first search, here with pages whose URL is not the one that was queued.
`LinksInv`: what was found is queued, tried or a page.

**`Socks5Proofs`**: types, `StreamLeftClean`, `FailureClosesConn`, for every reply in
pieces of any size. Assumed: a length byte is one byte. `StreamInv` says that what was
read and what `readFull` still wants add up to the end of a part of the reply, so that no
byte of the target is taken when the last part ends; `ReplyInv` what the proxy has said
before each place of the program.

**`MonitorProofs`**: types, `ReportsChain`, `FailuresDoNotSpread`, `ExitCodeTells`, for
any targets, given twice or not, any findings, options and threshold, negative ones
included. Assumed: at least one target; scores between 0 and 100 (`ScoresAssumption`;
`ScoreIs` in `ScanChangesProofs` proves it of `Score`); `NoScan` is none of the
scans, and `Unread` neither. `PlaceInv` ties `pc`, `index` and `tried`; `StoreInv` says
that seconds only grow and that a target has one row for each; `ChainInv` that the
latest scan of a target was compared, is excused, or is at hand, and ended no second
earlier than what was compared, although its row may have been taken; and that the
baseline was compared, or is excused and newer than what was compared or of its
second, and is older than the scan at hand. That a set of rows has a latest is proved from
its finitely many numbers. `RoundInv` that `hadAnyChanges`
and `maxScore` sum up the reports so far.

**`ScanChangesProofs`**: `ConsolidatesAll`, `DiffAccountsForAll`, `SilenceMeansSame`,
`RiskNeverFalls` and `OrderIsNoChange`, for scans and baselines of any length. Assumed:
what the rules of the correlations are (`RulesAssumption`), finitely many
peers (`PeersAssumption`), and that analyzers emit findings in the ranges of their fields
(`EmittedAssumption`). The invariant is short, that scan and baseline are what
consolidation leaves: one finding of each rule, with each of its evidence once. The work
is in the operators, sequences all the way down.

- *Recursion.* The library's induction theorems take an operator as a parameter, which
  the provers cannot instantiate. `Least` gives each nonempty set of natural numbers its
  least element; by it `Induction` is a lemma about sets, and `Recursion` says that there
  is a function that obeys the equations of a loop. Each loop has one lemma that
  states them of it, and what it computes follows by induction on the number of rounds.
- *Consolidation.* `ConsolidatesTo` is the invariant of the loop over findings: rules
  of the result are those met so far and distinct, evidence is what those findings
  have, confidence the greatest, severity the worst.
- *Matching.* Consolidated findings have distinct rules, so the first pass pairs
  positions of old and new one to one. A position that is left open
  in both is paired by the second pass, or added, or resolved. `DiffAccountsForAll` says
  that these exhaust both scans, and `SilenceMeansSame` that a pair without a
  change is of equal findings.
- *Score.* `Below` orders scans: each finding of the one is covered by one of the other of the
  same rule that is as severe, as certain, and has its evidence. Correlations keep this order,
  and so does the score: a sum of weights and a product of doubts, one factor per
  finding, taken apart factor by factor along the covering. `OrderIsNoChange` uses it
  both ways.

**`AnalysisProofs`**: types, `ImagesAccountedFor` and `ReceivedIsReported`, for any crawl,
any answers and whatever is read of an image; and `ImagesReadSoundly`, for any image.
Assumed: a crawl has a page, a file is finite and its directories are sequences
(`FilesAssumption`). `RequestsInv`:
the requests are, without repetition, exactly those that the three visited maps
stand for; it needs the maps to be written with the request and before the answer.
`PlaceInv`: of the references passed, all images were visited; of the pages done, all or
`MaxImagesPage`. `ToldInv`: what was received is in the findings or in the evidence of
the analyzer at work, under the rule it will be reported by.
`ImagesReadSoundly` is about a recursive function, and its proof an induction on the levels
that `parseIFD` has left. `Result` says what a call comes to: what was read before is read
still, nothing twice, nothing is read or said but what pointers lead to, and in a
wellformed file the directory is read and all that was newly read is done with, its texts
said and its pointers read. A call relies on its `Ancestors`, the chain of
directories whose entries are being parsed; it is without repetition since each of them is in
the visited map, so it is a chain of the reference definition, and the levels left are what
`MaxDepth` leaves of its length. That a wellformed file is read as a whole follows by
induction along chains.

**`FileStoreProofs`**: types, `LinksResolve`, `IndexAccountsForScans` and
`SavedScansKept`. Assumed: credentials are items, scans find sequences of items, and
the markers `NoFile` and `Torn` are neither saves nor index entries.
What the files promise is about saves that returned, while a kill
or a failure comes in the middle of one. So `IInv` says where `Save` is:
`SavingInv` that it works on the last scan of the log, which has not returned, and
that its file is torn until `Write` and the scan's own after; `FilesInv` that a
torn file belongs to a save that has not returned; `LinksInv` that the links of
every entry, and those in the temporary file, lead to a scan. The new link does
because `Save` has written the scan before it indexes it. `IndexInv` speaks of
three things at once: the saves that returned; the items the running save is past,
which become the first kind when it returns; and the temporary file, which
becomes the entry with the rename. That what accounts for an item goes on doing so is
a lemma of its own (`AccountedStep`): the log only grows, and so do the histories
of failures.

Left to TLC:

- liveness (`AcceptedJobsFinish`, `Terminates`, `DialEnds`, `StopsWhenTold`) and the
  fairness half of `ImplementsPool`: the prover has no ENABLED.

## Findings

Runs marked "violation" exhibit them; `PROJECT.json` quotes the statements.

- `LiveJobsTracked`: a synchronous scan that ends in the second a job was created
  in replaces the live job in the job map.
- `FetchedPagesReturned`: a page reached by a redirect is thrown away if a
  direct request for its URL failed before.

Observations from the modelling that no run states:

- A synchronous request runs its scan in its handler without a slot, so more than
  `--max-scans` scans run at a time.
- Two overlapping scans of targets that share evidence both look before either
  has saved, and neither reports the other.
- The loops over the rows of `FindCoOccurringTargets` and `ListAssets` do not look
  at `rows.Err`: a query that breaks off gives fewer peers and no error.
- A signal during the last target of `scan` leaves its partial result saved as a
  complete scan and the exit code to the score. With several targets, `--json`
  and `--md` keep the report of the last one only.
- The file store: one file that a kill left torn fails `History` and `Latest` of its
  target until a scan of the same second replaces it; an entry of the index that
  cannot be parsed is made anew and forgets the other targets.
- The analyzers use the client of the scan, not the one the crawler derives from
  it with its redirect policy: a redirect of `/robots.txt` or an image may lead
  anywhere. `bufio.Scanner` ends at a line of 64 KiB, and the rest of a
  `robots.txt` is not read.
- An altitude without a position is dropped; a first Exif segment without metadata
  hides a second one in a JPEG, but not in a PNG; a directory that was
  first reached at the depth limit is not read again on a shorter path, so what it
  points to is lost (`Wellformed` excludes that).
- Two scans of a target that end in the same second leave one row of `scans`,
  while `total_scans` counts both (`ScansMatchLog` has the rows as they are).
- `last_scanned_at` and `first_scanned_at` are the times of the last and the first
  transaction, which are not those of the last and first scan when overlapping
  scans commit out of order.
- The ID of an asynchronous job is the second of its request, that of its stored
  scan the second it ended. A poll of a completed job returns another scan of
  its target if one ended in that second, the job's ID is unknown to
  `/v1/diff` and `/v1/history`, and after a restart polls of it are answered with
  404 although its scan is stored. `?target=` is ignored as long as the job map
  has the ID. `PollsOnlyAdvance` holds only for IDs that are not shared.
- A failing query makes a GET without `?target=` a 404 instead of a 500.
- Queued and running jobs are lost when the daemon stops: Shutdown waits for
  handlers only.
- A crawl that ran out of its budget is saved as a complete scan, and the monitor
  reports what it did not get to as removed.
- Failed scans in `monitor` print a line and leave the exit code at 0, where
  `docs/MONITORING.md` lists network errors under exit code 1; with
  `--interval` the command never exits with 2.
- A monitor that is killed between saving and reporting never reports the changes
  of that scan: it is the next baseline (`excused` in `ReportsChain`).
- A scan of another process that ended in the same second as one that monitor has
  reported, though before it, but is saved after it, takes its row. `Latest` returns the older scan, the next
  report starts from it, and the changes between the two are reported twice. If a baseline
  cannot be read, the report lists the whole scan as new, and the changes since the last
  report are never told. `ReportsChain` allows for both.
- `diff` ignores changes of confidence below 0.05, as documented.
- The conclusions of a scan (its cross-target findings) are indexed as evidence
  like its observations; `PeersAreReal` shows that they make no peers.
- The result of `stop()` is discarded in `DialContext`: a context that ends late
  closes a connection that was returned without an error.
- The dashboard lists scans with `GET /v1/scans`, which the server does not route,
  and shows an empty list; its handlers do not check that an answer is for the
  current selection.

## Not modelled

- Text: page-local analyzers, redaction, YAML, reports, Mermaid and DOT,
  validation of addresses. They keep no state, and their correctness is about
  characters.
- Authentication, CORS and pagination of the server, filters of lists.
- `ended_at` is stored as local time text, so that `Latest` may be off when the
  offset of the time zone changes. Clocks that are set back: transactions come out of
  order in the models, but time only grows.
- The graph of a target with scans saved between its lookups: `EvidenceGraph` computes
  it from one state.
- Statements of one transaction of `Save` between those of another: the pool has one
  connection, so that `SaveTx` is one step.
- The connection after a dial that succeeded: `FailureClosesConn` is about dials that
  fail, and the late close is an observation above.
- The dashboard: presentation, whose state a reload rebuilds and no other part
  reads.
- `IndexEvidence` of either store on its own: no caller outside the tests.
- The commands `report`, `diff`, `graph` and `version`, and the options of all
  commands: one query and a rendering, without state.
- The default fetchers and dialers of analyzers, used without a client, as only
  tests do.

## Plan

Done, in this order: `ScanQueue` with `JobPool` and proofs; `EvidenceStore`,
`ScanRuns`; `Crawler`; `Socks5`; `Findings`, `Diff`, `ScanChanges`; `Monitor`;
`ScanService`; `ImageMetadata`, `Analysis`; `FileStore` with proofs; `EvidenceGraph`;
then the proofs of `ScanRuns`, `Crawler`, `Socks5`, `Monitor`, `ScanService`,
`Analysis` and `ScanChanges`.

What could be proved next: that between two exits the service implements `JobPool`.
