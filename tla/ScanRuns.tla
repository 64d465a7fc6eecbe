-------------------------------- MODULE ScanRuns --------------------------------
(***************************************************************************)
(* Concurrent scans over one evidence store: scan.Run                      *)
(* (internal/scan/scan.go) with CorrelateWithStore                         *)
(* (internal/correlation/engine.go).  The worker goroutines of the server  *)
(* and the handlers of synchronous requests call Run side by side; each    *)
(* lookup of the correlation and the final Save is a query or transaction  *)
(* of its own, and nothing holds the store between them.                   *)
(***************************************************************************)
EXTENDS EvidenceGraph, Sequences

VARIABLES
  pc,      \* run -> where Run is
  todo,    \* run -> the values CorrelateWithStore has still to look up
  now,     \* the wall clock, in ticks
  \* history
  log,     \* the runs that were saved, in the order of their transactions
  known    \* run -> what the store knew of its values when it began to
           \* correlate, less the lookups that failed

runVars == <<pc, todo, result, known>>
vars == <<tables, runVars, now, log>>

NoResult == [target |-> NoRow, started |-> 0, ended |-> 0,
             observed |-> {}, shared |-> {}]

Init ==
  /\ NoTables
  /\ result = [r \in Runs |-> NoResult]
  /\ pc = [r \in Runs |-> "idle"]
  /\ todo = [r \in Runs |-> {}]
  /\ known = [r \in Runs |-> {}]
  /\ now = 0
  /\ log = <<>>

Tick ==
  /\ now < MaxTime
  /\ now' = now + 1
  /\ UNCHANGED <<tables, runVars, log>>

-----------------------------------------------------------------------------
Start(r) ==
  /\ pc[r] = "idle"
  /\ \E o \in Onions :
       result' = [result EXCEPT ![r] =
         [target |-> o, started |-> now, ended |-> 0, observed |-> {}, shared |-> {}]]
  /\ pc' = [pc EXCEPT ![r] = "crawling"]
  /\ UNCHANGED <<tables, todo, known, now, log>>

\* Run returns an error, and its caller drops the result.
Fail(r) ==
  /\ pc' = [pc EXCEPT ![r] = "failed"]
  /\ result' = [result EXCEPT ![r] = NoResult]
  /\ todo' = [todo EXCEPT ![r] = {}]
  /\ known' = [known EXCEPT ![r] = {}]
  /\ UNCHANGED <<tables, now, log>>

\* Crawl returns an error: Run returns it and saves nothing.
CrawlFails(r) == pc[r] = "crawling" /\ Fail(r)

\* What the store has on the values in V for other targets than o.
PeersOf(o, V) ==
  {p \in V \X Onions : p[2] # o /\ p[2] \in FindCoOccurringTargets(p[1])}

\* Crawl and the analyzers are done: the findings hold some values, and
\* CorrelateWithStore will look up those of the correlated types.
CrawlReturns(r) ==
  /\ pc[r] = "crawling"
  /\ \E V \in SUBSET Values :
       /\ result' = [result EXCEPT ![r].observed = V]
       /\ todo' = [todo EXCEPT ![r] = V \cap Signals]
       /\ known' = [known EXCEPT ![r] = PeersOf(result[r].target, V \cap Signals)]
  /\ pc' = [pc EXCEPT ![r] = "correlating"]
  /\ UNCHANGED <<tables, now, log>>

\* Mutant of Lookup: the target finds itself among its peers.
LookupAll(r, v) ==
  /\ pc[r] = "correlating"
  /\ todo' = [todo EXCEPT ![r] = @ \ {v}]
  /\ result' = [result EXCEPT ![r].shared =
                  @ \cup ({v} \X FindCoOccurringTargets(v))]
  /\ UNCHANGED <<tables, pc, known, now, log>>

\* Mutant of Lookup: the first value that has peers ends the search.
LookupFirst(r, v) ==
  /\ pc[r] = "correlating"
  /\ LET peers == PeersOf(result[r].target, {v}) IN
     /\ todo' = [todo EXCEPT ![r] = IF peers = {} THEN @ \ {v} ELSE {}]
     /\ result' = [result EXCEPT ![r].shared = @ \cup peers]
  /\ UNCHANGED <<tables, pc, known, now, log>>

\* FindCoOccurringTargets for one value: each other target is a peer.
Lookup(r, v) ==
  /\ pc[r] = "correlating"
  /\ v \in todo[r]
  /\ todo' = [todo EXCEPT ![r] = @ \ {v}]
  /\ result' = [result EXCEPT ![r].shared = @ \cup PeersOf(result[r].target, {v})]
  /\ UNCHANGED <<tables, pc, known, now, log>>

\* The query fails, or the reading of its rows ends early, which nothing
\* tells: CorrelateWithStore goes on to the next value with the peers it got.
LookupFails(r, v) ==
  /\ pc[r] = "correlating"
  /\ v \in todo[r]
  /\ todo' = [todo EXCEPT ![r] = @ \ {v}]
  /\ known' = [known EXCEPT ![r] = {p \in @ : p[1] # v}]
  /\ \E peers \in SUBSET PeersOf(result[r].target, {v}) :
       result' = [result EXCEPT ![r].shared = @ \cup peers]
  /\ UNCHANGED <<tables, pc, now, log>>

\* The result is complete; EndedAt is taken before the transaction of Save.
Complete(r) ==
  /\ pc[r] = "correlating"
  /\ todo[r] = {}
  /\ result' = [result EXCEPT ![r].ended = now]
  /\ pc' = [pc EXCEPT ![r] = "saving"]
  /\ UNCHANGED <<tables, todo, known, now, log>>

Save(r) ==
  /\ pc[r] = "saving"
  /\ SaveTx(r, result[r])
  /\ pc' = [pc EXCEPT ![r] = "saved"]
  /\ log' = Append(log, r)
  /\ UNCHANGED <<todo, result, known, now>>

\* A statement of the transaction or its commit fails: it is rolled back.
SaveFails(r) == pc[r] = "saving" /\ Fail(r)

AllOver ==
  /\ now = MaxTime
  /\ \A r \in Runs : pc[r] \in {"saved", "failed"}
  /\ UNCHANGED vars

Run(r) ==
  \/ Start(r) \/ CrawlFails(r) \/ CrawlReturns(r)
  \/ \E v \in Signals : Lookup(r, v) \/ LookupFails(r, v)
  \/ Complete(r) \/ Save(r) \/ SaveFails(r)

Next == Tick \/ (\E r \in Runs : Run(r)) \/ AllOver

Spec == Init /\ [][Next]_vars
-----------------------------------------------------------------------------
(* Correctness *)

Saved == {r \in Runs : pc[r] = "saved"}

Result == [target : Onions \cup {NoRow}, started : Times, ended : Times,
           observed : SUBSET Values, shared : SUBSET SharedItems]

\* Types of the variables.
TypeOK ==
  /\ targets \in [Onions -> TargetRows \cup {NoRow}]
  /\ scans \in [ScanKeys -> Runs \cup {NoRow}]
  /\ items \in [Items -> ItemRows \cup {NoRow}]
  /\ links \in [Keys -> LinkRows \cup {NoRow}]
  /\ result \in [Runs -> Result]
  /\ pc \in [Runs -> {"idle", "crawling", "correlating", "saving", "saved", "failed"}]
  /\ todo \in [Runs -> SUBSET Signals]
  /\ known \in [Runs -> SUBSET SharedItems]
  /\ now \in Times
  /\ log \in Seq(Runs)

\* The places in the log of the runs that satisfy P, and the results of the
\* first and the last of them.
SavesOf(o) == {i \in DOMAIN log : result[log[i]].target = o}
Listing(i) == {n \in DOMAIN log : i \in Indexed(result[log[n]])}
Oldest(S) == result[log[CHOOSE i \in S : \A j \in S : i <= j]]
Newest(S) == result[log[CHOOSE i \in S : \A j \in S : j <= i]]

\* Places whose results went to one row of scans.
Stored(k) == {n \in SavesOf(k[1]) : ScanID(result[log[n]].ended) = k[2]}

\* The rows that saving the results at some places makes.
TargetRow(S) ==
  IF S = {} THEN NoRow
  ELSE [first |-> Oldest(S).started, last |-> Newest(S).ended, total |-> Cardinality(S)]
ItemRow(S) ==
  IF S = {} THEN NoRow ELSE [first |-> Oldest(S).started, last |-> Newest(S).ended]
LinkRow(S) ==
  IF S = {} THEN NoRow
  ELSE [first |-> Oldest(S).started, last |-> Newest(S).ended,
        scan |-> ScanID(Newest(S).ended)]

\* The four tables are what replaying the saved results in the order of their
\* transactions gives: the upserts of Save lose and invent nothing, whichever
\* runs interleave with them and whichever of their transactions roll back.
TargetsMatchLog == \A o \in Onions : targets[o] = TargetRow(SavesOf(o))
ItemsMatchLog == \A i \in Items : items[i] = ItemRow(Listing(i))
LinksMatchLog == \A k \in Keys : links[k] = LinkRow(SavesOf(k[1]) \cap Listing(k[2]))
ScansMatchLog ==
  \A k \in ScanKeys :
    IF Stored(k) = {} THEN scans[k] = NoRow
    ELSE scans[k] \in Runs /\ result[scans[k]] = Newest(Stored(k))
TablesMatchLog ==
  TargetsMatchLog /\ ItemsMatchLog /\ LinksMatchLog /\ ScansMatchLog

\* Whatever other runs save between its lookups, a scan reports each target
\* that the store linked to one of its values when it began to correlate,
\* unless the lookup of that value failed.
EarlierPeersFound ==
  \A r \in Runs : pc[r] \in {"saving", "saved"} => known[r] \subseteq result[r].shared

\* A peer is another target, and a scan of it that was saved observed the
\* value: neither a scan in flight, a rolled back one nor the scan itself
\* makes a peer.
PeersAreReal ==
  \A r \in Runs : \A p \in result[r].shared :
    /\ p[2] # result[r].target
    /\ \E q \in Saved : result[q].target = p[2] /\ p[1] \in result[q].observed

\* The scan ID of a link is that of a stored scan of its target, although the
\* schema declares no foreign key and rows are replaced.
ProvenanceResolves ==
  \A k \in Keys : links[k] # NoRow =>
    /\ items[k[2]] # NoRow
    /\ GetScan(k[1], links[k].scan) # NoRow

\* What the dashboard is told of targets agrees, whatever is saved between the
\* reading of a scan and the lookups of its graph: no edge ends nowhere; a
\* peer can be opened in turn, and if its latest scan shows the value its
\* graph leads back; and the assets of the target name the same peers.
GraphsAgree ==
  \A r \in Saved :
    LET o == result[r].target
        graph == BuildGraph(o, r)
    IN
    /\ \A e \in Edges(graph) : e[1] \in Nodes(graph) /\ e[2] \in Nodes(graph)
    /\ \A v \in DOMAIN graph : \A p \in graph[v] :
         /\ History(p) # {}
         /\ v \in GraphValues(Latest(p)) => o \in BuildGraph(p, Latest(p))[v]
    /\ \A v \in DOMAIN graph :
         v \in DOMAIN ListAssets(o) /\ graph[v] = ListAssets(o)[v] \ {o}
=============================================================================
