----------------------------- MODULE EvidenceStore -----------------------------
(***************************************************************************)
(* The SQLite evidence store (internal/storage/sqlite.go): its four tables,*)
(* the transaction of Save and the queries the rest of the program makes.  *)
(* The pool has one connection, so transactions and queries of the process *)
(* are serial and each of them is one step; a transaction that fails is    *)
(* rolled back and changes nothing.                                        *)
(*                                                                         *)
(* Values are evidence in its canonical form.  Columns that no query of the*)
(* program reads back (pages_seen, risk_score, observation_count) and the  *)
(* source_url, which is shown only, are left out.                          *)
(***************************************************************************)
EXTENDS Integers, FiniteSets

CONSTANTS
  Onions,         \* targets: onion addresses
  Runs,           \* scans that may be made
  Signals,        \* values of the types that are correlated across targets
  Plain,          \* values of types that are indexed only (hostname, metadata)
  Credentials,    \* values of type "credential", which are never indexed
  TicksPerSecond, \* resolution of the clock; scan IDs resolve seconds
  MaxTime,        \* bound of the model: the last tick of the clock
  NoRow           \* a table has no row for a key

Values == Signals \cup Plain \cup Credentials

\* "Shared <type> (<value>) also observed on target <peer>": the evidence of
\* a cross-target finding, which has the type of the value.
SharedItems == Signals \X Onions

Items == Signals \cup Plain \cup SharedItems

Times == 0 .. MaxTime

\* The identifier Save gives a scan: EndedAt formatted to the second.
ScanID(time) == time \div TicksPerSecond
ScanIDs == {ScanID(t) : t \in Times}

ASSUME EvidenceAssumption ==
  /\ Signals \cap Plain = {}
  /\ Credentials \cap (Signals \cup Plain) = {}
  /\ Values \cap SharedItems = {}

ASSUME StoreAssumption ==
  /\ IsFiniteSet(Runs) /\ IsFiniteSet(Onions) /\ IsFiniteSet(Values)
  /\ TicksPerSecond \in Nat \ {0}
  /\ MaxTime \in Nat

\* The rows of the tables.
TargetRows == [first : Times, last : Times, total : Nat]
ItemRows == [first : Times, last : Times]
LinkRows == [first : Times, last : Times, scan : ScanIDs]

ASSUME NoRowAssumption ==
  /\ NoRow \notin Runs \cup Onions
  /\ NoRow \notin TargetRows /\ NoRow \notin ItemRows /\ NoRow \notin LinkRows

VARIABLES
  targets,  \* onion -> [first, last, total]
  scans,    \* (onion, scan ID) -> the run whose raw_json the row holds
  items,    \* item -> [first, last]
  links,    \* (onion, item) -> [first, last, scan]
  result    \* run -> its ScanResult, what raw_json is unmarshalled to

tables == <<targets, scans, items, links>>

Keys == Onions \X Items
ScanKeys == Onions \X ScanIDs

NoTables ==
  /\ targets = [o \in Onions |-> NoRow]
  /\ scans = [k \in ScanKeys |-> NoRow]
  /\ items = [i \in Items |-> NoRow]
  /\ links = [k \in Keys |-> NoRow]

-----------------------------------------------------------------------------
(* What a result adds to the index: the values its analyzers' findings     *)
(* hold (INFRA-002 repeats some of them), never a credential, and what its *)
(* INFRA-004 finding says other targets share with it.                     *)

Indexed(res) == (res.observed \ Credentials) \cup res.shared

-----------------------------------------------------------------------------
(* Save *)

UpsertTarget(res) ==
  targets' = [targets EXCEPT ![res.target] =
    IF @ = NoRow
    THEN [first |-> res.started, last |-> res.ended, total |-> 1]
    ELSE [first |-> @.first, last |-> res.ended, total |-> @.total + 1]]

\* Mutant of ReplaceScan: the ID is the second in which the scan started.
StoreByStart(r, res) ==
  scans' = [scans EXCEPT ![<<res.target, ScanID(res.started)>>] = r]

\* INSERT OR REPLACE INTO scans
ReplaceScan(r, res) ==
  scans' = [scans EXCEPT ![<<res.target, ScanID(res.ended)>>] = r]

\* Mutant of IndexEvidence: an item seen before is left as it is.
IndexUnseen(res) ==
  /\ items' = [i \in Items |->
       IF i \in Indexed(res) /\ items[i] = NoRow
       THEN [first |-> res.started, last |-> res.ended] ELSE items[i]]
  /\ links' = [k \in Keys |->
       IF k[1] = res.target /\ k[2] \in Indexed(res) /\ items[k[2]] = NoRow
       THEN [first |-> res.started, last |-> res.ended, scan |-> ScanID(res.ended)]
       ELSE links[k]]

\* indexEvidenceTx: upsert each item of the result and its link to the target.
IndexEvidence(res) ==
  /\ items' = [i \in Items |->
       IF i \notin Indexed(res) THEN items[i]
       ELSE IF items[i] = NoRow
            THEN [first |-> res.started, last |-> res.ended]
            ELSE [first |-> items[i].first, last |-> res.ended]]
  /\ links' = [k \in Keys |->
       IF k[1] # res.target \/ k[2] \notin Indexed(res) THEN links[k]
       ELSE IF links[k] = NoRow
            THEN [first |-> res.started, last |-> res.ended, scan |-> ScanID(res.ended)]
            ELSE [first |-> links[k].first, last |-> res.ended, scan |-> ScanID(res.ended)]]

\* The whole transaction of Save for the result of run r.
SaveTx(r, res) ==
  /\ UpsertTarget(res)
  /\ ReplaceScan(r, res)
  /\ IndexEvidence(res)

-----------------------------------------------------------------------------
(* Queries *)

FindCoOccurringTargets(i) == {o \in Onions : links[<<o, i>>] # NoRow}

GetScan(o, id) == scans[<<o, id>>]

History(o) == {scans[<<o, id>>] : id \in ScanIDs} \ {NoRow}

\* ORDER BY ended_at DESC LIMIT 1
Latest(o) ==
  CHOOSE r \in History(o) : \A q \in History(o) : result[q].ended <= result[r].ended

\* The items of a target, each with all its targets.
ListAssets(o) ==
  [i \in {j \in Items : links[<<o, j>>] # NoRow} |-> FindCoOccurringTargets(i)]
=============================================================================
