------------------------------- MODULE FileStore -------------------------------
(***************************************************************************)
(* The file-backed store (internal/storage/filestore.go): a JSON file per  *)
(* scan, and an index with a JSON file per evidence item that links the    *)
(* targets that showed the item to their last scan.  A mutex makes the     *)
(* operations of a process exclude each other, so that queries are state   *)
(* functions; any step of Save may fail, and the process may be killed     *)
(* between any two of them and started again.  What was written survives:  *)
(* power loss is not modelled.                                             *)
(*                                                                         *)
(* Scan files are named after the second in which the scan ended.  Scans   *)
(* are saved in any order.  Of an index entry the links are modelled;      *)
(* counts, times and sources are left out.                                 *)
(***************************************************************************)
EXTENDS Integers, Sequences, SequencesExt

CONSTANTS
  Onions,      \* targets with a legal directory name
  Seconds,     \* in which scans end, that is, scan IDs; their order does not matter
  Items,       \* evidence items, by type and canonical value
  Unindexed,   \* those that are credentials or blank
  ItemLists,   \* what scans find: sequences of items
  MaxSaves,    \* bound: saves that get as far as their file
  NoFile,      \* no such file
  Torn         \* a file that was created and is not, or partly, written

ASSUME FileStoreAssumption ==
  /\ Unindexed \subseteq Items
  /\ ItemLists \subseteq Seq(Items)
  /\ MaxSaves \in Nat
  /\ NoFile # Torn

Keys == Onions \X Seconds

\* What an index file holds: targets, each with the second of its last scan.
Links == UNION {[S -> Seconds] : S \in SUBSET Onions}

ASSUME MarkersAssumption ==
  /\ NoFile \notin Nat /\ Torn \notin Nat
  /\ NoFile \notin Links /\ Torn \notin Links

VARIABLES
  files,   \* scan files: key -> the save that wrote it, as a place in log
  index,   \* index files: item -> (onion -> last scan ID)
  pc,      \* of Save: "idle" when no operation holds the mutex
  at,      \* position in the evidence of the scan that is being saved
  tmp,     \* the index entry in the temporary file
  \* history
  log,     \* the scans for which a file was created, in their order
  acked,   \* saves that returned without an error
  missed,  \* <<save, item>>: not in the index, because a step failed
  rebuilt  \* <<save, item>>: entry rebuilt, because it could not be read

vars == <<files, index, pc, at, tmp, log, acked, missed, rebuilt>>

Init ==
  /\ files = [k \in Keys |-> NoFile]
  /\ index = [i \in Items |-> NoFile]
  /\ pc = "idle" /\ at = 1 /\ tmp = <<>>
  /\ log = <<>> /\ acked = {} /\ missed = {} /\ rebuilt = {}

This == Len(log)
Scan == log[This]
Key(n) == <<log[n].onion, log[n].second>>

-----------------------------------------------------------------------------
(* Queries *)

GetScan(onion, second) == files[<<onion, second>>]

\* One file that cannot be read, and there is no history.
HistoryFails(onion) == \E s \in Seconds : GetScan(onion, s) = Torn

FindCoOccurringTargets(item) == IF index[item] = NoFile THEN <<>> ELSE index[item]

-----------------------------------------------------------------------------
(* Save *)

\* os.Create takes the place of the file of a scan that ended in the same
\* second.  A target whose directory or file cannot be created is an error,
\* after which nothing has changed.
Create ==
  /\ pc = "idle" /\ Len(log) < MaxSaves
  /\ \E o \in Onions, s \in Seconds, items \in ItemLists :
       /\ log' = Append(log, [onion |-> o, second |-> s, items |-> items])
       /\ files' = [files EXCEPT ![<<o, s>>] = Torn]
  /\ pc' = "write"
  /\ UNCHANGED <<index, at, tmp, acked, missed, rebuilt>>

Write ==
  /\ pc = "write"
  /\ files' = [files EXCEPT ![Key(This)] = This]
  /\ pc' = "index" /\ at' = 1
  /\ UNCHANGED <<index, tmp, log, acked, missed, rebuilt>>

\* Mutant of WriteFails: the error of the encoder is not looked at.
WriteFailsUnseen ==
  /\ pc = "write"
  /\ pc' = "index" /\ at' = 1
  /\ UNCHANGED <<files, index, tmp, log, acked, missed, rebuilt>>

\* The file stays as it is.
WriteFails ==
  /\ pc = "write"
  /\ pc' = "idle"
  /\ UNCHANGED <<files, index, at, tmp, log, acked, missed, rebuilt>>

MoreEvidence == pc = "index" /\ at \in DOMAIN Scan.items

SkipEvidence ==
  /\ MoreEvidence
  /\ Scan.items[at] \in Unindexed
  /\ at' = at + 1
  /\ UNCHANGED <<files, index, pc, tmp, log, acked, missed, rebuilt>>

\* Mutant of Linked: the entry is made anew.
LinkedAlone(entry) == [o \in {Scan.onion} |-> Scan.second]

\* The target's link names the scan, whatever the order of the two scans.
Linked(entry) ==
  [o \in DOMAIN entry \cup {Scan.onion} |->
     IF o = Scan.onion THEN Scan.second ELSE entry[o]]

\* Mutant of WriteEntry: the index file itself is written.
WriteEntryInPlace ==
  /\ MoreEvidence
  /\ LET i == Scan.items[at] IN
     /\ i \notin Unindexed
     /\ tmp' = IF index[i] = Torn THEN Linked(<<>>) ELSE Linked(FindCoOccurringTargets(i))
     /\ index' = [index EXCEPT ![i] = Torn]
  /\ pc' = "rename"
  /\ UNCHANGED <<files, at, log, acked, missed, rebuilt>>

\* An entry that cannot be read or parsed counts as new.
WriteEntry ==
  /\ MoreEvidence
  /\ LET i == Scan.items[at] IN
     /\ i \notin Unindexed
     /\ \/ /\ index[i] # Torn
           /\ tmp' = Linked(FindCoOccurringTargets(i))
           /\ UNCHANGED rebuilt
        \/ /\ index[i] # NoFile
           /\ tmp' = Linked(<<>>)
           /\ rebuilt' = rebuilt \cup {<<This, i>>}
  /\ pc' = "rename"
  /\ UNCHANGED <<files, index, at, log, acked, missed>>

RenameEntry ==
  /\ pc = "rename"
  /\ index' = [index EXCEPT ![Scan.items[at]] = tmp]
  /\ pc' = "index" /\ at' = at + 1 /\ tmp' = <<>>
  /\ UNCHANGED <<files, log, acked, missed, rebuilt>>

\* The error of the rename is dropped.
RenameFails ==
  /\ pc = "rename"
  /\ missed' = missed \cup {<<This, Scan.items[at]>>}
  /\ pc' = "index" /\ at' = at + 1 /\ tmp' = <<>>
  /\ UNCHANGED <<files, index, log, acked, rebuilt>>

\* The directory or the temporary file of an item cannot be written: the rest
\* of the scan is not indexed, and Save drops the error.
IndexFails ==
  /\ MoreEvidence
  /\ Scan.items[at] \notin Unindexed
  /\ missed' = missed \cup {<<This, Scan.items[j]>> : j \in at .. Len(Scan.items)}
  /\ acked' = acked \cup {This}
  /\ pc' = "idle" /\ at' = 1
  /\ UNCHANGED <<files, index, tmp, log, rebuilt>>

SaveReturns ==
  /\ pc = "index" /\ ~MoreEvidence
  /\ acked' = acked \cup {This}
  /\ pc' = "idle" /\ at' = 1
  /\ UNCHANGED <<files, index, tmp, log, missed, rebuilt>>

\* Killed, and started again over the same files.
Crash ==
  /\ pc # "idle"
  /\ pc' = "idle" /\ at' = 1 /\ tmp' = <<>>
  /\ UNCHANGED <<files, index, log, acked, missed, rebuilt>>

Save ==
  \/ Create \/ Write \/ WriteFails
  \/ SkipEvidence \/ WriteEntry \/ RenameEntry \/ RenameFails \/ IndexFails
  \/ SaveReturns

Next == Save \/ Crash

Spec == Init /\ [][Next]_vars

-----------------------------------------------------------------------------
(* Correctness.  An invariant holds at every step of Save, hence for what a *)
(* process finds that is started after a kill at that step.                 *)

\* A later scan of the target that ended in the same second took the file.
Replaced(n) == \E m \in n + 1 .. Len(log) : Key(m) = Key(n)

\* The index can always be read, and each of its links is to a scan that is
\* there and shows the item, unless another scan has taken its file: killed
\* or failing at any step, Save has written the scan before it links to it,
\* and replaces an entry as a whole.
LinksResolve ==
  \A i \in Items :
    /\ FindCoOccurringTargets(i) # Torn
    /\ \A o \in DOMAIN FindCoOccurringTargets(i) :
         LET s == FindCoOccurringTargets(i)[o] IN
         \E n \in DOMAIN log :
           /\ Key(n) = <<o, s>> /\ i \in ToSet(log[n].items)
           /\ GetScan(o, s) = n \/ Replaced(n)

\* Whatever order the scans of several targets are saved in, an item of a
\* scan that was saved is linked to its target, by that scan or a later one,
\* unless a step of the index failed, for this scan or since for the entry.
IndexAccountsForScans ==
  \A n \in acked : \A i \in ToSet(log[n].items) \ Unindexed :
    LET links == FindCoOccurringTargets(i) IN
    \/ <<n, i>> \in missed
    \/ \E m \in n + 1 .. Len(log) : <<m, i>> \in rebuilt
    \/ /\ log[n].onion \in DOMAIN links
       /\ \E m \in n .. Len(log) : Key(m) = <<log[n].onion, links[log[n].onion]>>

\* A scan whose Save returned without an error is read back as it was, and no
\* kill, failure or save of another scan can damage it but one of the same
\* target and second; a history that fails is due to a save that did not
\* return, or returned an error.
SavedScansKept ==
  /\ \A n \in acked : Replaced(n) \/ GetScan(log[n].onion, log[n].second) = n
  /\ \A o \in Onions : HistoryFails(o) =>
       \E n \in DOMAIN log \ acked : log[n].onion = o /\ files[Key(n)] = Torn
=============================================================================
