----------------------------- MODULE ScanRunsProofs -----------------------------
(***************************************************************************)
(* Proofs about ScanRuns, with the evidence store and the graphs made of   *)
(* it, for any number of runs, targets and values and any clock.           *)
(***************************************************************************)
EXTENDS ScanRuns, SequenceTheorems, FiniteSetTheorems, TLAPS

\* A run that is under way has a target; peers are found and known only from
\* the correlation on, and none is left to look up when the run is saved.
RunsInv ==
  \A r \in Runs :
    /\ pc[r] \in {"crawling", "correlating", "saving", "saved"} => result[r].target \in Onions
    /\ pc[r] \in {"idle", "crawling", "failed"} => result[r].shared = {} /\ known[r] = {}
    /\ pc[r] \in {"saving", "saved"} => todo[r] = {}

\* The log holds the runs that were saved, and so do the rows of scans.
LogInv ==
  /\ \A n \in DOMAIN log : log[n] \in Saved
  /\ \A r \in Saved : \E n \in DOMAIN log : log[n] = r
  /\ \A k \in ScanKeys : scans[k] # NoRow => scans[k] \in Saved

\* A peer that was known is still linked, if its lookup is to come, or found.
KnownInv ==
  \A r \in Runs : \A p \in known[r] :
    \/ /\ p[1] \in todo[r] /\ p[2] # result[r].target
       /\ p[2] \in FindCoOccurringTargets(p[1])
    \/ p \in result[r].shared

IInv ==
  /\ TypeOK /\ RunsInv /\ LogInv /\ KnownInv
  /\ TablesMatchLog /\ PeersAreReal

-----------------------------------------------------------------------------
(* The first and the last place of a set *)

\* A set of natural numbers has a least one: among its beginnings, which are
\* finite, one contains no other.
LEMMA Least ==
  ASSUME NEW S \in SUBSET Nat, S # {}
  PROVE  \E i \in S : \A j \in S : i <= j
<1> DEFINE upTo(m) == S \cap (0 .. m)
           T == {upTo(m) : m \in S}
<1>1. T \subseteq FiniteSubsetsOf(Nat) /\ T # {}
  <2>1. ASSUME NEW m \in S PROVE upTo(m) \in FiniteSubsetsOf(Nat)
    <3>1. IsFiniteSet(0 .. m) /\ upTo(m) \in SUBSET (0 .. m)
      BY FS_Interval
    <3>2. IsFiniteSet(upTo(m))
      BY <3>1, FS_Subset
    <3> QED
      BY <3>2 DEF FiniteSubsetsOf
  <2> QED
    BY <2>1
<1>2. IsWellFoundedOn(StrictSubsetOrdering(Nat), FiniteSubsetsOf(Nat))
  BY FS_StrictSubsetOrderingWellFounded
<1>3. PICK x \in T : \A y \in T : <<y, x>> \notin StrictSubsetOrdering(Nat)
  <2> HIDE DEF T
  <2> QED
    BY <1>1, <1>2, WFMin
<1>4. PICK i \in S : x = upTo(i)
  OBVIOUS
<1>5. ASSUME NEW j \in S, j < i PROVE FALSE
  <2>1. upTo(j) \subseteq upTo(i) /\ i \in upTo(i) /\ i \notin upTo(j)
    BY <1>5
  <2>2. <<upTo(j), upTo(i)>> \in StrictSubsetOrdering(Nat)
    BY <2>1 DEF StrictSubsetOrdering
  <2> QED
    BY <1>3, <1>4, <2>2
<1> QED
  BY <1>5

\* A bounded one has a greatest.
LEMMA Greatest ==
  ASSUME NEW n \in Nat, NEW S \in SUBSET (0 .. n), S # {}
  PROVE  \E i \in S : \A j \in S : j <= i
<1> DEFINE T == {n - i : i \in S}
<1>1. \A i \in S : n - i \in Nat
  OBVIOUS
<1>2. PICK d \in T : \A e \in T : d <= e
  <2>1. T \in SUBSET Nat /\ T # {}
    BY <1>1
  <2> HIDE DEF T
  <2> QED
    BY <2>1, Least
<1>3. PICK i \in S : d = n - i
  OBVIOUS
<1>4. ASSUME NEW j \in S PROVE j <= i
  <2>1. d <= n - j
    BY <1>2
  <2> QED
    BY <1>3, <2>1
<1> QED
  BY <1>4

\* CHOOSE picks them, as there is one each.
LEMMA ChosenEnds ==
  ASSUME NEW S \in SUBSET Nat, NEW i \in S
  PROVE  /\ (\A j \in S : i <= j) => (CHOOSE k \in S : \A j \in S : k <= j) = i
         /\ (\A j \in S : j <= i) => (CHOOSE k \in S : \A j \in S : j <= k) = i
<1>1. \A k \in S : (\A j \in S : i <= j) /\ (\A j \in S : k <= j) => k = i
  OBVIOUS
<1>2. \A k \in S : (\A j \in S : j <= i) /\ (\A j \in S : j <= k) => k = i
  OBVIOUS
<1> QED
  BY <1>1, <1>2

-----------------------------------------------------------------------------
(* Facts about the log *)

\* The places of the log and the results there.
LEMMA LogFacts ==
  ASSUME TypeOK
  PROVE  /\ Len(log) \in Nat /\ DOMAIN log = 1 .. Len(log)
         /\ \A n \in DOMAIN log : log[n] \in Runs /\ result[log[n]] \in Result
         /\ \A o : SavesOf(o) \subseteq DOMAIN log
         /\ \A i : Listing(i) \subseteq DOMAIN log
<1>1. /\ Len(log) \in Nat /\ DOMAIN log = 1 .. Len(log)
      /\ \A n \in DOMAIN log : log[n] \in Runs
  BY LenProperties, ElementOfSeq DEF TypeOK
<1>2. \A n \in DOMAIN log : result[log[n]] \in Result
  BY <1>1 DEF TypeOK
<1> QED
  BY <1>1, <1>2 DEF SavesOf, Listing

\* The first and the last of some places exist.
LEMMA Ends ==
  ASSUME TypeOK, NEW S \in SUBSET DOMAIN log, S # {}
  PROVE  /\ \E i \in S : (\A j \in S : i <= j) /\ Oldest(S) = result[log[i]]
         /\ \E i \in S : (\A j \in S : j <= i) /\ Newest(S) = result[log[i]]
<1>1. Len(log) \in Nat /\ S \in SUBSET (0 .. Len(log)) /\ S \in SUBSET Nat
  BY LogFacts
<1>2. \E i \in S : \A j \in S : i <= j
  BY <1>1, Least
<1>3. \E i \in S : \A j \in S : j <= i
  BY <1>1, Greatest
<1> QED
  BY <1>2, <1>3 DEF Oldest, Newest

\* What is said of the log depends on the results in it alone.
LEMMA SameLog ==
  ASSUME TypeOK, log' = log, \A n \in DOMAIN log : result'[log[n]] = result[log[n]]
  PROVE  /\ \A o : SavesOf(o)' = SavesOf(o)
         /\ \A i : Listing(i)' = Listing(i)
         /\ \A S \in SUBSET DOMAIN log :
              S # {} => Oldest(S)' = Oldest(S) /\ Newest(S)' = Newest(S)
<1>1. \A o : SavesOf(o)' = SavesOf(o)
  BY DEF SavesOf
<1>2. \A i : Listing(i)' = Listing(i)
  BY DEF Listing, Indexed
<1>3. ASSUME NEW S \in SUBSET DOMAIN log, S # {}
      PROVE  Oldest(S)' = Oldest(S) /\ Newest(S)' = Newest(S)
  <2>1. /\ (CHOOSE i \in S : \A j \in S : i <= j) \in S
        /\ (CHOOSE i \in S : \A j \in S : j <= i) \in S
    <3>1. Len(log) \in Nat /\ S \in SUBSET (0 .. Len(log)) /\ S \in SUBSET Nat
      BY LogFacts
    <3> QED
      BY <1>3, <3>1, Least, Greatest
  <2> QED
    BY <2>1 DEF Oldest, Newest
<1> QED
  BY <1>1, <1>2, <1>3

\* A run is saved: its place is behind all others.
LEMMA Grown ==
  ASSUME TypeOK, NEW r \in Runs, log' = Append(log, r), result' = result,
         NEW last, last = Len(log) + 1
  PROVE  /\ DOMAIN log' = 1 .. last /\ DOMAIN log = 1 .. last - 1 /\ last \in Nat
         /\ \A n \in DOMAIN log : log'[n] = log[n]
         /\ log'[last] = r
         /\ \A S \in SUBSET DOMAIN log :
              /\ S # {} => Oldest(S)' = Oldest(S) /\ Newest(S)' = Newest(S)
              /\ Newest(S \cup {last})' = result[r]
              /\ Oldest(S \cup {last})' = IF S = {} THEN result[r] ELSE Oldest(S)
<1>1. /\ log' \in Seq(Runs) /\ Len(log') = last
      /\ \A n \in 1 .. Len(log) : log'[n] = log[n]
      /\ log'[last] = r
  BY AppendProperties DEF TypeOK
<1>2. /\ Len(log) \in Nat /\ DOMAIN log = 1 .. Len(log)
      /\ DOMAIN log' = 1 .. last /\ last \in Nat
  BY <1>1, LogFacts, LenProperties
<1>3. ASSUME NEW S \in SUBSET DOMAIN log, S # {}
      PROVE  Oldest(S)' = Oldest(S) /\ Newest(S)' = Newest(S)
  <2>1. /\ (CHOOSE i \in S : \A j \in S : i <= j) \in S
        /\ (CHOOSE i \in S : \A j \in S : j <= i) \in S
    <3>1. Len(log) \in Nat /\ S \in SUBSET (0 .. Len(log)) /\ S \in SUBSET Nat
      BY <1>2
    <3> QED
      BY <1>3, <3>1, Least, Greatest
  <2> QED
    BY <1>1, <1>2, <2>1 DEF Oldest, Newest
<1>4. ASSUME NEW S \in SUBSET DOMAIN log
      PROVE  /\ Newest(S \cup {last})' = result[r]
             /\ Oldest(S \cup {last})' = IF S = {} THEN result[r] ELSE Oldest(S)
  <2>1. PICK T : T = S \cup {last}
    OBVIOUS
  <2>2. /\ last \in T /\ T \in SUBSET Nat /\ S \in SUBSET Nat
        /\ \A i \in S : i < last
    BY <1>2, <2>1
  <2>3. \A i \in T : i <= last
    BY <1>2, <2>1, <2>2
  <2>4. (CHOOSE i \in T : \A j \in T : j <= i) = last
    BY <2>2, <2>3, ChosenEnds
  <2>5. Newest(T)' = result[r]
    BY <1>1, <2>4 DEF Newest
  <2>6. CASE S = {}
    <3>1. \A j \in T : last <= j
      BY <1>2, <2>1, <2>6
    <3>2. (CHOOSE i \in T : \A j \in T : i <= j) = last
      BY <2>2, <3>1, ChosenEnds
    <3> QED
      BY <1>1, <2>1, <2>5, <2>6, <3>2 DEF Oldest
  <2>7. CASE S # {}
    <3>1. PICK i \in S : \A j \in S : i <= j
      BY <2>2, <2>7, Least
    <3>2. i \in T /\ \A j \in T : i <= j
      BY <1>2, <2>1, <2>2, <3>1
    <3>3. /\ (CHOOSE k \in S : \A j \in S : k <= j) = i
          /\ (CHOOSE k \in T : \A j \in T : k <= j) = i
      BY <2>2, <3>1, <3>2, ChosenEnds
    <3>4. log'[i] = log[i]
      BY <1>1, <1>2
    <3>5. Oldest(T)' = Oldest(S)
      BY <3>3, <3>4 DEF Oldest
    <3> QED
      BY <2>1, <2>5, <2>7, <3>5
  <2> QED
    BY <2>6, <2>7
<1>5. DOMAIN log = 1 .. last - 1
  BY <1>2
<1>6. \A n \in DOMAIN log : log'[n] = log[n]
  BY <1>1, <1>2
<1> QED
  BY <1>1, <1>2, <1>3, <1>4, <1>5, <1>6

-----------------------------------------------------------------------------
(* The tables *)

\* Steps other than a save leave the tables, the log and the results in it.
LEMMA QuietSteps ==
  ASSUME TypeOK, Next, ~\E r \in Runs : Save(r)
  PROVE  /\ UNCHANGED <<targets, scans, items, links, log>>
         /\ Saved' = Saved
         /\ \A q \in Saved : result'[q] = result[q]
<1>1. CASE Tick \/ AllOver
  BY <1>1 DEF Tick, AllOver, vars, tables, runVars, Saved
<1>2. ASSUME NEW r \in Runs, Run(r)
      PROVE  /\ UNCHANGED <<targets, scans, items, links, log>>
             /\ pc' = [pc EXCEPT ![r] = pc'[r]] /\ pc[r] # "saved" /\ pc'[r] # "saved"
             /\ \A q \in Runs \ {r} : result'[q] = result[q]
  <2> USE DEF TypeOK, tables
  <2>1. CASE Start(r)
    BY <2>1 DEF Start
  <2>2. CASE CrawlFails(r) \/ SaveFails(r)
    BY <2>2 DEF CrawlFails, SaveFails, Fail
  <2>3. CASE CrawlReturns(r)
    BY <2>3 DEF CrawlReturns
  <2>4. ASSUME NEW v \in Signals, Lookup(r, v) \/ LookupFails(r, v)
        PROVE  /\ UNCHANGED <<targets, scans, items, links, log>>
               /\ pc' = [pc EXCEPT ![r] = pc'[r]] /\ pc[r] # "saved" /\ pc'[r] # "saved"
               /\ \A q \in Runs \ {r} : result'[q] = result[q]
    BY <2>4 DEF Lookup, LookupFails
  <2>5. CASE Complete(r)
    BY <2>5 DEF Complete
  <2>6. ~Save(r)
    OBVIOUS
  <2> QED
    BY <1>2, <2>1, <2>2, <2>3, <2>4, <2>5, <2>6 DEF Run
<1>3. ASSUME NEW r \in Runs, Run(r)
      PROVE  /\ UNCHANGED <<targets, scans, items, links, log>>
             /\ Saved' = Saved
             /\ \A q \in Saved : result'[q] = result[q]
  <2>1. \A q \in Runs : pc'[q] = "saved" <=> pc[q] = "saved"
    BY <1>2, <1>3 DEF TypeOK
  <2> QED
    BY <1>2, <1>3, <2>1 DEF Saved
<1> QED
  BY <1>1, <1>3 DEF Next

\* So the tables go on to match the log.
LEMMA QuietKeepsTables ==
  ASSUME TypeOK, LogInv, TablesMatchLog, log' = log,
         UNCHANGED <<targets, scans, items, links>>,
         Saved' = Saved, \A q \in Saved : result'[q] = result[q]
  PROVE  LogInv' /\ TablesMatchLog'
<1>1. \A n \in DOMAIN log : result'[log[n]] = result[log[n]]
  BY DEF LogInv
<1>2. /\ \A o : SavesOf(o)' = SavesOf(o) /\ SavesOf(o) \in SUBSET DOMAIN log
      /\ \A i : Listing(i)' = Listing(i) /\ Listing(i) \in SUBSET DOMAIN log
      /\ \A S \in SUBSET DOMAIN log :
           S # {} => Oldest(S)' = Oldest(S) /\ Newest(S)' = Newest(S)
  BY <1>1, SameLog, LogFacts
<1>3. LogInv'
  BY DEF LogInv
<1>4. \A S \in SUBSET DOMAIN log :
        TargetRow(S)' = TargetRow(S) /\ ItemRow(S)' = ItemRow(S) /\ LinkRow(S)' = LinkRow(S)
  BY <1>2 DEF TargetRow, ItemRow, LinkRow, ScanID
<1>5. ASSUME NEW o \in Onions PROVE targets'[o] = TargetRow(SavesOf(o))'
  <2>1. PICK S \in SUBSET DOMAIN log : S = SavesOf(o) /\ S = SavesOf(o)'
    BY <1>2
  <2>2. TargetRow(SavesOf(o))' = TargetRow(S)'
    BY <2>1 DEF TargetRow, Oldest, Newest
  <2> QED
    BY <1>4, <2>1, <2>2 DEF TablesMatchLog, TargetsMatchLog
<1>6. ASSUME NEW i \in Items PROVE items'[i] = ItemRow(Listing(i))'
  <2>1. PICK S \in SUBSET DOMAIN log : S = Listing(i) /\ S = Listing(i)'
    BY <1>2
  <2>2. ItemRow(Listing(i))' = ItemRow(S)'
    BY <2>1 DEF ItemRow, Oldest, Newest
  <2> QED
    BY <1>4, <2>1, <2>2 DEF TablesMatchLog, ItemsMatchLog
<1>7. ASSUME NEW k \in Keys PROVE links'[k] = LinkRow(SavesOf(k[1]) \cap Listing(k[2]))'
  <2>1. PICK S \in SUBSET DOMAIN log :
          /\ S = SavesOf(k[1]) \cap Listing(k[2])
          /\ S = (SavesOf(k[1]) \cap Listing(k[2]))'
    BY <1>2
  <2>2. LinkRow(SavesOf(k[1]) \cap Listing(k[2]))' = LinkRow(S)'
    BY <2>1 DEF LinkRow, Oldest, Newest
  <2> QED
    BY <1>4, <2>1, <2>2 DEF TablesMatchLog, LinksMatchLog
<1>8. ASSUME NEW k \in ScanKeys
      PROVE  IF Stored(k)' = {} THEN scans'[k] = NoRow
             ELSE scans'[k] \in Runs /\ result'[scans'[k]] = Newest(Stored(k))'
  <2>1. Stored(k)' = Stored(k) /\ Stored(k) \in SUBSET DOMAIN log
    BY <1>1, <1>2 DEF Stored, ScanID
  <2>2. PICK S \in SUBSET DOMAIN log : S = Stored(k) /\ S = Stored(k)'
    BY <2>1
  <2>3. Newest(Stored(k))' = Newest(S)'
    BY <2>2 DEF Newest
  <2>4. scans[k] # NoRow => scans[k] \in Saved
    BY DEF LogInv
  <2>5. scans[k] \in Runs => scans[k] # NoRow
    BY NoRowAssumption
  <2> QED
    BY <1>2, <2>2, <2>3, <2>4, <2>5 DEF TablesMatchLog, ScansMatchLog
<1> QED
  BY <1>3, <1>5, <1>6, <1>7, <1>8
     DEF TablesMatchLog, TargetsMatchLog, ItemsMatchLog, LinksMatchLog, ScansMatchLog

\* What a save makes of a row, or of none.
JoinTarget(row, res) ==
  IF row = NoRow
  THEN [first |-> res.started, last |-> res.ended, total |-> 1]
  ELSE [first |-> row.first, last |-> res.ended, total |-> row.total + 1]
JoinItem(row, res) ==
  IF row = NoRow
  THEN [first |-> res.started, last |-> res.ended]
  ELSE [first |-> row.first, last |-> res.ended]
JoinLink(row, res) ==
  IF row = NoRow
  THEN [first |-> res.started, last |-> res.ended, scan |-> ScanID(res.ended)]
  ELSE [first |-> row.first, last |-> res.ended, scan |-> ScanID(res.ended)]

\* The rows when one more place joins those they are made of.
LEMMA GrownRows ==
  ASSUME TypeOK, NEW r \in Runs, log' = Append(log, r), result' = result,
         NEW last, last = Len(log) + 1, NEW S \in SUBSET DOMAIN log,
         NEW res, res = result[r], NEW T, T = S \cup {last}
  PROVE  /\ TargetRow(S)' = TargetRow(S) /\ ItemRow(S)' = ItemRow(S) /\ LinkRow(S)' = LinkRow(S)
         /\ S # {} => Newest(S)' = Newest(S)
         /\ T # {} /\ Newest(T)' = res
         /\ TargetRow(T)' = JoinTarget(TargetRow(S), res)
         /\ ItemRow(T)' = JoinItem(ItemRow(S), res)
         /\ LinkRow(T)' = JoinLink(LinkRow(S), res)
<1>1. /\ S # {} => Oldest(S)' = Oldest(S) /\ Newest(S)' = Newest(S)
      /\ Newest(T)' = res
      /\ Oldest(T)' = IF S = {} THEN res ELSE Oldest(S)
      /\ DOMAIN log = 1 .. last - 1 /\ last \in Nat
  BY Grown
<1>2. T # {} /\ T = S \cup {last}
  OBVIOUS
<1>3. /\ Cardinality(S) \in Nat
      /\ Cardinality(T) = Cardinality(S) + 1
      /\ S = {} => Cardinality(S) = 0
  <2>1. IsFiniteSet(DOMAIN log)
    BY <1>1, FS_Interval
  <2>2. IsFiniteSet(S)
    BY <2>1, FS_Subset
  <2>3. last \notin S
    BY <1>1
  <2> QED
    BY <2>2, <2>3, FS_AddElement, FS_CardinalityType, FS_EmptySet
<1>4. TargetRow(S)' = TargetRow(S) /\ ItemRow(S)' = ItemRow(S) /\ LinkRow(S)' = LinkRow(S)
  BY <1>1 DEF TargetRow, ItemRow, LinkRow, ScanID
<1>5. CASE S = {}
  <2>1. /\ TargetRow(S) = NoRow /\ ItemRow(S) = NoRow /\ LinkRow(S) = NoRow
    BY <1>5 DEF TargetRow, ItemRow, LinkRow
  <2>2. TargetRow(T)' = [first |-> res.started, last |-> res.ended, total |-> 1]
    BY <1>1, <1>2, <1>3, <1>5 DEF TargetRow
  <2>3. ItemRow(T)' = [first |-> res.started, last |-> res.ended]
    BY <1>1, <1>2, <1>5 DEF ItemRow
  <2>4. LinkRow(T)' =
          [first |-> res.started, last |-> res.ended, scan |-> ScanID(res.ended)]
    BY <1>1, <1>2, <1>5 DEF LinkRow, ScanID
  <2> QED
    BY <1>1, <1>2, <1>4, <1>5, <2>1, <2>2, <2>3, <2>4 DEF JoinTarget, JoinItem, JoinLink
<1>6. CASE S # {}
  <2>1. Oldest(S) \in Result /\ Newest(S) \in Result
    BY <1>6, Ends, LogFacts
  <2>2. ScanID(Newest(S).ended) \in ScanIDs
    BY <2>1 DEF Result, ScanIDs
  <2>3. TargetRow(S) \in TargetRows /\ ItemRow(S) \in ItemRows /\ LinkRow(S) \in LinkRows
    BY <1>3, <1>6, <2>1, <2>2 DEF TargetRow, ItemRow, LinkRow, TargetRows, ItemRows, LinkRows,
                                 Result
  <2>4. /\ TargetRow(S) # NoRow /\ ItemRow(S) # NoRow /\ LinkRow(S) # NoRow
    BY <2>3, NoRowAssumption
  <2>5. TargetRow(T)' =
          [first |-> TargetRow(S).first, last |-> res.ended, total |-> TargetRow(S).total + 1]
    <3>1. /\ TargetRow(S).first = Oldest(S).started /\ TargetRow(S).total = Cardinality(S)
      BY <1>6 DEF TargetRow
    <3>2. TargetRow(T)' =
            [first |-> Oldest(S).started, last |-> res.ended, total |-> Cardinality(S) + 1]
      BY <1>1, <1>2, <1>3, <1>6 DEF TargetRow
    <3> QED
      BY <3>1, <3>2
  <2>6. ItemRow(T)' = [first |-> ItemRow(S).first, last |-> res.ended]
    <3>1. ItemRow(S) =
            [first |-> Oldest(S).started, last |-> Newest(S).ended]
      BY <1>6 DEF ItemRow
    <3>2. ItemRow(T)' =
            [first |-> Oldest(S).started, last |-> res.ended]
      BY <1>1, <1>2, <1>6 DEF ItemRow
    <3> QED
      BY <3>1, <3>2
  <2>7. LinkRow(T)' =
          [first |-> LinkRow(S).first, last |-> res.ended, scan |-> ScanID(res.ended)]
    <3>1. LinkRow(S).first = Oldest(S).started
      BY <1>6 DEF LinkRow
    <3>2. LinkRow(T)' =
            [first |-> Oldest(S).started, last |-> res.ended, scan |-> ScanID(res.ended)]
      BY <1>1, <1>2, <1>6 DEF LinkRow, ScanID
    <3> QED
      BY <3>1, <3>2
  <2> QED
    BY <1>1, <1>2, <1>4, <1>6, <2>4, <2>5, <2>6, <2>7 DEF JoinTarget, JoinItem, JoinLink
<1> QED
  BY <1>5, <1>6

\* A save adds its place to those of its target and of the items it indexes.
LEMMA SavedPlaces ==
  ASSUME TypeOK, NEW r \in Runs, log' = Append(log, r), result' = result,
         NEW last, last = Len(log) + 1
  PROVE  /\ \A o : SavesOf(o)' =
              IF o = result[r].target THEN SavesOf(o) \cup {last} ELSE SavesOf(o)
         /\ \A i : Listing(i)' =
              IF i \in Indexed(result[r]) THEN Listing(i) \cup {last} ELSE Listing(i)
         /\ \A k : Stored(k)' =
              IF k[1] = result[r].target /\ k[2] = ScanID(result[r].ended)
              THEN Stored(k) \cup {last} ELSE Stored(k)
<1>1. /\ DOMAIN log' = 1 .. last /\ DOMAIN log = 1 .. last - 1 /\ last \in Nat
      /\ \A n \in DOMAIN log : log'[n] = log[n]
      /\ log'[last] = r
  BY Grown
<1>2. DOMAIN log' = DOMAIN log \cup {last} /\ last \notin DOMAIN log
  BY <1>1
<1>3. ASSUME NEW o
      PROVE  SavesOf(o)' = IF o = result[r].target THEN SavesOf(o) \cup {last} ELSE SavesOf(o)
  BY <1>1, <1>2 DEF SavesOf
<1>4. ASSUME NEW i
      PROVE  Listing(i)' = IF i \in Indexed(result[r]) THEN Listing(i) \cup {last} ELSE Listing(i)
  BY <1>1, <1>2 DEF Listing, Indexed
<1>5. ASSUME NEW k
      PROVE  Stored(k)' = IF k[1] = result[r].target /\ k[2] = ScanID(result[r].ended)
                          THEN Stored(k) \cup {last} ELSE Stored(k)
  <2>1. \A n \in DOMAIN log : n \in Stored(k)' <=> n \in Stored(k)
    BY <1>1, <1>2 DEF Stored, SavesOf, ScanID
  <2>2. last \in Stored(k)' <=> k[1] = result[r].target /\ k[2] = ScanID(result[r].ended)
    BY <1>1, <1>2 DEF Stored, SavesOf, ScanID
  <2>3. Stored(k) \subseteq DOMAIN log /\ Stored(k)' \subseteq DOMAIN log \cup {last}
    BY <1>2 DEF Stored, SavesOf
  <2>4. PICK T : T = Stored(k)'
    OBVIOUS
  <2>5. T = IF k[1] = result[r].target /\ k[2] = ScanID(result[r].ended)
            THEN Stored(k) \cup {last} ELSE Stored(k)
    <3>1. CASE k[1] = result[r].target /\ k[2] = ScanID(result[r].ended)
      BY <2>1, <2>2, <2>3, <2>4, <3>1
    <3>2. CASE ~(k[1] = result[r].target /\ k[2] = ScanID(result[r].ended))
      <4>1. \A n : n \in T <=> n \in Stored(k)
        BY <2>1, <2>2, <2>3, <2>4, <3>2
      <4> QED
        BY <3>2, <4>1
    <3> QED
      BY <3>1, <3>2
  <2> QED
    BY <2>4, <2>5
<1> QED
  BY <1>3, <1>4, <1>5

\* The transaction of a save makes the rows that replaying it would.
LEMMA SaveKeepsTables ==
  ASSUME IInv, NEW r \in Runs, Save(r)
  PROVE  TablesMatchLog'
<1> DEFINE res == result[r]
           o == res.target
<1>1. TypeOK /\ TablesMatchLog /\ SaveTx(r, res) /\ log' = Append(log, r) /\ result' = result
  BY DEF IInv, Save
<1>2. /\ targets' = [targets EXCEPT ![o] = JoinTarget(@, res)]
      /\ scans' = [scans EXCEPT ![<<o, ScanID(res.ended)>>] = r]
      /\ items' = [i \in Items |->
           IF i \notin Indexed(res) THEN items[i] ELSE JoinItem(items[i], res)]
      /\ links' = [k \in Keys |->
           IF k[1] # o \/ k[2] \notin Indexed(res) THEN links[k] ELSE JoinLink(links[k], res)]
  BY <1>1 DEF SaveTx, UpsertTarget, ReplaceScan, IndexEvidence, JoinTarget, JoinItem, JoinLink
<1>3. PICK last : last = Len(log) + 1
  OBVIOUS
<1>4. /\ \A x : SavesOf(x) \in SUBSET DOMAIN log
      /\ \A i : Listing(i) \in SUBSET DOMAIN log
      /\ \A k : Stored(k) \in SUBSET DOMAIN log
  BY <1>1, LogFacts DEF Stored
<1>5. ASSUME NEW S \in SUBSET DOMAIN log
      PROVE  /\ TargetRow(S)' = TargetRow(S) /\ ItemRow(S)' = ItemRow(S)
             /\ LinkRow(S)' = LinkRow(S)
             /\ S # {} => Newest(S)' = Newest(S)
             /\ S \cup {last} # {} /\ Newest(S \cup {last})' = res
             /\ TargetRow(S \cup {last})' = JoinTarget(TargetRow(S), res)
             /\ ItemRow(S \cup {last})' = JoinItem(ItemRow(S), res)
             /\ LinkRow(S \cup {last})' = JoinLink(LinkRow(S), res)
  <2>1. TypeOK /\ log' = Append(log, r) /\ result' = result
    BY <1>1
  <2>2. PICK T : T = S \cup {last}
    OBVIOUS
  <2> HIDE DEF res
  <2>3. res = result[r]
    BY DEF res
  <2> QED
    BY <1>3, <2>1, <2>2, <2>3, GrownRows
<1>6. TargetsMatchLog'
  <2>1. SUFFICES ASSUME NEW x \in Onions PROVE targets'[x] = TargetRow(SavesOf(x))'
    BY DEF TargetsMatchLog
  <2>2. PICK S \in SUBSET DOMAIN log : S = SavesOf(x)
    BY <1>4
  <2>3. PICK T : T = SavesOf(x)' /\ T = IF x = o THEN S \cup {last} ELSE S
    BY <1>1, <1>3, <2>2, SavedPlaces
  <2>4. TargetRow(SavesOf(x))' = TargetRow(T)'
    BY <2>3 DEF TargetRow, Oldest, Newest
  <2>5. targets[x] = TargetRow(S)
    BY <1>1, <2>2 DEF TablesMatchLog, TargetsMatchLog
  <2>6. targets'[x] = IF x # o THEN targets[x] ELSE JoinTarget(targets[x], res)
    BY <1>1, <1>2 DEF TypeOK
  <2>7. CASE T = S /\ x # o
    BY <1>5, <2>4, <2>5, <2>6, <2>7
  <2>8. CASE T = S \cup {last} /\ x = o
    BY <1>5, <2>4, <2>5, <2>6, <2>8
  <2> QED
    BY <2>3, <2>7, <2>8
<1>7. ItemsMatchLog'
  <2>1. SUFFICES ASSUME NEW i \in Items PROVE items'[i] = ItemRow(Listing(i))'
    BY DEF ItemsMatchLog
  <2>2. PICK S \in SUBSET DOMAIN log : S = Listing(i)
    BY <1>4
  <2>3. PICK T : T = Listing(i)' /\ T = IF i \in Indexed(res) THEN S \cup {last} ELSE S
    BY <1>1, <1>3, <2>2, SavedPlaces
  <2>4. ItemRow(Listing(i))' = ItemRow(T)'
    BY <2>3 DEF ItemRow, Oldest, Newest
  <2>5. items[i] = ItemRow(S)
    BY <1>1, <2>2 DEF TablesMatchLog, ItemsMatchLog
  <2>6. CASE T = S /\ i \notin Indexed(res)
    BY <1>2, <1>5, <2>4, <2>5, <2>6
  <2>7. CASE T = S \cup {last} /\ i \in Indexed(res)
    BY <1>2, <1>5, <2>4, <2>5, <2>7
  <2> QED
    BY <2>3, <2>6, <2>7
<1>8. LinksMatchLog'
  <2>1. SUFFICES ASSUME NEW k \in Keys
        PROVE  links'[k] = LinkRow(SavesOf(k[1]) \cap Listing(k[2]))'
    BY DEF LinksMatchLog
  <2>2. PICK S \in SUBSET DOMAIN log : S = SavesOf(k[1]) \cap Listing(k[2])
    BY <1>4
  <2>3. PICK T : /\ T = (SavesOf(k[1]) \cap Listing(k[2]))'
                 /\ T = IF k[1] = o /\ k[2] \in Indexed(res) THEN S \cup {last} ELSE S
    <3>1. last \notin SavesOf(k[1]) /\ last \notin Listing(k[2])
      BY <1>1, <1>3, <1>4, LogFacts
    <3>2. /\ SavesOf(k[1])' = IF k[1] = o THEN SavesOf(k[1]) \cup {last} ELSE SavesOf(k[1])
          /\ Listing(k[2])' =
               IF k[2] \in Indexed(res) THEN Listing(k[2]) \cup {last} ELSE Listing(k[2])
      BY <1>1, <1>3, SavedPlaces
    <3> QED
      BY <2>2, <3>1, <3>2
  <2>4. LinkRow(SavesOf(k[1]) \cap Listing(k[2]))' = LinkRow(T)'
    BY <2>3 DEF LinkRow, Oldest, Newest
  <2>5. links[k] = LinkRow(S)
    BY <1>1, <2>2 DEF TablesMatchLog, LinksMatchLog
  <2>6. CASE T = S /\ ~(k[1] = o /\ k[2] \in Indexed(res))
    BY <1>2, <1>5, <2>4, <2>5, <2>6
  <2>7. CASE T = S \cup {last} /\ k[1] = o /\ k[2] \in Indexed(res)
    BY <1>2, <1>5, <2>4, <2>5, <2>7
  <2> QED
    BY <2>3, <2>6, <2>7
<1>9. ScansMatchLog'
  <2>1. SUFFICES ASSUME NEW k \in ScanKeys
        PROVE  IF Stored(k)' = {} THEN scans'[k] = NoRow
               ELSE scans'[k] \in Runs /\ result'[scans'[k]] = Newest(Stored(k))'
    BY DEF ScansMatchLog
  <2>2. PICK S \in SUBSET DOMAIN log : S = Stored(k)
    BY <1>4
  <2>3. PICK T : /\ T = Stored(k)'
                 /\ T = IF k[1] = o /\ k[2] = ScanID(res.ended) THEN S \cup {last} ELSE S
    BY <1>1, <1>3, <2>2, SavedPlaces
  <2>4. Newest(Stored(k))' = Newest(T)'
    BY <2>3 DEF Newest
  <2>5. scans'[k] = IF k[1] = o /\ k[2] = ScanID(res.ended) THEN r ELSE scans[k]
    BY <1>1, <1>2 DEF TypeOK, ScanKeys
  <2>6. IF S = {} THEN scans[k] = NoRow
        ELSE scans[k] \in Runs /\ result[scans[k]] = Newest(S)
    BY <1>1, <2>2 DEF TablesMatchLog, ScansMatchLog
  <2>7. /\ S # {} => Newest(S)' = Newest(S)
        /\ S \cup {last} # {} /\ Newest(S \cup {last})' = res
    BY <1>5
  <2> QED
    BY <1>1, <2>3, <2>4, <2>5, <2>6, <2>7
<1> QED
  BY <1>6, <1>7, <1>8, <1>9 DEF TablesMatchLog

-----------------------------------------------------------------------------
(* Steps *)

\* The scans begin with the invariant.
LEMMA InitIInv == Init => IInv
<1> SUFFICES ASSUME Init PROVE IInv
  OBVIOUS
<1>1. /\ targets = [o \in Onions |-> NoRow] /\ scans = [k \in ScanKeys |-> NoRow]
      /\ items = [i \in Items |-> NoRow] /\ links = [k \in Keys |-> NoRow]
  BY DEF Init, NoTables
<1>2. 0 \in Times /\ NoResult \in Result
  BY StoreAssumption DEF Times, NoResult, Result
<1>3. log \in Seq(Runs) /\ DOMAIN log = {}
  BY EmptySeq DEF Init
<1>4. TypeOK
  BY <1>1, <1>2, <1>3 DEF Init, TypeOK
<1>5. RunsInv /\ KnownInv /\ PeersAreReal
  BY DEF Init, RunsInv, KnownInv, PeersAreReal, NoResult
<1>6. LogInv
  BY <1>1, <1>3 DEF Init, LogInv, Saved
<1>7. TablesMatchLog
  BY <1>1, <1>3
     DEF TablesMatchLog, TargetsMatchLog, ItemsMatchLog, LinksMatchLog, ScansMatchLog,
         SavesOf, Listing, Stored, TargetRow, ItemRow, LinkRow
<1> QED
  BY <1>4, <1>5, <1>6, <1>7 DEF IInv

\* A transaction writes rows, and no link is ever taken back.
LEMMA SavedRows ==
  ASSUME TypeOK, NEW r \in Runs, result[r].target \in Onions, SaveTx(r, result[r])
  PROVE  /\ targets' \in [Onions -> TargetRows \cup {NoRow}]
         /\ scans' \in [ScanKeys -> Runs \cup {NoRow}]
         /\ items' \in [Items -> ItemRows \cup {NoRow}]
         /\ links' \in [Keys -> LinkRows \cup {NoRow}]
         /\ \A k \in Keys : links[k] # NoRow => links'[k] # NoRow
         /\ \A k \in ScanKeys : scans'[k] # scans[k] => scans'[k] = r
<1> DEFINE res == result[r]
<1>1. /\ res.started \in Times /\ res.ended \in Times
      /\ ScanID(res.ended) \in ScanIDs
  BY DEF TypeOK, Result, ScanIDs
<1>2. targets' \in [Onions -> TargetRows \cup {NoRow}]
  <2>1. [first |-> res.started, last |-> res.ended, total |-> 1] \in TargetRows
    BY <1>1 DEF TargetRows
  <2>2. ASSUME NEW row \in TargetRows
        PROVE  [first |-> row.first, last |-> res.ended, total |-> row.total + 1] \in TargetRows
    BY <1>1 DEF TargetRows
  <2> QED
    BY <2>1, <2>2 DEF TypeOK, SaveTx, UpsertTarget
<1>3. /\ scans' \in [ScanKeys -> Runs \cup {NoRow}]
      /\ \A k \in ScanKeys : scans'[k] # scans[k] => scans'[k] = r
  BY DEF TypeOK, SaveTx, ReplaceScan
<1>4. items' \in [Items -> ItemRows \cup {NoRow}]
  <2>1. [first |-> res.started, last |-> res.ended] \in ItemRows
    BY <1>1 DEF ItemRows
  <2>2. ASSUME NEW row \in ItemRows
        PROVE  [first |-> row.first, last |-> res.ended] \in ItemRows
    BY <1>1 DEF ItemRows
  <2> QED
    BY <2>1, <2>2 DEF TypeOK, SaveTx, IndexEvidence
<1>5. \A k \in Keys : links'[k] = links[k] \/ links'[k] \in LinkRows
  <2>1. [first |-> res.started, last |-> res.ended, scan |-> ScanID(res.ended)] \in LinkRows
    BY <1>1 DEF LinkRows
  <2>2. ASSUME NEW row \in LinkRows
        PROVE  [first |-> row.first, last |-> res.ended, scan |-> ScanID(res.ended)] \in LinkRows
    BY <1>1 DEF LinkRows
  <2> QED
    BY <2>1, <2>2 DEF TypeOK, SaveTx, IndexEvidence
<1>6. links' \in [Keys -> LinkRows \cup {NoRow}]
  BY <1>5 DEF TypeOK, SaveTx, IndexEvidence
<1> QED
  BY <1>2, <1>3, <1>4, <1>5, <1>6, NoRowAssumption

\* Every step keeps the types.
LEMMA TypeKeeps == TypeOK /\ RunsInv /\ Next => TypeOK'
<1> SUFFICES ASSUME TypeOK, RunsInv, Next PROVE TypeOK'
  OBVIOUS
<1>1. CASE Tick
  BY <1>1, StoreAssumption DEF Tick, TypeOK, tables, runVars, Times
<1>2. CASE AllOver
  BY <1>2 DEF AllOver, TypeOK, vars, tables, runVars
<1>3. ASSUME NEW r \in Runs, Start(r) PROVE TypeOK'
  <2>1. 0 \in Times
    BY StoreAssumption DEF Times
  <2> QED
    BY <1>3, <2>1 DEF Start, TypeOK, tables, Result
<1>4. ASSUME NEW r \in Runs, CrawlFails(r) \/ SaveFails(r) PROVE TypeOK'
  <2>1. NoResult \in Result
    BY StoreAssumption DEF NoResult, Result, Times
  <2> QED
    BY <1>4, <2>1 DEF CrawlFails, SaveFails, Fail, TypeOK, tables
<1>5. ASSUME NEW r \in Runs, CrawlReturns(r) PROVE TypeOK'
  <2>1. PICK V \in SUBSET Values :
          /\ result' = [result EXCEPT ![r].observed = V]
          /\ todo' = [todo EXCEPT ![r] = V \cap Signals]
          /\ known' = [known EXCEPT ![r] = PeersOf(result[r].target, V \cap Signals)]
    BY <1>5 DEF CrawlReturns
  <2>2. PeersOf(result[r].target, V \cap Signals) \subseteq SharedItems
    BY DEF PeersOf, SharedItems
  <2>3. result' \in [Runs -> Result]
    <3>1. result \in [Runs -> Result]
      BY DEF TypeOK
    <3>2. \A x \in Result : [x EXCEPT !.observed = V] \in Result
      BY Zenon DEF Result
    <3>3. \A q \in Runs : result'[q] \in Result
      BY <2>1, <3>1, <3>2, Zenon
    <3> QED
      BY <2>1, <3>1, <3>3, Zenon
  <2>4. /\ todo' \in [Runs -> SUBSET Signals]
        /\ known' \in [Runs -> SUBSET SharedItems]
    BY <2>1, <2>2 DEF TypeOK
  <2>5. pc' \in [Runs -> {"idle", "crawling", "correlating", "saving", "saved", "failed"}]
    BY <1>5 DEF CrawlReturns, TypeOK
  <2>6. UNCHANGED <<tables, now, log>>
    BY <1>5 DEF CrawlReturns
  <2> QED
    BY <2>3, <2>4, <2>5, <2>6 DEF TypeOK, tables
<1>6. ASSUME NEW r \in Runs, NEW v \in Signals, Lookup(r, v) \/ LookupFails(r, v)
      PROVE  TypeOK'
  <2>1. PeersOf(result[r].target, {v}) \subseteq SharedItems
    BY DEF PeersOf, SharedItems
  <2>2. PICK peers \in SUBSET SharedItems :
          result' = [result EXCEPT ![r].shared = @ \cup peers]
    BY <1>6, <2>1 DEF Lookup, LookupFails
  <2>3. result' \in [Runs -> Result]
    <3>1. PICK found : found = result[r].shared \cup peers
      OBVIOUS
    <3>2. found \in SUBSET SharedItems
      BY <2>2, <3>1 DEF TypeOK, Result
    <3>3. result' = [result EXCEPT ![r] = [@ EXCEPT !.shared = found]]
      BY <2>2, <3>1
    <3>4. [result[r] EXCEPT !.shared = found] \in Result
      BY <3>2 DEF TypeOK, Result
    <3> QED
      BY <3>3, <3>4 DEF TypeOK
  <2> QED
    BY <1>6, <2>3 DEF Lookup, LookupFails, TypeOK, tables
<1>7. ASSUME NEW r \in Runs, Complete(r) PROVE TypeOK'
  BY <1>7 DEF Complete, TypeOK, tables, Result
<1>8. ASSUME NEW r \in Runs, Save(r) PROVE TypeOK'
  <2>1. result[r].target \in Onions /\ SaveTx(r, result[r])
    BY <1>8 DEF Save, RunsInv
  <2>2. log' \in Seq(Runs)
    BY <1>8, AppendProperties DEF Save, TypeOK
  <2> QED
    BY <1>8, <2>1, <2>2, SavedRows DEF Save, TypeOK
<1> QED
  BY <1>1, <1>2, <1>3, <1>4, <1>5, <1>6, <1>7, <1>8 DEF Next, Run

\* A step of a run is of no concern to the others.
LEMMA OtherRuns ==
  ASSUME TypeOK, NEW r \in Runs, Run(r)
  PROVE  \A q \in Runs \ {r} :
           pc'[q] = pc[q] /\ todo'[q] = todo[q] /\ result'[q] = result[q] /\ known'[q] = known[q]
<1> USE DEF TypeOK
<1>1. CASE Start(r)
  BY <1>1 DEF Start
<1>2. CASE CrawlFails(r) \/ SaveFails(r)
  BY <1>2 DEF CrawlFails, SaveFails, Fail
<1>3. CASE CrawlReturns(r)
  BY <1>3 DEF CrawlReturns
<1>4. CASE \E v \in Signals : Lookup(r, v) \/ LookupFails(r, v)
  BY <1>4 DEF Lookup, LookupFails
<1>5. CASE Complete(r)
  BY <1>5 DEF Complete
<1>6. CASE Save(r)
  BY <1>6 DEF Save
<1> QED
  BY <1>1, <1>2, <1>3, <1>4, <1>5, <1>6 DEF Run

\* A lookup adds peers of its value to what the run shares, or some of them.
LEMMA LookupFinds ==
  ASSUME TypeOK, NEW r \in Runs, NEW v \in Signals, Lookup(r, v) \/ LookupFails(r, v)
  PROVE  /\ pc'[r] = pc[r] /\ pc[r] = "correlating"
         /\ result'[r].target = result[r].target
         /\ result[r].shared \subseteq result'[r].shared
         /\ result'[r].shared \subseteq result[r].shared \cup PeersOf(result[r].target, {v})
         /\ todo'[r] = todo[r] \ {v} /\ known'[r] \subseteq known[r]
         /\ \/ PeersOf(result[r].target, {v}) \subseteq result'[r].shared
            \/ \A p \in known'[r] : p[1] # v
<1>1. PICK peers \in SUBSET PeersOf(result[r].target, {v}) :
        /\ result' = [result EXCEPT ![r].shared = @ \cup peers]
        /\ Lookup(r, v) => peers = PeersOf(result[r].target, {v})
  BY DEF Lookup, LookupFails
<1>2. PICK found : found = result[r].shared \cup peers
  OBVIOUS
<1>3. result' = [result EXCEPT ![r] = [@ EXCEPT !.shared = found]]
  BY <1>1, <1>2
<1>4. result'[r].target = result[r].target /\ result'[r].shared = found
  <2>1. PICK res \in Result : res = result[r]
    BY DEF TypeOK
  <2>2. [res EXCEPT !.shared = found].target = res.target
    BY DEF Result
  <2>3. [res EXCEPT !.shared = found].shared = found
    BY DEF Result
  <2>4. result'[r] = [res EXCEPT !.shared = found]
    BY <1>3, <2>1 DEF TypeOK
  <2> QED
    BY <2>1, <2>2, <2>3, <2>4
<1>5. /\ pc' = pc /\ pc[r] = "correlating" /\ todo' = [todo EXCEPT ![r] = @ \ {v}]
      /\ known' = known \/ known' = [known EXCEPT ![r] = {p \in @ : p[1] # v}]
      /\ ~Lookup(r, v) => known' = [known EXCEPT ![r] = {p \in @ : p[1] # v}]
  BY DEF Lookup, LookupFails
<1>6. /\ result[r].shared \subseteq found
      /\ found \subseteq result[r].shared \cup PeersOf(result[r].target, {v})
  BY <1>1, <1>2
<1>7. /\ todo'[r] = todo[r] \ {v}
      /\ known'[r] = known[r] \/ known'[r] = {p \in known[r] : p[1] # v}
      /\ ~Lookup(r, v) => known'[r] = {p \in known[r] : p[1] # v}
  BY <1>5 DEF TypeOK
<1>8. Lookup(r, v) => PeersOf(result[r].target, {v}) \subseteq found
  BY <1>1, <1>2
<1> HIDE DEF Lookup
<1> QED
  BY <1>4, <1>5, <1>6, <1>7, <1>8

\* Nor does any step take a link back.
LEMMA LinksStay ==
  ASSUME TypeOK, RunsInv, NEW r \in Runs, Run(r)
  PROVE  \A k \in Keys : links[k] # NoRow => links'[k] # NoRow
<1>1. CASE Save(r)
  <2>1. result[r].target \in Onions /\ SaveTx(r, result[r])
    BY <1>1 DEF Save, RunsInv
  <2> QED
    BY <2>1, SavedRows
<1>2. CASE ~Save(r)
  BY <1>2 DEF Run, Start, CrawlFails, SaveFails, Fail, CrawlReturns, Lookup, LookupFails,
              Complete, tables
<1> QED
  BY <1>1, <1>2

\* The control of a run stays sound.
LEMMA RunsKeep ==
  ASSUME TypeOK, RunsInv, NEW r \in Runs, Run(r)
  PROVE  RunsInv'
<1>1. SUFFICES /\ pc'[r] \in {"crawling", "correlating", "saving", "saved"} =>
                    result'[r].target \in Onions
               /\ pc'[r] \in {"idle", "crawling", "failed"} =>
                    result'[r].shared = {} /\ known'[r] = {}
               /\ pc'[r] \in {"saving", "saved"} => todo'[r] = {}
  BY OtherRuns DEF RunsInv
<1> USE DEF TypeOK, RunsInv
<1>2. CASE Start(r)
  BY <1>2 DEF Start
<1>3. CASE CrawlFails(r) \/ SaveFails(r)
  BY <1>3 DEF CrawlFails, SaveFails, Fail, NoResult
<1>4. CASE CrawlReturns(r)
  BY <1>4 DEF CrawlReturns
<1>5. CASE \E v \in Signals : Lookup(r, v) \/ LookupFails(r, v)
  BY <1>5, LookupFinds
<1>6. CASE Complete(r)
  BY <1>6 DEF Complete
<1>7. CASE Save(r)
  BY <1>7 DEF Save
<1> QED
  BY <1>2, <1>3, <1>4, <1>5, <1>6, <1>7 DEF Run

\* A known peer is found when its value is looked up: its link is still there.
LEMMA KnownKeeps ==
  ASSUME TypeOK, RunsInv, KnownInv, NEW r \in Runs, Run(r)
  PROVE  KnownInv'
<1> DEFINE Kept(q, p) ==
             \/ /\ p[1] \in todo'[q] /\ p[2] # result'[q].target
                /\ p[2] \in FindCoOccurringTargets(p[1])'
             \/ p \in result'[q].shared
<1>1. ASSUME NEW i \in Items, NEW o \in FindCoOccurringTargets(i)
      PROVE  o \in FindCoOccurringTargets(i)'
  BY LinksStay DEF FindCoOccurringTargets, Keys
<1>2. \A q \in Runs : \A p \in known[q] : p[1] \in Items /\ p[2] \in Onions
  BY DEF TypeOK, SharedItems, Items
<1>3. ASSUME NEW q \in Runs \ {r}, NEW p \in known'[q] PROVE Kept(q, p)
  BY <1>1, <1>2, OtherRuns DEF KnownInv
<1>4. ASSUME NEW p \in known'[r] PROVE Kept(r, p)
  <2> USE DEF TypeOK
  <2>1. CASE Start(r)
    BY <1>4, <2>1 DEF Start, RunsInv
  <2>2. CASE CrawlFails(r) \/ SaveFails(r)
    BY <1>4, <2>2 DEF CrawlFails, SaveFails, Fail
  <2>3. CASE CrawlReturns(r)
    <3>1. PICK V \in SUBSET Values :
            /\ result' = [result EXCEPT ![r].observed = V]
            /\ todo' = [todo EXCEPT ![r] = V \cap Signals]
            /\ known' = [known EXCEPT ![r] = PeersOf(result[r].target, V \cap Signals)]
      BY <2>3 DEF CrawlReturns
    <3>2. /\ p[1] \in V \cap Signals /\ p[2] # result[r].target
          /\ p[2] \in FindCoOccurringTargets(p[1])
      BY <1>4, <3>1 DEF PeersOf
    <3>3. result'[r].target = result[r].target /\ todo'[r] = V \cap Signals
      BY <3>1
    <3>4. p[2] \in FindCoOccurringTargets(p[1])'
      BY <1>1, <3>2 DEF Items
    <3> QED
      BY <3>2, <3>3, <3>4
  <2>4. ASSUME NEW v \in Signals, Lookup(r, v) \/ LookupFails(r, v) PROVE Kept(r, p)
    <3>1. /\ p \in known[r] /\ result'[r].target = result[r].target
          /\ result[r].shared \subseteq result'[r].shared
          /\ todo'[r] = todo[r] \ {v}
      BY <1>4, <2>4, LookupFinds
    <3>2. CASE p[1] = v /\ p \notin result[r].shared
      <4>1. PeersOf(result[r].target, {v}) \subseteq result'[r].shared
        BY <1>4, <2>4, <3>2, LookupFinds
      <4>2. /\ p[2] # result[r].target /\ p[2] \in FindCoOccurringTargets(v)
            /\ p \in {v} \X Onions
        BY <3>1, <3>2 DEF KnownInv, SharedItems
      <4>3. p \in PeersOf(result[r].target, {v})
        BY <3>2, <4>2 DEF PeersOf
      <4> QED
        BY <4>1, <4>3
    <3>3. CASE p[1] # v \/ p \in result[r].shared
      BY <1>1, <1>2, <3>1, <3>3 DEF KnownInv
    <3> QED
      BY <3>2, <3>3
  <2>5. CASE Complete(r)
    BY <1>1, <1>2, <1>4, <2>5 DEF Complete, KnownInv
  <2>6. CASE Save(r)
    BY <1>1, <1>2, <1>4, <2>6 DEF Save, KnownInv
  <2> QED
    BY <2>1, <2>2, <2>3, <2>4, <2>5, <2>6 DEF Run
<1> QED
  BY <1>3, <1>4 DEF KnownInv

\* A value that the store links to a target was observed by a saved scan of it.
LEMMA LinkedMeansSaved ==
  ASSUME IInv, NEW o \in Onions, NEW v \in Values, <<o, v>> \in Keys, links[<<o, v>>] # NoRow
  PROVE  \E q \in Saved : result[q].target = o /\ v \in result[q].observed
<1>1. TypeOK /\ LogInv /\ LinksMatchLog
  BY DEF IInv, TablesMatchLog
<1>2. links[<<o, v>>] = LinkRow(SavesOf(o) \cap Listing(v))
  BY <1>1 DEF LinksMatchLog
<1>3. PICK n \in SavesOf(o) : n \in Listing(v)
  BY <1>2 DEF LinkRow
<1>4. /\ n \in DOMAIN log /\ result[log[n]].target = o /\ v \in Indexed(result[log[n]])
      /\ result[log[n]] \in Result
  BY <1>1, <1>3, LogFacts DEF SavesOf, Listing
<1>5. v \in result[log[n]].observed
  BY <1>4, EvidenceAssumption DEF Indexed, Result
<1> QED
  BY <1>1, <1>4, <1>5 DEF LogInv

\* So the peers of a scan stay real, and those it finds are.
LEMMA PeersKeep ==
  ASSUME IInv, NEW r \in Runs, Run(r), Saved \subseteq Saved',
         \A q \in Saved : result'[q] = result[q]
  PROVE  PeersAreReal'
<1> DEFINE Seen(x) == \E q \in Saved : result[q].target = x[2] /\ x[1] \in result[q].observed
           Real(q, p) == p[2] # result'[q].target /\ Seen(p)
<1>1. TypeOK /\ RunsInv /\ PeersAreReal
  BY DEF IInv
<1>2. \A q \in Runs : \A p \in result[q].shared : p[2] # result[q].target /\ Seen(p)
  BY <1>1 DEF PeersAreReal
<1>3. ASSUME NEW v \in Signals, NEW p \in PeersOf(result[r].target, {v})
      PROVE  p[2] # result[r].target /\ Seen(p)
  <2>1. /\ p[1] = v /\ p[2] \in Onions /\ p[2] # result[r].target
        /\ links[<<p[2], v>>] # NoRow
    BY DEF PeersOf, FindCoOccurringTargets
  <2>2. <<p[2], v>> \in Keys /\ v \in Values
    BY <2>1 DEF Keys, Items, Values
  <2> QED
    BY <2>1, <2>2, LinkedMeansSaved
<1> HIDE DEF Seen
<1>4. ASSUME NEW q \in Runs \ {r}, NEW p \in result'[q].shared PROVE Real(q, p)
  BY <1>1, <1>2, <1>4, OtherRuns
<1>5. ASSUME NEW p \in result'[r].shared PROVE Real(r, p)
  <2> USE <1>1 DEF TypeOK
  <2>1. CASE Start(r)
    BY <1>5, <2>1 DEF Start
  <2>2. CASE CrawlFails(r) \/ SaveFails(r)
    BY <1>5, <2>2 DEF CrawlFails, SaveFails, Fail, NoResult
  <2>3. CASE CrawlReturns(r)
    BY <1>2, <1>5, <2>3 DEF CrawlReturns
  <2>4. ASSUME NEW v \in Signals, Lookup(r, v) \/ LookupFails(r, v) PROVE Real(r, p)
    <3>1. /\ result'[r].target = result[r].target
          /\ p \in result[r].shared \/ p \in PeersOf(result[r].target, {v})
      BY <1>5, <2>4, LookupFinds
    <3> QED
      BY <1>2, <1>3, <3>1
  <2>5. CASE Complete(r)
    BY <1>2, <1>5, <2>5 DEF Complete
  <2>6. CASE Save(r)
    BY <1>2, <1>5, <2>6 DEF Save
  <2> QED
    BY <2>1, <2>2, <2>3, <2>4, <2>5, <2>6 DEF Run
<1>6. \A x : Seen(x) => \E q \in Saved' : result'[q].target = x[2] /\ x[1] \in result'[q].observed
  BY DEF Seen
<1> QED
  BY <1>4, <1>5, <1>6 DEF PeersAreReal

\* Every step keeps the invariant.
LEMMA StepIInv == IInv /\ [Next]_vars => IInv'
<1> SUFFICES ASSUME IInv, [Next]_vars PROVE IInv'
  OBVIOUS
<1>1. TypeOK /\ RunsInv /\ LogInv /\ KnownInv /\ TablesMatchLog /\ PeersAreReal
  BY DEF IInv
<1>2. CASE UNCHANGED vars
  <2>1. UNCHANGED <<tables, runVars, now, log>>
    BY <1>2 DEF vars
  <2>2. LogInv' /\ TablesMatchLog'
    <3>1. Saved' = Saved
      BY <2>1 DEF Saved, runVars
    <3> QED
      BY <1>1, <2>1, <3>1, QuietKeepsTables DEF tables, runVars
  <2>3. TypeOK' /\ RunsInv' /\ KnownInv' /\ PeersAreReal'
    BY <1>1, <2>1 DEF tables, runVars, TypeOK, RunsInv, KnownInv, PeersAreReal, Saved,
                      FindCoOccurringTargets
  <2> QED
    BY <2>2, <2>3 DEF IInv
<1>3. CASE Tick \/ AllOver
  <2>1. TypeOK' /\ LogInv' /\ TablesMatchLog'
    <3>1. Next /\ ~\E r \in Runs : Save(r)
      BY <1>3 DEF Next, Tick, AllOver, Save, vars, runVars
    <3> QED
      BY <1>1, <3>1, TypeKeeps, QuietSteps, QuietKeepsTables
  <2>2. UNCHANGED <<tables, runVars, log>>
    BY <1>3 DEF Tick, AllOver, vars
  <2>3. RunsInv' /\ KnownInv' /\ PeersAreReal'
    BY <1>1, <2>2 DEF tables, runVars, RunsInv, KnownInv, PeersAreReal, Saved,
                      FindCoOccurringTargets
  <2> QED
    BY <2>1, <2>3 DEF IInv
<1>4. ASSUME NEW r \in Runs, Run(r) PROVE IInv'
  <2>1. TypeOK' /\ RunsInv' /\ KnownInv'
    BY <1>1, <1>4, TypeKeeps, RunsKeep, KnownKeeps DEF Next
  <2>2. LogInv' /\ TablesMatchLog' /\ Saved \subseteq Saved' /\ \A q \in Saved : result'[q] = result[q]
    <3>1. CASE Save(r)
      <4>1. TablesMatchLog'
        BY <3>1, SaveKeepsTables
      <4>2. PICK last : last = Len(log) + 1
        OBVIOUS
      <4>3. /\ log' = Append(log, r) /\ result' = result /\ pc' = [pc EXCEPT ![r] = "saved"]
            /\ result[r].target \in Onions /\ SaveTx(r, result[r])
        BY <1>1, <3>1 DEF Save, RunsInv
      <4>4. /\ DOMAIN log' = DOMAIN log \cup {last} /\ log'[last] = r
            /\ \A n \in DOMAIN log : log'[n] = log[n]
        <5>1. TypeOK /\ log' = Append(log, r) /\ result' = result
          BY <1>1, <4>3
        <5>2. /\ DOMAIN log' = 1 .. last /\ DOMAIN log = 1 .. last - 1 /\ last \in Nat
              /\ \A n \in DOMAIN log : log'[n] = log[n]
              /\ log'[last] = r
          BY <4>2, <5>1, Grown
        <5>3. last >= 1
          BY <1>1, <4>2, LogFacts
        <5> QED
          BY <5>2, <5>3
      <4>5. Saved' = Saved \cup {r}
        BY <1>1, <4>3 DEF TypeOK, Saved
      <4>6. \A k \in ScanKeys : scans'[k] # scans[k] => scans'[k] = r
        BY <1>1, <4>3, SavedRows
      <4>7. LogInv'
        BY <1>1, <4>4, <4>5, <4>6 DEF LogInv
      <4> QED
        BY <4>1, <4>3, <4>5, <4>7
    <3>2. CASE ~Save(r)
      <4>1. Next /\ ~\E q \in Runs : Save(q)
        <5>1. pc'[r] # "saved"
          BY <1>1, <1>4, <3>2 DEF Run, Start, CrawlFails, SaveFails, Fail, CrawlReturns, Lookup,
                                  LookupFails, Complete, TypeOK
        <5>2. ASSUME NEW q \in Runs, Save(q), q # r PROVE FALSE
          BY <1>1, <1>4, <5>2, OtherRuns DEF Save, TypeOK
        <5> QED
          BY <1>4, <3>2, <5>2 DEF Next
      <4> QED
        BY <1>1, <4>1, QuietSteps, QuietKeepsTables
    <3> QED
      BY <3>1, <3>2
  <2>3. PeersAreReal'
    BY <1>4, <2>2, PeersKeep
  <2> QED
    BY <2>1, <2>2, <2>3 DEF IInv
<1> QED
  BY <1>2, <1>3, <1>4 DEF Next

\* IInv is an invariant.
LEMMA Invariance == Spec => []IInv
<1> QED
  BY InitIInv, StepIInv, PTL DEF Spec

-----------------------------------------------------------------------------
(* Theorems *)

\* The variables of the scans and of the store keep their types.
THEOREM ScanRunsTyped == Spec => []TypeOK
<1> QED
  BY Invariance, PTL DEF IInv

\* The four tables are what the saved results, replayed in the order of their
\* transactions, give: interleaved, failing and rolled back scans leave no
\* other trace in the store.
THEOREM StoreReplaysItsLog == Spec => []TablesMatchLog
<1> QED
  BY Invariance, PTL DEF IInv

\* A peer that a scan reports is another target, of which a scan that was
\* saved observed the value.
THEOREM PeersOfScansAreReal == Spec => []PeersAreReal
<1> QED
  BY Invariance, PTL DEF IInv

\* A scan reports every peer that the store linked to its values when it began
\* to correlate, unless the lookup of the value failed.
THEOREM KnownPeersAreFound == Spec => []EarlierPeersFound
<1>1. IInv => EarlierPeersFound
  BY DEF IInv, RunsInv, KnownInv, EarlierPeersFound
<1> QED
  BY <1>1, Invariance, PTL

\* Saves at some places make a row for their item and for its link.
LEMMA SavesMakeRows ==
  ASSUME TypeOK, NEW S \in SUBSET DOMAIN log, S # {}
  PROVE  ItemRow(S) # NoRow /\ LinkRow(S) # NoRow
<1>1. Oldest(S) \in Result /\ Newest(S) \in Result
  BY Ends, LogFacts
<1>2. ScanID(Newest(S).ended) \in ScanIDs
  BY <1>1 DEF Result, ScanIDs
<1>3. ItemRow(S) \in ItemRows /\ LinkRow(S) \in LinkRows
  BY <1>1, <1>2 DEF ItemRow, LinkRow, ItemRows, LinkRows, Result
<1> QED
  BY <1>3, NoRowAssumption

\* A link leads to its item and to a scan of its target.
LEMMA LinksResolve ==
  ASSUME IInv, NEW o \in Onions, NEW i \in Items, links[<<o, i>>] # NoRow
  PROVE  /\ items[i] # NoRow
         /\ links[<<o, i>>].scan \in ScanIDs
         /\ GetScan(o, links[<<o, i>>].scan) # NoRow
<1>1. TypeOK /\ ItemsMatchLog /\ LinksMatchLog /\ ScansMatchLog
  BY DEF IInv, TablesMatchLog
<1>2. PICK S \in SUBSET DOMAIN log : S = SavesOf(o) \cap Listing(i)
  BY <1>1, LogFacts
<1>3. links[<<o, i>>] = LinkRow(S) /\ S # {}
  BY <1>1, <1>2 DEF LinksMatchLog, LinkRow, Keys
<1>4. items[i] # NoRow
  <2>1. Listing(i) \in SUBSET DOMAIN log /\ Listing(i) # {}
    BY <1>1, <1>2, <1>3, LogFacts
  <2> QED
    BY <1>1, <2>1, SavesMakeRows DEF ItemsMatchLog
<1>5. PICK m \in S : Newest(S) = result[log[m]]
  BY <1>1, <1>3, Ends
<1>6. links[<<o, i>>].scan = ScanID(result[log[m]].ended)
  BY <1>3, <1>5 DEF LinkRow
<1>7. ScanID(result[log[m]].ended) \in ScanIDs
  BY <1>1, <1>5, LogFacts DEF Result, ScanIDs
<1>8. scans[<<o, ScanID(result[log[m]].ended)>>] # NoRow
  <2>1. PICK k : k = <<o, ScanID(result[log[m]].ended)>>
    OBVIOUS
  <2>2. k \in ScanKeys /\ m \in Stored(k)
    BY <1>2, <1>5, <1>7, <2>1 DEF ScanKeys, Stored
  <2>3. scans[k] \in Runs
    BY <1>1, <2>2 DEF ScansMatchLog
  <2> QED
    BY <2>1, <2>3, NoRowAssumption
<1> QED
  BY <1>4, <1>6, <1>7, <1>8 DEF GetScan

\* What a saved scan indexes is linked to its target.
LEMMA SavedMeansLinked ==
  ASSUME IInv, NEW r \in Saved, NEW i \in Indexed(result[r]) \cap Items
  PROVE  result[r].target \in Onions /\ links[<<result[r].target, i>>] # NoRow
<1>1. TypeOK /\ RunsInv /\ LogInv /\ LinksMatchLog
  BY DEF IInv, TablesMatchLog
<1>2. PICK o \in Onions : o = result[r].target
  BY <1>1 DEF RunsInv, Saved
<1>3. PICK n \in DOMAIN log : log[n] = r
  BY <1>1 DEF LogInv
<1>4. PICK S \in SUBSET DOMAIN log : S = SavesOf(o) \cap Listing(i)
  BY <1>1, LogFacts
<1>5. n \in S
  BY <1>2, <1>3, <1>4 DEF SavesOf, Listing
<1>6. links[<<o, i>>] = LinkRow(S)
  BY <1>1, <1>4 DEF LinksMatchLog, Keys
<1> QED
  BY <1>1, <1>2, <1>5, <1>6, SavesMakeRows

\* The scan that a link names can be read, and its item exists: no
\* interleaving of saves and replaced scans leaves a reference hanging.
THEOREM LinksHaveScans == Spec => []ProvenanceResolves
<1>1. IInv => ProvenanceResolves
  BY LinksResolve DEF ProvenanceResolves, Keys
<1> QED
  BY <1>1, Invariance, PTL

\* The graph of a saved scan is closed, its peers can be opened and lead back,
\* and it agrees with the assets of the target.
THEOREM GraphsAndAssetsAgree == Spec => []GraphsAgree
<1>1. ASSUME IInv PROVE GraphsAgree
  <2>1. SUFFICES ASSUME NEW r \in Saved, NEW o, o = result[r].target,
                        NEW graph, graph = BuildGraph(o, r)
        PROVE  /\ \A e \in Edges(graph) : e[1] \in Nodes(graph) /\ e[2] \in Nodes(graph)
               /\ \A v \in DOMAIN graph : \A p \in graph[v] :
                    /\ History(p) # {}
                    /\ v \in GraphValues(Latest(p)) => o \in BuildGraph(p, Latest(p))[v]
               /\ \A v \in DOMAIN graph :
                    v \in DOMAIN ListAssets(o) /\ graph[v] = ListAssets(o)[v] \ {o}
    BY DEF GraphsAgree
  <2>2. \A e \in Edges(graph) : e[1] \in Nodes(graph) /\ e[2] \in Nodes(graph)
    BY DEF Edges, Nodes
  <2>3. ASSUME NEW v \in DOMAIN graph
        PROVE  /\ graph[v] = FindCoOccurringTargets(v) \ {o}
               /\ v \in Items /\ o \in FindCoOccurringTargets(v)
    <3>1. v \in GraphValues(r) /\ graph[v] = FindCoOccurringTargets(v) \ {o}
      BY <2>1 DEF BuildGraph, PeersAt
    <3>2. result[r].observed \in SUBSET Values
      BY <1>1 DEF IInv, TypeOK, Result, Saved
    <3>3. v \in Items /\ v \in Indexed(result[r])
      BY <3>1, <3>2 DEF GraphValues, Values, Items, Indexed
    <3>4. o \in Onions /\ links[<<o, v>>] # NoRow
      BY <1>1, <2>1, <3>3, SavedMeansLinked
    <3> QED
      BY <3>1, <3>3, <3>4 DEF FindCoOccurringTargets
  <2>4. ASSUME NEW v \in DOMAIN graph, NEW p \in graph[v]
        PROVE  /\ History(p) # {}
               /\ v \in GraphValues(Latest(p)) => o \in BuildGraph(p, Latest(p))[v]
    <3>1. p \in Onions /\ p # o /\ links[<<p, v>>] # NoRow
      BY <2>3 DEF FindCoOccurringTargets
    <3>2. History(p) # {}
      <4>1. v \in Items
        BY <2>3
      <4>2. links[<<p, v>>].scan \in ScanIDs /\ scans[<<p, links[<<p, v>>].scan>>] # NoRow
        BY <1>1, <3>1, <4>1, LinksResolve DEF GetScan
      <4> QED
        BY <4>2 DEF History
    <3>3. v \in GraphValues(Latest(p)) => o \in BuildGraph(p, Latest(p))[v]
      BY <2>3, <3>1 DEF BuildGraph, PeersAt
    <3> QED
      BY <3>2, <3>3
  <2>5. ASSUME NEW v \in DOMAIN graph
        PROVE  v \in DOMAIN ListAssets(o) /\ graph[v] = ListAssets(o)[v] \ {o}
    BY <2>3 DEF ListAssets, FindCoOccurringTargets
  <2> QED
    BY <2>2, <2>4, <2>5
<1> QED
  BY <1>1, Invariance, PTL
=============================================================================
