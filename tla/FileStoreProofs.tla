---------------------------- MODULE FileStoreProofs ----------------------------
(***************************************************************************)
(* Proofs about FileStore for every set of targets, seconds and items and  *)
(* every number of saves.                                                  *)
(***************************************************************************)
EXTENDS FileStore, SequenceTheorems, TLAPS

Result == [onion : Onions, second : Seconds, items : ItemLists]

\* Types of the variables.
TypeOK ==
  /\ log \in Seq(Result)
  /\ files \in [Keys -> {NoFile, Torn} \cup Nat]
  /\ index \in [Items -> {NoFile} \cup Links]
  /\ pc \in {"idle", "write", "index", "rename"}
  /\ at \in Nat \ {0}
  /\ tmp \in Links \cup {<<>>}
  /\ acked \subseteq 1 .. Len(log)
  /\ missed \subseteq (1 .. Len(log)) \X Items
  /\ rebuilt \subseteq (1 .. Len(log)) \X Items

\* Save works on the last scan of the log, which it has not returned from;
\* the entry in the temporary file is for an item of that scan.
SavingInv ==
  /\ pc # "idle" => log # <<>> /\ This \notin acked
  /\ pc = "write" => files[Key(This)] = Torn
  /\ pc \in {"index", "rename"} => files[Key(This)] = This
  /\ pc = "rename" =>
       /\ at \in DOMAIN Scan.items /\ Scan.items[at] \notin Unindexed
       /\ tmp \in Links
       /\ Scan.onion \in DOMAIN tmp /\ tmp[Scan.onion] = Scan.second

\* Scan files.
FilesInv ==
  /\ \A n \in acked : Replaced(n) \/ files[Key(n)] = n
  /\ \A k \in Keys : files[k] = Torn => \E n \in DOMAIN log \ acked : Key(n) = k

\* A link of item i from target o to the scan of second s leads somewhere.
Resolves(i, o, s) ==
  \E n \in DOMAIN log :
    /\ Key(n) = <<o, s>> /\ i \in ToSet(log[n].items)
    /\ files[<<o, s>>] = n \/ Replaced(n)

LinksInv ==
  /\ \A i \in Items : index[i] # NoFile =>
       \A o \in DOMAIN index[i] : Resolves(i, o, index[i][o])
  /\ pc = "rename" => \A o \in DOMAIN tmp : Resolves(Scan.items[at], o, tmp[o])

\* Save n is not accountable for item i: a step failed, or the entry of the
\* item was made anew since.
Excused(n, i) ==
  <<n, i>> \in missed \/ \E m \in n + 1 .. Len(log) : <<m, i>> \in rebuilt

\* The links name the target of save n, and this or a later scan of it.
Named(n, entry) ==
  /\ log[n].onion \in DOMAIN entry
  /\ \E m \in n .. Len(log) : Key(m) = <<log[n].onion, entry[log[n].onion]>>

Accounted(n, i, entry) == Excused(n, i) \/ Named(n, entry)

Indexed(n, i) == Accounted(n, i, FindCoOccurringTargets(i))

Shows(n, i) == i \in ToSet(log[n].items)

\* Save has been past item i of its scan, which is scan n.
Passed(n, i) == n = This /\ \E j \in DOMAIN Scan.items : j < at /\ Scan.items[j] = i

\* What the index says of the saves that returned; of the items of the scan
\* that have been indexed; and what the entry in the temporary file will say.
IndexInv ==
  \A n \in 1 .. Len(log), i \in Items \ Unindexed :
    /\ n \in acked /\ Shows(n, i) => Indexed(n, i)
    /\ pc \in {"index", "rename"} /\ Passed(n, i) => Indexed(n, i)
    /\ pc = "rename" /\ n \in acked /\ Shows(n, i) /\ i = Scan.items[at] =>
         Accounted(n, i, tmp)

IInv == TypeOK /\ SavingInv /\ FilesInv /\ LinksInv /\ IndexInv

-----------------------------------------------------------------------------
(* Facts about the log *)

\* The scans of the log and the keys of their files.
LEMMA LogFacts ==
  ASSUME TypeOK
  PROVE  /\ Len(log) \in Nat /\ DOMAIN log = 1 .. Len(log)
         /\ \A n \in 1 .. Len(log) :
              /\ log[n] \in Result
              /\ Key(n) \in Keys /\ Key(n) = <<log[n].onion, log[n].second>>
              /\ log[n].items \in Seq(Items)
              /\ DOMAIN log[n].items = 1 .. Len(log[n].items) /\ Len(log[n].items) \in Nat
<1>1. log \in Seq(Result)
  BY DEF TypeOK
<1>2. /\ Len(log) \in Nat /\ DOMAIN log = 1 .. Len(log)
      /\ \A n \in 1 .. Len(log) : log[n] \in Result
  BY <1>1, LenProperties, ElementOfSeq
<1>3. SUFFICES ASSUME NEW n \in 1 .. Len(log)
      PROVE  /\ log[n].onion \in Onions /\ log[n].second \in Seconds
             /\ log[n].items \in Seq(Items)
             /\ DOMAIN log[n].items = 1 .. Len(log[n].items) /\ Len(log[n].items) \in Nat
  BY <1>2 DEF Key, Keys
<1>4. log[n].onion \in Onions /\ log[n].second \in Seconds /\ log[n].items \in ItemLists
  BY <1>2 DEF Result
<1>5. log[n].items \in Seq(Items)
  BY <1>4, FileStoreAssumption
<1> QED
  BY <1>4, <1>5, LenProperties

\* While Save runs, there is a scan that it saves.
LEMMA ThisScan ==
  ASSUME TypeOK, SavingInv, pc # "idle"
  PROVE  /\ This \in 1 .. Len(log) /\ This \notin acked
         /\ Scan = log[This] /\ Key(This) = <<Scan.onion, Scan.second>>
         /\ Scan.onion \in Onions /\ Scan.second \in Seconds
         /\ Key(This) \in Keys
<1>1. log # <<>> /\ This \notin acked
  BY DEF SavingInv
<1>2. log \in Seq(Result) /\ Len(log) # 0
  BY <1>1, EmptySeq DEF TypeOK
<1>3. This \in 1 .. Len(log)
  BY <1>2, LogFacts DEF This
<1> QED
  BY <1>1, <1>3, LogFacts DEF Scan, Result, Key

\* Create puts a scan at the end of the log, and its file in place.
LEMMA CreateFacts ==
  ASSUME TypeOK, Create
  PROVE  /\ log' \in Seq(Result) /\ log' # <<>>
         /\ Len(log') = Len(log) + 1 /\ DOMAIN log' = 1 .. Len(log) + 1
         /\ \A n \in 1 .. Len(log) : log'[n] = log[n] /\ Key(n)' = Key(n)
         /\ This' = Len(log) + 1
         /\ Key(This)' \in Keys
         /\ files' = [files EXCEPT ![Key(This)'] = Torn]
<1>1. PICK o \in Onions, s \in Seconds, items \in ItemLists :
        /\ log' = Append(log, [onion |-> o, second |-> s, items |-> items])
        /\ files' = [files EXCEPT ![<<o, s>>] = Torn]
  BY DEF Create
<1> DEFINE e == [onion |-> o, second |-> s, items |-> items]
<1>2. e \in Result /\ log \in Seq(Result)
  BY DEF Result, TypeOK
<1>3. /\ log' \in Seq(Result) /\ log' # <<>>
      /\ Len(log') = Len(log) + 1
      /\ \A n \in 1 .. Len(log) : log'[n] = log[n]
      /\ log'[Len(log) + 1] = e
  BY <1>1, <1>2, AppendProperties, EmptySeq
<1>4. DOMAIN log' = 1 .. Len(log) + 1 /\ This' = Len(log) + 1
  BY <1>3, LenProperties DEF This
<1>5. Key(This)' = <<o, s>>
  BY <1>3, <1>4 DEF Key
<1> QED
  BY <1>1, <1>3, <1>4, <1>5 DEF Key, Keys

\* In the other steps neither the log nor what is said of its scans changes.
LEMMA SameLog ==
  ASSUME UNCHANGED log
  PROVE  /\ This' = This /\ Scan' = Scan
         /\ \A n : Key(n)' = Key(n) /\ Replaced(n)' = Replaced(n)
BY DEF This, Scan, Key, Replaced

\* Linked keeps the links of other targets and has one of the scan's target.
LEMMA LinkedFacts ==
  ASSUME TypeOK, SavingInv, pc # "idle", NEW entry \in Links \cup {<<>>}
  PROVE  /\ Linked(entry) \in Links
         /\ DOMAIN Linked(entry) = DOMAIN entry \cup {Scan.onion}
         /\ Linked(entry)[Scan.onion] = Scan.second
         /\ \A o \in DOMAIN entry \ {Scan.onion} : Linked(entry)[o] = entry[o]
<1>1. Scan.onion \in Onions /\ Scan.second \in Seconds
  BY ThisScan
<1>2. PICK S \in SUBSET Onions :
        DOMAIN entry = S /\ \A o \in S : entry[o] \in Seconds
  <2>1. CASE entry \in Links
    BY <2>1 DEF Links
  <2>2. CASE entry = <<>>
    BY <2>2, DOMAIN <<>> = {}
  <2> QED
    BY <2>1, <2>2
<1>3. Linked(entry) \in [S \cup {Scan.onion} -> Seconds]
  BY <1>1, <1>2 DEF Linked
<1> QED
  BY <1>1, <1>2, <1>3 DEF Linked, Links

\* The temporary file holds the links the entry had, if it could be read, or
\* none, and that of the scan.
LEMMA WriteEntryFacts ==
  ASSUME TypeOK, SavingInv, WriteEntry
  PROVE  LET i == Scan.items[at] IN
         /\ pc = "index" /\ at \in DOMAIN Scan.items /\ i \in Items \ Unindexed
         /\ tmp' \in Links
         /\ Scan.onion \in DOMAIN tmp' /\ tmp'[Scan.onion] = Scan.second
         /\ \/ /\ index[i] = NoFile
                 /\ rebuilt' = rebuilt /\ DOMAIN tmp' = {Scan.onion}
            \/ /\ index[i] \in Links
               /\ rebuilt' = rebuilt
               /\ DOMAIN tmp' = DOMAIN index[i] \cup {Scan.onion}
               /\ \A o \in DOMAIN index[i] \ {Scan.onion} : tmp'[o] = index[i][o]
            \/ /\ rebuilt' = rebuilt \cup {<<This, i>>}
               /\ DOMAIN tmp' = {Scan.onion}
<1> DEFINE i == Scan.items[at]
<1>1. pc = "index" /\ at \in DOMAIN Scan.items /\ i \notin Unindexed
  BY DEF WriteEntry, MoreEvidence
<1>2. i \in Items
  <2>1. Scan.items \in Seq(Items)
    BY <1>1, ThisScan, LogFacts
  <2> QED
    BY <1>1, <2>1, LenProperties, ElementOfSeq
<1>3. index[i] \in {NoFile} \cup Links
  BY <1>2 DEF TypeOK
<1>4. DOMAIN <<>> = {}
  OBVIOUS
<1>5. CASE tmp' = Linked(FindCoOccurringTargets(i)) /\ rebuilt' = rebuilt
  <2>1. CASE index[i] = NoFile
    <3>1. tmp' = Linked(<<>>)
      BY <1>5, <2>1 DEF FindCoOccurringTargets
    <3> QED
      BY <1>1, <1>2, <1>4, <1>5, <2>1, <3>1, LinkedFacts
  <2>2. CASE index[i] # NoFile
    <3>1. tmp' = Linked(index[i]) /\ index[i] \in Links
      BY <1>3, <1>5, <2>2 DEF FindCoOccurringTargets
    <3>2. /\ tmp' \in Links
          /\ DOMAIN tmp' = DOMAIN index[i] \cup {Scan.onion}
          /\ tmp'[Scan.onion] = Scan.second
          /\ \A o \in DOMAIN index[i] \ {Scan.onion} : tmp'[o] = index[i][o]
      BY <1>1, <3>1, LinkedFacts
    <3> QED
      BY <1>1, <1>2, <1>5, <3>1, <3>2
  <2> QED
    BY <2>1, <2>2
<1>6. CASE tmp' = Linked(<<>>) /\ rebuilt' = rebuilt \cup {<<This, i>>}
  BY <1>1, <1>2, <1>4, <1>6, LinkedFacts
<1> QED
  BY <1>5, <1>6 DEF WriteEntry

-----------------------------------------------------------------------------
(* Types and the state of Save *)

\* Each step keeps the types.
LEMMA TypeStep == TypeOK /\ SavingInv /\ [Next]_vars => TypeOK'
<1> SUFFICES ASSUME TypeOK, SavingInv, [Next]_vars PROVE TypeOK'
  OBVIOUS
<1> USE DEF TypeOK
<1>1. CASE Create
  <2>1. /\ log' \in Seq(Result) /\ Len(log') = Len(log) + 1 /\ Len(log) \in Nat
        /\ files' = [files EXCEPT ![Key(This)'] = Torn]
    BY <1>1, CreateFacts, LogFacts
  <2>2. files' \in [Keys -> {NoFile, Torn} \cup Nat]
    BY <2>1
  <2> QED
    BY <1>1, <2>1, <2>2 DEF Create
<1>2. CASE Write
  <2>1. This \in Nat
    BY <1>2, ThisScan, LogFacts DEF Write
  <2>2. files' \in [Keys -> {NoFile, Torn} \cup Nat]
    BY <1>2, <2>1 DEF Write
  <2> QED
    BY <1>2, <2>2 DEF Write
<1>3. CASE WriteFails
  BY <1>3 DEF WriteFails
<1>4. CASE SkipEvidence
  BY <1>4 DEF SkipEvidence, MoreEvidence
<1>5. CASE WriteEntry
  <2>1. tmp' \in Links
    BY <1>5, WriteEntryFacts
  <2>2. rebuilt' \subseteq (1 .. Len(log)) \X Items
    BY <1>5, WriteEntryFacts, ThisScan
  <2> QED
    BY <1>5, <2>1, <2>2 DEF WriteEntry
<1>6. CASE RenameEntry
  <2>1. index' \in [Items -> {NoFile} \cup Links]
    BY <1>6 DEF RenameEntry, SavingInv
  <2> QED
    BY <1>6, <2>1 DEF RenameEntry
<1>7. CASE RenameFails
  <2>1. <<This, Scan.items[at]>> \in (1 .. Len(log)) \X Items
    <3>1. at \in 1 .. Len(Scan.items) /\ Scan.items \in Seq(Items) /\ This \in 1 .. Len(log)
      BY <1>7, ThisScan, LogFacts DEF RenameFails, SavingInv
    <3> QED
      BY <3>1, ElementOfSeq
  <2> QED
    BY <1>7, <2>1 DEF RenameFails
<1>8. CASE IndexFails
  <2>1. /\ Scan.items \in Seq(Items) /\ This \in 1 .. Len(log)
        /\ Len(Scan.items) \in Nat
    BY <1>8, ThisScan, LogFacts DEF IndexFails, MoreEvidence
  <2>2. {<<This, Scan.items[j]>> : j \in at .. Len(Scan.items)} \subseteq (1 .. Len(log)) \X Items
    <3>1. \A j \in at .. Len(Scan.items) : j \in 1 .. Len(Scan.items)
      BY <2>1
    <3> QED
      BY <2>1, <3>1, ElementOfSeq
  <2> QED
    BY <1>8, <2>1, <2>2 DEF IndexFails
<1>9. CASE SaveReturns
  <2>1. This \in 1 .. Len(log)
    BY <1>9, ThisScan DEF SaveReturns
  <2> QED
    BY <1>9, <2>1 DEF SaveReturns
<1>10. CASE Crash
  BY <1>10 DEF Crash
<1>11. CASE UNCHANGED vars
  BY <1>11 DEF vars
<1> QED
  BY <1>1, <1>2, <1>3, <1>4, <1>5, <1>6, <1>7, <1>8, <1>9, <1>10, <1>11 DEF Next, Save

\* Each step keeps what is known of the running save.
LEMMA SavingStep == TypeOK /\ SavingInv /\ [Next]_vars => SavingInv'
<1> SUFFICES ASSUME TypeOK, SavingInv, [Next]_vars PROVE SavingInv'
  OBVIOUS
<1>1. CASE Create
  <2>1. /\ log' # <<>> /\ This' = Len(log) + 1 /\ Len(log) \in Nat
        /\ Key(This)' \in Keys /\ files' = [files EXCEPT ![Key(This)'] = Torn]
    BY <1>1, CreateFacts, LogFacts
  <2>2. files'[Key(This)'] = Torn
    BY <2>1 DEF TypeOK
  <2>3. This' \notin acked
    BY <2>1 DEF TypeOK
  <2> QED
    BY <1>1, <2>1, <2>2, <2>3 DEF Create, SavingInv
<1>2. CASE Write
  <2>1. UNCHANGED log /\ This' = This /\ Key(This)' = Key(This) /\ Key(This) \in Keys
    BY <1>2, SameLog, ThisScan DEF Write
  <2>2. files'[Key(This)] = This
    BY <1>2, <2>1 DEF Write, TypeOK
  <2> QED
    BY <1>2, <2>1, <2>2 DEF Write, SavingInv
<1>3. CASE WriteFails
  BY <1>3 DEF WriteFails, SavingInv
<1>4. CASE SkipEvidence
  BY <1>4, SameLog DEF SkipEvidence, MoreEvidence, SavingInv
<1>5. CASE WriteEntry
  <2>1. /\ UNCHANGED <<files, log, at, acked>> /\ pc' = "rename"
        /\ This' = This /\ Scan' = Scan /\ Key(This)' = Key(This)
    BY <1>5, SameLog DEF WriteEntry
  <2>2. /\ pc = "index" /\ at \in DOMAIN Scan.items /\ Scan.items[at] \notin Unindexed
        /\ tmp' \in Links
        /\ Scan.onion \in DOMAIN tmp' /\ tmp'[Scan.onion] = Scan.second
    BY <1>5, WriteEntryFacts
  <2> QED
    BY <2>1, <2>2 DEF SavingInv
<1>6. CASE RenameEntry \/ RenameFails
  <2>1. /\ UNCHANGED <<files, log, acked>> /\ pc = "rename" /\ pc' = "index"
        /\ This' = This /\ Key(This)' = Key(This)
    BY <1>6, SameLog DEF RenameEntry, RenameFails
  <2> QED
    BY <2>1 DEF SavingInv
<1>7. CASE IndexFails \/ SaveReturns \/ Crash
  BY <1>7 DEF IndexFails, SaveReturns, Crash, SavingInv
<1>8. CASE UNCHANGED vars
  BY <1>8, SameLog DEF vars, SavingInv
<1> QED
  BY <1>1, <1>2, <1>3, <1>4, <1>5, <1>6, <1>7, <1>8 DEF Next, Save

-----------------------------------------------------------------------------
(* Scan files *)

\* Each step leaves only files of running saves torn.
LEMMA FilesStep == TypeOK /\ SavingInv /\ FilesInv /\ [Next]_vars => FilesInv'
<1> SUFFICES ASSUME TypeOK, SavingInv, FilesInv, [Next]_vars PROVE FilesInv'
  OBVIOUS
<1>1. CASE Create
  <2>1. /\ Len(log) \in Nat /\ Len(log') = Len(log) + 1
        /\ DOMAIN log = 1 .. Len(log) /\ DOMAIN log' = 1 .. Len(log) + 1
        /\ \A n \in 1 .. Len(log) : Key(n)' = Key(n) /\ Key(n) \in Keys
        /\ This' = Len(log) + 1 /\ Key(This)' \in Keys
        /\ files' = [files EXCEPT ![Key(This)'] = Torn]
        /\ acked \subseteq 1 .. Len(log) /\ acked' = acked
        /\ files \in [Keys -> {NoFile, Torn} \cup Nat]
    BY <1>1, CreateFacts, LogFacts DEF TypeOK, Create
  <2>2. ASSUME NEW n \in acked PROVE (Replaced(n) \/ files[Key(n)] = n)'
    <3>1. n \in 1 .. Len(log) /\ Key(n)' = Key(n) /\ Key(n) \in Keys
      BY <2>1
    <3>2. CASE Key(n) = Key(This)'
      <4>1. This' \in n + 1 .. Len(log')
        BY <2>1, <3>1
      <4> QED
        BY <3>1, <3>2, <4>1 DEF Replaced
    <3>3. CASE Key(n) # Key(This)' /\ Replaced(n)
      <4>1. PICK m \in n + 1 .. Len(log) : Key(m) = Key(n)
        BY <3>3 DEF Replaced
      <4>2. m \in 1 .. Len(log) /\ m \in n + 1 .. Len(log')
        BY <2>1, <3>1, <4>1
      <4> QED
        BY <2>1, <3>1, <4>1, <4>2 DEF Replaced
    <3>4. CASE Key(n) # Key(This)' /\ files[Key(n)] = n
      BY <2>1, <3>1, <3>4
    <3> QED
      BY <3>2, <3>3, <3>4 DEF FilesInv
  <2>3. ASSUME NEW k \in Keys, files'[k] = Torn
        PROVE  \E n \in DOMAIN log' \ acked' : Key(n)' = k
    <3>1. CASE k = Key(This)'
      BY <2>1, <3>1
    <3>2. CASE k # Key(This)'
      <4>1. files[k] = Torn
        BY <2>1, <2>3, <3>2
      <4>2. PICK n \in DOMAIN log \ acked : Key(n) = k
        BY <4>1 DEF FilesInv
      <4> QED
        BY <2>1, <4>2
    <3> QED
      BY <3>1, <3>2
  <2> QED
    BY <2>1, <2>2, <2>3 DEF FilesInv
<1>2. CASE Write
  <2>1. /\ log' = log /\ acked' = acked
        /\ This \in 1 .. Len(log) /\ This \notin acked /\ Key(This) \in Keys
        /\ files' = [files EXCEPT ![Key(This)] = This]
        /\ files[Key(This)] = Torn /\ This # Torn
    BY <1>2, ThisScan, LogFacts, MarkersAssumption DEF Write, SavingInv
  <2>2. \A n : Key(n)' = Key(n) /\ Replaced(n)' = Replaced(n)
    BY <2>1, SameLog
  <2>3. ASSUME NEW n \in acked PROVE (Replaced(n) \/ files[Key(n)] = n)'
    <3>1. n \in Nat /\ n \in 1 .. Len(log) /\ Key(n) \in Keys
      BY LogFacts DEF TypeOK
    <3>2. Key(n) = Key(This) => Replaced(n)
      BY <2>1, <3>1, MarkersAssumption DEF FilesInv
    <3> QED
      BY <2>1, <2>2, <3>1, <3>2 DEF FilesInv, TypeOK
  <2>4. ASSUME NEW k \in Keys, files'[k] = Torn
        PROVE  \E n \in DOMAIN log' \ acked' : Key(n)' = k
    <3>1. files[k] = Torn
      BY <2>1, <2>4 DEF TypeOK
    <3> QED
      BY <2>1, <2>2, <3>1 DEF FilesInv
  <2> QED
    BY <2>1, <2>3, <2>4 DEF FilesInv
<1>3. CASE IndexFails \/ SaveReturns
  <2>1. /\ log' = log /\ files' = files /\ acked' = acked \cup {This}
        /\ files[Key(This)] = This /\ This # Torn
    BY <1>3, ThisScan, LogFacts, MarkersAssumption
    DEF IndexFails, SaveReturns, MoreEvidence, SavingInv
  <2>2. \A n : Key(n)' = Key(n) /\ Replaced(n)' = Replaced(n)
    BY <2>1, SameLog
  <2> QED
    BY <2>1, <2>2 DEF FilesInv
<1>4. CASE UNCHANGED <<files, log, acked>>
  <2>1. \A n : Key(n)' = Key(n) /\ Replaced(n)' = Replaced(n)
    BY <1>4, SameLog
  <2> QED
    BY <1>4, <2>1 DEF FilesInv
<1> QED
  BY <1>1, <1>2, <1>3, <1>4
  DEF Next, Save, WriteFails, SkipEvidence, WriteEntry, RenameEntry, RenameFails, Crash, vars

-----------------------------------------------------------------------------
(* Links *)

\* A link that leads somewhere goes on doing so.
LEMMA ResolvesStep ==
  ASSUME TypeOK, SavingInv, [Next]_vars,
         NEW i, NEW o, NEW s, Resolves(i, o, s)
  PROVE  Resolves(i, o, s)'
<1>1. PICK n \in DOMAIN log :
        /\ Key(n) = <<o, s>> /\ i \in ToSet(log[n].items)
        /\ files[<<o, s>>] = n \/ Replaced(n)
  BY DEF Resolves
<1>2. /\ Len(log) \in Nat /\ n \in 1 .. Len(log) /\ DOMAIN log = 1 .. Len(log)
      /\ Key(n) \in Keys
  BY LogFacts
<1>3. CASE Create
  <2>1. /\ Len(log') = Len(log) + 1 /\ DOMAIN log' = 1 .. Len(log) + 1
        /\ \A m \in 1 .. Len(log) : log'[m] = log[m] /\ Key(m)' = Key(m)
        /\ This' = Len(log) + 1 /\ files' = [files EXCEPT ![Key(This)'] = Torn]
    BY <1>3, CreateFacts
  <2>2. (files[<<o, s>>] = n \/ Replaced(n))'
    <3>1. CASE Key(This)' = <<o, s>>
      BY <1>1, <1>2, <2>1, <3>1 DEF Replaced
    <3>2. CASE Replaced(n)
      <4>1. PICK m \in n + 1 .. Len(log) : Key(m) = Key(n)
        BY <3>2 DEF Replaced
      <4> QED
        BY <1>2, <2>1, <4>1 DEF Replaced
    <3>3. CASE Key(This)' # <<o, s>> /\ files[<<o, s>>] = n
      BY <1>1, <1>2, <2>1, <3>3 DEF TypeOK
    <3> QED
      BY <1>1, <3>1, <3>2, <3>3
  <2> QED
    BY <1>1, <1>2, <2>1, <2>2 DEF Resolves
<1>4. CASE Write
  <2>1. /\ log' = log /\ files' = [files EXCEPT ![Key(This)] = This]
        /\ files[Key(This)] = Torn /\ Torn \notin Nat
    BY <1>4, MarkersAssumption DEF Write, SavingInv
  <2>2. files[<<o, s>>] = n => files'[<<o, s>>] = n
    BY <1>1, <1>2, <2>1 DEF TypeOK
  <2> QED
    BY <1>1, <2>1, <2>2, SameLog DEF Resolves
<1>5. CASE UNCHANGED <<files, log>>
  BY <1>1, <1>5, SameLog DEF Resolves
<1> QED
  BY <1>3, <1>4, <1>5
  DEF Next, Save, WriteFails, SkipEvidence, WriteEntry, RenameEntry, RenameFails,
      IndexFails, SaveReturns, Crash, vars

\* The link that Save makes leads to the scan that it has written.
LEMMA NewLinkResolves ==
  ASSUME TypeOK, SavingInv, WriteEntry
  PROVE  Resolves(Scan.items[at], Scan.onion, Scan.second)
<1>1. pc = "index" /\ at \in DOMAIN Scan.items
  BY WriteEntryFacts
<1>2. /\ This \in DOMAIN log /\ Scan = log[This] /\ Key(This) = <<Scan.onion, Scan.second>>
      /\ files[Key(This)] = This
  BY <1>1, ThisScan, LogFacts DEF SavingInv
<1>3. Scan.items[at] \in ToSet(Scan.items)
  BY <1>1 DEF ToSet
<1> QED
  BY <1>2, <1>3 DEF Resolves

\* Each step keeps links leading to scans.
LEMMA LinksStep == TypeOK /\ SavingInv /\ LinksInv /\ [Next]_vars => LinksInv'
<1> SUFFICES ASSUME TypeOK, SavingInv, LinksInv, [Next]_vars PROVE LinksInv'
  OBVIOUS
<1>1. \A i, o, s : Resolves(i, o, s) => Resolves(i, o, s)'
  BY ResolvesStep
<1>2. CASE WriteEntry
  <2> DEFINE i == Scan.items[at]
  <2>1. index' = index /\ log' = log /\ at' = at /\ Scan' = Scan
    BY <1>2, SameLog DEF WriteEntry
  <2>2. ASSUME NEW o \in DOMAIN tmp' PROVE Resolves(i, o, tmp'[o])
    <3>1. CASE o = Scan.onion
      BY <1>2, <3>1, NewLinkResolves, WriteEntryFacts
    <3>2. CASE o # Scan.onion
      <4>1. /\ i \in Items /\ index[i] \in Links
            /\ o \in DOMAIN index[i] /\ tmp'[o] = index[i][o]
        BY <1>2, <3>2, WriteEntryFacts
      <4>2. CASE index[i] # NoFile
        BY <4>1, <4>2 DEF LinksInv
      <4>3. CASE index[i] = NoFile
        <5>1. tmp' = Linked(<<>>)
          BY <1>2, <4>3 DEF WriteEntry, FindCoOccurringTargets
        <5>2. DOMAIN tmp' = {Scan.onion}
          BY <1>2, <5>1, LinkedFacts, DOMAIN <<>> = {} DEF WriteEntry, MoreEvidence
        <5> QED
          BY <3>2, <5>2
      <4> QED
        BY <4>2, <4>3
    <3> QED
      BY <3>1, <3>2
  <2>3. (\A o \in DOMAIN tmp : Resolves(Scan.items[at], o, tmp[o]))'
    BY <1>1, <2>1, <2>2
  <2>4. ASSUME NEW j \in Items, index'[j] # NoFile, NEW o \in DOMAIN index'[j]
        PROVE  Resolves(j, o, index'[j][o])
    BY <2>1, <2>4 DEF LinksInv
  <2> QED
    BY <1>1, <2>3, <2>4 DEF LinksInv
<1>3. CASE RenameEntry
  <2>1. /\ index' = [index EXCEPT ![Scan.items[at]] = tmp]
        /\ pc = "rename" /\ pc' = "index"
    BY <1>3 DEF RenameEntry
  <2>2. ASSUME NEW i \in Items, index'[i] # NoFile, NEW o \in DOMAIN index'[i]
        PROVE  Resolves(i, o, index'[i][o])
    BY <2>1, <2>2 DEF LinksInv, TypeOK
  <2> QED
    BY <1>1, <2>1, <2>2 DEF LinksInv
<1>4. CASE Create \/ Write \/ WriteFails \/ SkipEvidence \/ RenameFails
           \/ IndexFails \/ SaveReturns \/ Crash
  <2>1. index' = index /\ pc' # "rename"
    BY <1>4 DEF Create, Write, WriteFails, SkipEvidence, MoreEvidence, RenameFails,
                IndexFails, SaveReturns, Crash
  <2> QED
    BY <1>1, <2>1 DEF LinksInv
<1>5. CASE UNCHANGED vars
  <2>1. UNCHANGED <<index, pc, tmp, at>> /\ Scan' = Scan
    BY <1>5, SameLog DEF vars
  <2> QED
    BY <1>1, <2>1 DEF LinksInv
<1> QED
  BY <1>2, <1>3, <1>4, <1>5 DEF Next, Save

-----------------------------------------------------------------------------
(* What the index accounts for *)

\* What accounts for a scan's item goes on doing so.
LEMMA AccountedStep ==
  ASSUME TypeOK, SavingInv, [Next]_vars,
         NEW n \in 1 .. Len(log), NEW i, NEW entry, Accounted(n, i, entry)
  PROVE  Accounted(n, i, entry)'
<1>1. /\ missed \subseteq missed' /\ rebuilt \subseteq rebuilt'
      /\ Len(log) \in Nat /\ Len(log') \in Nat /\ Len(log) <= Len(log')
      /\ \A m \in 1 .. Len(log) : log'[m] = log[m] /\ Key(m)' = Key(m)
  <2>1. CASE Create
    <3>1. UNCHANGED <<missed, rebuilt>>
      BY <2>1 DEF Create
    <3>2. Len(log) \in Nat /\ Len(log') = Len(log) + 1
      BY <2>1, CreateFacts, LogFacts
    <3>3. \A m \in 1 .. Len(log) : log'[m] = log[m] /\ Key(m)' = Key(m)
      BY <2>1, CreateFacts
    <3> QED
      BY <3>1, <3>2, <3>3
  <2>2. CASE log' = log /\ missed \subseteq missed' /\ rebuilt \subseteq rebuilt'
    BY <2>2, SameLog, LogFacts
  <2> QED
    BY <2>1, <2>2
    DEF Next, Save, Write, WriteFails, SkipEvidence, WriteEntry, RenameEntry, RenameFails,
        IndexFails, SaveReturns, Crash, vars
<1>2. CASE Excused(n, i)
  BY <1>1, <1>2 DEF Accounted, Excused
<1>3. CASE Named(n, entry)
  <2>1. PICK m \in n .. Len(log) : Key(m) = <<log[n].onion, entry[log[n].onion]>>
    BY <1>3 DEF Named
  <2>2. m \in 1 .. Len(log) /\ m \in n .. Len(log')
    BY <1>1, <2>1
  <2>3. Named(n, entry)'
    BY <1>1, <1>3, <2>1, <2>2 DEF Named
  <2> QED
    BY <2>3 DEF Accounted
<1> QED
  BY <1>2, <1>3 DEF Accounted

\* The link of the scan at hand names any earlier scan of its target.
LEMMA ThisNamed ==
  ASSUME TypeOK, SavingInv, pc # "idle",
         NEW entry, Scan.onion \in DOMAIN entry, entry[Scan.onion] = Scan.second,
         NEW n \in 1 .. Len(log), log[n].onion = Scan.onion
  PROVE  Named(n, entry)
<1>1. This \in n .. Len(log) /\ Key(This) = <<Scan.onion, Scan.second>>
  BY ThisScan, LogFacts DEF This
<1> QED
  BY <1>1 DEF Named

\* So does the index, if the entry that is put in place accounts for it.
LEMMA IndexedStep ==
  ASSUME TypeOK, SavingInv, [Next]_vars,
         NEW n \in 1 .. Len(log), NEW i \in Items,
         IF RenameEntry /\ i = Scan.items[at] THEN Accounted(n, i, tmp) ELSE Indexed(n, i)
  PROVE  Indexed(n, i)'
<1>1. CASE RenameEntry /\ i = Scan.items[at]
  <2>1. index'[i] = tmp /\ tmp \in Links
    BY <1>1 DEF RenameEntry, SavingInv, TypeOK
  <2>2. FindCoOccurringTargets(i)' = tmp
    BY <2>1, MarkersAssumption DEF FindCoOccurringTargets
  <2>3. Accounted(n, i, tmp)
    BY <1>1
  <2>4. PICK e : e = tmp
    OBVIOUS
  <2>5. Accounted(n, i, e)'
    BY <2>3, <2>4, AccountedStep
  <2> QED
    BY <2>2, <2>4, <2>5 DEF Indexed, Accounted, Named
<1>2. CASE ~(RenameEntry /\ i = Scan.items[at])
  <2>1. index'[i] = index[i]
    <3>1. CASE RenameEntry
      BY <1>2, <3>1 DEF RenameEntry, TypeOK
    <3>2. CASE ~RenameEntry
      BY <3>2 DEF Next, Save, Create, Write, WriteFails, SkipEvidence, WriteEntry, RenameFails,
                  IndexFails, SaveReturns, Crash, vars
    <3> QED
      BY <3>1, <3>2
  <2>2. FindCoOccurringTargets(i)' = FindCoOccurringTargets(i)
    BY <2>1 DEF FindCoOccurringTargets
  <2>3. PICK e : e = FindCoOccurringTargets(i)
    OBVIOUS
  <2>4. Accounted(n, i, e)'
    BY <1>2, <2>3, AccountedStep DEF Indexed
  <2> QED
    BY <2>2, <2>3, <2>4 DEF Indexed, Accounted, Named
<1> QED
  BY <1>1, <1>2

\* The entry that WriteEntry prepares accounts for the saves that returned.
LEMMA NewEntryAccounts ==
  ASSUME TypeOK, SavingInv, WriteEntry,
         NEW n \in acked, NEW i, i = Scan.items[at], Indexed(n, i)
  PROVE  Accounted(n, i, tmp)'
<1>1. /\ log' = log /\ missed' = missed
      /\ \A m : Key(m)' = Key(m)
  BY SameLog DEF WriteEntry
<1>2. /\ i \in Items
      /\ Scan.onion \in DOMAIN tmp' /\ tmp'[Scan.onion] = Scan.second
      /\ pc = "index"
  BY WriteEntryFacts
<1>3. /\ n \in 1 .. Len(log) /\ This \in 1 .. Len(log) /\ This \in n + 1 .. Len(log)
      /\ This \in n .. Len(log) /\ Key(This) = <<Scan.onion, Scan.second>>
  BY <1>2, ThisScan, LogFacts DEF TypeOK, This
<1>4. CASE log[n].onion = Scan.onion
  <2>1. Named(n, tmp)'
    BY <1>1, <1>2, <1>3, <1>4 DEF Named
  <2> QED
    BY <2>1 DEF Accounted
<1>5. CASE <<This, i>> \in rebuilt'
  <2>1. Excused(n, i)'
    BY <1>1, <1>3, <1>5 DEF Excused
  <2> QED
    BY <2>1 DEF Accounted
<1>6. CASE Excused(n, i)
  <2>1. rebuilt \subseteq rebuilt'
    BY DEF WriteEntry
  <2>2. Excused(n, i)'
    BY <1>1, <1>6, <2>1 DEF Excused
  <2> QED
    BY <2>2 DEF Accounted
<1>7. CASE /\ log[n].onion # Scan.onion /\ <<This, i>> \notin rebuilt'
           /\ Named(n, FindCoOccurringTargets(i))
  <2>1. index[i] = NoFile => DOMAIN FindCoOccurringTargets(i) = {}
    BY DEF FindCoOccurringTargets
  <2>2. index[i] \in Links => FindCoOccurringTargets(i) = index[i]
    BY MarkersAssumption DEF FindCoOccurringTargets
  <2>3. /\ log[n].onion \in DOMAIN tmp'
        /\ tmp'[log[n].onion] = FindCoOccurringTargets(i)[log[n].onion]
    BY <1>7, <2>1, <2>2, WriteEntryFacts DEF Named
  <2>4. Named(n, tmp)'
    BY <1>1, <1>7, <2>3 DEF Named
  <2> QED
    BY <2>4 DEF Accounted
<1> QED
  BY <1>4, <1>5, <1>6, <1>7 DEF Indexed, Accounted

\* What has been indexed of the scan at hand.
LEMMA PassedStep ==
  ASSUME TypeOK, SavingInv, IndexInv, [Next]_vars,
         NEW n \in 1 .. Len(log'), NEW i \in Items \ Unindexed,
         pc' \in {"index", "rename"}, Passed(n, i)'
  PROVE  Indexed(n, i)'
<1>1. PICK j : j \in DOMAIN Scan'.items /\ j < at' /\ Scan'.items[j] = i /\ n = This'
  BY DEF Passed
<1>2. \/ Write
      \/ SkipEvidence \/ WriteEntry \/ RenameEntry \/ RenameFails
      \/ UNCHANGED vars
  BY DEF Next, Save, Create, WriteFails, IndexFails, SaveReturns, Crash
<1>3. /\ log' = log /\ This' = This /\ Scan' = Scan /\ pc # "idle"
  BY <1>2, SameLog DEF Write, SkipEvidence, MoreEvidence, WriteEntry, RenameEntry, RenameFails,
                       vars
<1>4. /\ n \in 1 .. Len(log) /\ n = This /\ n \notin acked
      /\ Scan = log[n] /\ DOMAIN Scan.items = 1 .. Len(Scan.items)
      /\ Len(Scan.items) \in Nat /\ at \in Nat
      /\ j \in DOMAIN Scan.items /\ j \in Nat /\ j >= 1 /\ Scan.items[j] = i
  BY <1>1, <1>3, ThisScan, LogFacts DEF TypeOK
<1>5. pc \in {"index", "rename"} /\ j < at => Indexed(n, i)
  BY <1>4 DEF IndexInv, Passed
<1>6. CASE Write
  BY <1>1, <1>4, <1>6 DEF Write
<1>7. CASE SkipEvidence
  <2>1. j < at
    BY <1>1, <1>4, <1>7 DEF SkipEvidence
  <2>2. ~RenameEntry
    BY <1>7 DEF SkipEvidence, MoreEvidence, RenameEntry
  <2> QED
    BY <1>4, <1>5, <1>7, <2>1, <2>2, IndexedStep DEF SkipEvidence, MoreEvidence
<1>8. CASE WriteEntry \/ UNCHANGED vars
  <2>1. j < at /\ pc \in {"index", "rename"} /\ ~RenameEntry
    BY <1>1, <1>4, <1>8 DEF WriteEntry, MoreEvidence, RenameEntry, vars, TypeOK
  <2> QED
    BY <1>4, <1>5, <2>1, IndexedStep
<1>9. CASE RenameEntry
  <2>1. pc = "rename" /\ (j < at \/ j = at)
    BY <1>1, <1>4, <1>9 DEF RenameEntry
  <2>2. i = Scan.items[at] => Accounted(n, i, tmp)
    BY <1>4, <2>1, ThisNamed DEF Accounted, SavingInv
  <2>3. CASE i # Scan.items[at]
    BY <1>4, <1>5, <2>1, <2>3, IndexedStep
  <2>4. CASE i = Scan.items[at]
    BY <1>4, <1>9, <2>2, <2>4, IndexedStep
  <2> QED
    BY <2>3, <2>4
<1>10. CASE RenameFails
  <2>1. pc = "rename" /\ (j < at \/ j = at)
    BY <1>1, <1>4, <1>10 DEF RenameFails
  <2>2. CASE j < at
    <3>1. CASE i = Scan.items[at]
      <4>1. <<n, i>> \in missed'
        BY <1>4, <1>10, <3>1 DEF RenameFails
      <4> QED
        BY <4>1 DEF Indexed, Accounted, Excused
    <3>2. CASE i # Scan.items[at]
      BY <1>4, <1>5, <2>1, <2>2, <3>2, IndexedStep
    <3> QED
      BY <3>1, <3>2
  <2>3. CASE j = at
    <3>1. <<n, i>> \in missed'
      BY <1>4, <1>10, <2>3 DEF RenameFails
    <3> QED
      BY <3>1 DEF Indexed, Accounted, Excused
  <2> QED
    BY <2>1, <2>2, <2>3
<1> QED
  BY <1>2, <1>6, <1>7, <1>8, <1>9, <1>10

\* What is said of the saves that returned.
LEMMA AckedStep ==
  ASSUME TypeOK, SavingInv, IndexInv, [Next]_vars,
         NEW n \in 1 .. Len(log'), NEW i \in Items \ Unindexed,
         n \in acked', Shows(n, i)'
  PROVE  Indexed(n, i)'
<1>1. CASE n \in acked
  <2>1. n \in 1 .. Len(log)
    BY <1>1 DEF TypeOK
  <2>2. log'[n] = log[n]
    <3>1. CASE Create
      BY <2>1, <3>1, CreateFacts
    <3>2. CASE ~Create
      BY <3>2 DEF Next, Save, Write, WriteFails, SkipEvidence, WriteEntry, RenameEntry,
                  RenameFails, IndexFails, SaveReturns, Crash, vars
    <3> QED
      BY <3>1, <3>2
  <2>3. Shows(n, i)
    BY <2>2 DEF Shows
  <2>4. Indexed(n, i)
    BY <1>1, <2>1, <2>3 DEF IndexInv
  <2>5. RenameEntry /\ i = Scan.items[at] => Accounted(n, i, tmp)
    BY <1>1, <2>1, <2>3 DEF IndexInv, RenameEntry
  <2> QED
    BY <2>1, <2>4, <2>5, IndexedStep
<1>2. CASE n \notin acked
  <2>1. IndexFails \/ SaveReturns
    BY <1>2 DEF Next, Save, Create, Write, WriteFails, SkipEvidence, WriteEntry, RenameEntry,
                RenameFails, Crash, vars
  <2>2. pc = "index" /\ log' = log /\ n = This /\ ~RenameEntry
    BY <1>2, <2>1 DEF IndexFails, SaveReturns, MoreEvidence, RenameEntry
  <2>3. /\ n \in 1 .. Len(log) /\ Scan = log[n]
        /\ DOMAIN Scan.items = 1 .. Len(Scan.items) /\ Len(Scan.items) \in Nat /\ at \in Nat
    BY <2>2, ThisScan, LogFacts DEF TypeOK
  <2>4. PICK j \in DOMAIN Scan.items : Scan.items[j] = i
    BY <2>2, <2>3 DEF Shows, ToSet
  <2>5. CASE j < at
    <3>1. Indexed(n, i)
      BY <2>2, <2>3, <2>4, <2>5 DEF IndexInv, Passed
    <3> QED
      BY <2>2, <2>3, <3>1, IndexedStep
  <2>6. CASE ~(j < at)
    <3>1. j \in at .. Len(Scan.items) /\ at \in DOMAIN Scan.items
      BY <2>3, <2>4, <2>6 DEF TypeOK
    <3>2. IndexFails
      BY <2>1, <2>2, <3>1 DEF SaveReturns, MoreEvidence
    <3>3. <<n, i>> \in missed'
      BY <2>2, <2>4, <3>1, <3>2 DEF IndexFails
    <3> QED
      BY <3>3 DEF Indexed, Accounted, Excused
  <2> QED
    BY <2>5, <2>6
<1> QED
  BY <1>1, <1>2

\* Each step keeps what accounts for the items of a save.
LEMMA IndexStep == TypeOK /\ SavingInv /\ IndexInv /\ [Next]_vars => IndexInv'
<1> SUFFICES ASSUME TypeOK, SavingInv, IndexInv, [Next]_vars,
                    NEW n \in 1 .. Len(log'), NEW i \in Items \ Unindexed
             PROVE  /\ n \in acked' /\ Shows(n, i)' => Indexed(n, i)'
                    /\ pc' \in {"index", "rename"} /\ Passed(n, i)' => Indexed(n, i)'
                    /\ pc' = "rename" /\ n \in acked' /\ Shows(n, i)' /\ i = Scan'.items[at'] =>
                         Accounted(n, i, tmp)'
  BY DEF IndexInv
<1>1. /\ n \in acked' /\ Shows(n, i)' => Indexed(n, i)'
      /\ pc' \in {"index", "rename"} /\ Passed(n, i)' => Indexed(n, i)'
  BY AckedStep, PassedStep
<1>2. ASSUME pc' = "rename", n \in acked', Shows(n, i)', i = Scan'.items[at']
      PROVE  Accounted(n, i, tmp)'
  <2>1. WriteEntry \/ UNCHANGED vars
    BY <1>2 DEF Next, Save, Create, Write, WriteFails, SkipEvidence, RenameEntry, RenameFails,
                IndexFails, SaveReturns, Crash, MoreEvidence
  <2>2. UNCHANGED <<log, acked, at>> /\ Scan' = Scan
    BY <2>1, SameLog DEF WriteEntry, vars
  <2>3. n \in acked /\ n \in 1 .. Len(log) /\ Shows(n, i) /\ i = Scan.items[at]
    BY <1>2, <2>2 DEF Shows
  <2>4. CASE WriteEntry
    BY <2>3, <2>4, NewEntryAccounts DEF IndexInv
  <2>5. CASE UNCHANGED vars
    <3>1. Accounted(n, i, tmp)
      BY <1>2, <2>3, <2>5 DEF IndexInv, vars
    <3> QED
      BY <2>5, <3>1 DEF vars, Accounted, Excused, Named, Key
  <2> QED
    BY <2>1, <2>4, <2>5
<1> QED
  BY <1>1, <1>2

-----------------------------------------------------------------------------
(* Theorems *)

\* An empty directory is in the invariant.
LEMMA InitIInv == Init => IInv
<1> SUFFICES ASSUME Init PROVE IInv
  OBVIOUS
<1>1. log = <<>> /\ Len(log) = 0 /\ log \in Seq(Result) /\ DOMAIN log = {}
  BY EmptySeq DEF Init
<1>2. TypeOK
  BY <1>1 DEF Init, TypeOK
<1> QED
  BY <1>1, <1>2, FileStoreAssumption DEF Init, IInv, SavingInv, FilesInv, LinksInv, IndexInv

\* Each step keeps the invariant.
LEMMA StepIInv == IInv /\ [Next]_vars => IInv'
BY TypeStep, SavingStep, FilesStep, LinksStep, IndexStep DEF IInv

\* The invariant holds over any saves, failures and kills.
LEMMA Invariance == Spec => []IInv
BY InitIInv, StepIInv, PTL DEF Spec

\* The variables of the file store keep their types (FileStore.Save).
THEOREM FileStoreTyped == Spec => []TypeOK
BY Invariance, PTL DEF IInv

\* Killed or failing at any step of Save, the index can be read, and each of
\* its links is to a scan that is there and shows the item, or whose file a
\* scan of the same second has taken, for any number of saves.
THEOREM IndexLinksResolve == Spec => []LinksResolve
<1>1. IInv => LinksResolve
  <2> SUFFICES ASSUME IInv, NEW i \in Items
      PROVE  /\ FindCoOccurringTargets(i) # Torn
             /\ \A o \in DOMAIN FindCoOccurringTargets(i) :
                  Resolves(i, o, FindCoOccurringTargets(i)[o])
    BY DEF LinksResolve, Resolves, GetScan
  <2>1. index[i] \in {NoFile} \cup Links
    BY DEF IInv, TypeOK
  <2>2. <<>> \in Links /\ DOMAIN <<>> = {}
    <3>1. <<>> \in [{} -> Seconds]
      OBVIOUS
    <3> QED
      BY <3>1 DEF Links
  <2> QED
    BY <2>1, <2>2, MarkersAssumption DEF FindCoOccurringTargets, IInv, LinksInv
<1> QED
  BY <1>1, Invariance, PTL

\* A scan whose Save returned without an error is read back as it was, unless
\* one of the same target and second has replaced it, and a history fails only
\* because of a save that did not return or returned an error.
THEOREM SavedScansSurvive == Spec => []SavedScansKept
<1>1. IInv => SavedScansKept
  <2> SUFFICES ASSUME IInv PROVE SavedScansKept
    OBVIOUS
  <2>1. \A n \in acked : Replaced(n) \/ GetScan(log[n].onion, log[n].second) = n
    BY DEF IInv, FilesInv, GetScan, Key
  <2>2. ASSUME NEW o \in Onions, HistoryFails(o)
        PROVE  \E n \in DOMAIN log \ acked : log[n].onion = o /\ files[Key(n)] = Torn
    <3>1. PICK s \in Seconds : files[<<o, s>>] = Torn
      BY <2>2 DEF HistoryFails, GetScan
    <3>2. PICK n \in DOMAIN log \ acked : Key(n) = <<o, s>>
      BY <3>1 DEF IInv, FilesInv, Keys
    <3> QED
      BY <3>1, <3>2 DEF Key
  <2> QED
    BY <2>1, <2>2 DEF SavedScansKept
<1> QED
  BY <1>1, Invariance, PTL

\* Whatever order scans are saved in, an item of a scan that was saved is linked
\* to its target by that scan or a later one, unless a step of the index failed
\* for this scan or since for the entry.
THEOREM IndexAccounts == Spec => []IndexAccountsForScans
<1>1. IInv => IndexAccountsForScans
  <2> SUFFICES ASSUME IInv, NEW n \in acked, NEW i \in ToSet(log[n].items) \ Unindexed
      PROVE  Accounted(n, i, FindCoOccurringTargets(i))
    BY DEF IndexAccountsForScans, Accounted, Excused, Named
  <2>1. n \in 1 .. Len(log) /\ log[n].items \in Seq(Items)
    BY LogFacts DEF IInv, TypeOK
  <2>2. i \in Items
    BY <2>1, LenProperties, ElementOfSeq DEF ToSet
  <2> QED
    BY <2>1, <2>2 DEF IInv, IndexInv, Indexed, Shows
<1> QED
  BY <1>1, Invariance, PTL
================================================================================
