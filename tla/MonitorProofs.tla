----------------------------- MODULE MonitorProofs -----------------------------
(***************************************************************************)
(* Proofs about Monitor, for any targets, given twice or not, any findings *)
(* a scan may end with, any options and any number of scans.               *)
(***************************************************************************)
EXTENDS Monitor, SequenceTheorems, FiniteSetTheorems, WellFoundedInduction, TLAPS

\* A target of the round is at hand.
AtWork == pc \in {"scanning", "saving", "saved"}

\* Where the round stands: the targets begun are those tried; between rounds
\* nothing of one is left.
PlaceInv ==
  /\ AtWork => index \in DOMAIN Targets
  /\ current # NoScan <=> pc \in {"saving", "saved"}
  /\ mode = "round" => ~cancelled
  /\ pc = "select" => mode = "interval"
  /\ tried = {Targets[i] : i \in 1 .. (IF AtWork THEN index ELSE index - 1)}
  /\ pc \in {"down", "exited", "killed", "select"} =>
       index = 1 /\ hadAnyChanges = FALSE /\ maxScore = 0

\* The store: scans end one after the other, and a target has one row for each
\* second.
StoreInv ==
  /\ \A i, j \in 1 .. ended : i <= j => seconds[i] <= seconds[j]
  /\ \A o \in Onions : \A s \in rows[o] : s.id <= ended
  /\ \A o \in Onions : \A s, t \in rows[o] : SameSecond(s.id, t.id) => s = t

\* A report that is made of the scan at hand may start from scan i.
MayStartFrom(i) ==
  \/ i = covered[Target]
  \/ i \in excused /\ (covered[Target] < i \/ SameSecond(covered[Target], i))

\* The latest scan of a target was compared, is excused or is at hand, and did
\* not end in an earlier second than what was compared; once the scan at hand
\* is saved, what was compared before it is not the latest any more.  The
\* baseline is older than the scan at hand, and the report may start from it.
ChainInv ==
  /\ other # NoScan => other.scan.id \in excused /\ other.scan.id <= ended
  /\ \A o \in Onions : Latest(o) # NoScan =>
       \/ Latest(o).id \in excused
       \/ Latest(o).id = covered[o] /\ ~(pc = "saved" /\ o = Target)
       \/ Latest(o).id = current.id /\ pc = "saved" /\ o = Target
  /\ \A o \in Onions :
       /\ covered[o] <= ended
       /\ covered[o] # 0 =>
            Latest(o) # NoScan /\ seconds[covered[o]] <= seconds[Latest(o).id]
  /\ current # NoScan =>
       /\ current.id <= ended
       /\ \A o \in Onions : covered[o] < current.id
       /\ mode = "scan" => current.id \in excused
  /\ pc = "saved" =>
       Latest(Target) # NoScan /\ seconds[current.id] <= seconds[Latest(Target).id]
  /\ base \in Scans =>
       /\ AtWork
       /\ base.id <= ended /\ MayStartFrom(base.id)
       /\ current # NoScan => base.id < current.id
  /\ AtWork /\ mode # "scan" /\ base = NoScan => covered[Target] = 0

\* What the report at a place of Targets says.
ShowsChanges(i) ==
  reports[i] # NoScan /\ HasChanges(DiffOf(reports[i].base, reports[i].new))
ScoresAbove(i) == reports[i] # NoScan /\ reports[i].new.riskScore > FailAboveScore

\* The variables of the round sum up its reports.
RoundInv ==
  Running /\ mode # "interval" =>
    /\ \A i \in DOMAIN Targets : i >= index => reports[i] = NoScan
    /\ mode = "round" => (hadAnyChanges <=> \E i \in DOMAIN Targets : ShowsChanges(i))
    /\ maxScore > FailAboveScore <=>
         0 > FailAboveScore \/ \E i \in DOMAIN Targets : ScoresAbove(i)

IInv == TypeOK /\ PlaceInv /\ StoreInv /\ ChainInv /\ RoundInv /\ ExitCodeTells

-----------------------------------------------------------------------------
\* There are targets, all of them onions.
LEMMA TargetFacts ==
  /\ Len(Targets) \in Nat \ {0} /\ DOMAIN Targets = 1 .. Len(Targets)
  /\ \A i \in DOMAIN Targets : Targets[i] \in Onions
<1>1. Targets \in Seq(Onions) /\ Targets # <<>>
  BY MonitorAssumption
<1> QED
  BY <1>1, LenProperties, EmptySeq, ElementOfSeq

\* The place in Targets that is at hand.
LEMMA PlaceFacts ==
  ASSUME TypeOK
  PROVE  /\ index \in Nat \ {0} /\ index <= Len(Targets) + 1
         /\ index \in DOMAIN Targets <=> index <= Len(Targets)
         /\ index \in DOMAIN Targets => Target \in Onions /\ Target \in ToSet(Targets)
<1>1. index \in 1 .. Len(Targets) + 1
  BY DEF TypeOK
<1>2. /\ index \in Nat \ {0} /\ index <= Len(Targets) + 1
      /\ index \in DOMAIN Targets <=> index <= Len(Targets)
  BY <1>1, TargetFacts
<1>3. index \in DOMAIN Targets => Targets[index] \in Onions /\ Targets[index] \in ToSet(Targets)
  BY TargetFacts DEF ToSet
<1> QED
  BY <1>2, <1>3 DEF Target

\* The number of scans that ended.
LEMMA EndedFacts ==
  ASSUME TypeOK
  PROVE  /\ ended \in Nat /\ ended \in 0 .. MaxScans
         /\ \A i \in 1 .. ended : seconds[i] \in Nat
<1>1. seconds \in Seq(Nat) /\ ended <= MaxScans
  BY DEF TypeOK
<1>2. Len(seconds) \in Nat /\ \A i \in 1 .. Len(seconds) : seconds[i] \in Nat
  BY <1>1, LenProperties, ElementOfSeq
<1> QED
  BY <1>1, <1>2, MonitorAssumption DEF ended

\* A scan that ends is the newest.
LEMMA NewScanFacts ==
  ASSUME TypeOK, ended < MaxScans, NEW fs \in Outcomes
  PROVE  /\ NewScan(fs) \in Scans /\ NewScan(fs).id = ended + 1
         /\ ended \in 0 .. MaxScans /\ ended + 1 \in 1 .. MaxScans
<1>1. ended \in 0 .. MaxScans /\ ended + 1 \in 1 .. MaxScans
  BY MonitorAssumption, EndedFacts
<1>2. Score(fs) \in 0 .. 100
  BY ScoresAssumption
<1> QED
  BY <1>1, <1>2 DEF NewScan, Scans

\* It ends in no earlier second than the others.
LEMMA SecondsGrow ==
  ASSUME TypeOK, NEW s \in NextSeconds, seconds' = Append(seconds, s)
  PROVE  /\ seconds' \in Seq(Nat) /\ ended' = ended + 1
         /\ \A i \in 1 .. ended : seconds'[i] = seconds[i]
         /\ s \in Nat /\ seconds'[ended + 1] = s
         /\ ended # 0 => seconds[ended] <= s
<1>1. seconds \in Seq(Nat) /\ ended \in Nat
  BY EndedFacts DEF TypeOK
<1>2. CASE seconds = <<>>
  <2>1. s = 0 /\ ended = 0
    BY <1>2, EmptySeq DEF NextSeconds, ended
  <2> QED
    BY <1>1, <2>1, AppendProperties DEF ended
<1>3. CASE seconds # <<>>
  <2>1. ended # 0
    BY <1>1, <1>3, EmptySeq DEF ended
  <2>2. seconds[ended] \in Nat
    BY <1>1, <2>1, EndedFacts
  <2>3. s \in Nat /\ seconds[ended] <= s
    BY <1>3, <2>2 DEF NextSeconds
  <2> QED
    BY <1>1, <2>3, AppendProperties DEF ended
<1> QED
  BY <1>2, <1>3

\* Scans and what is made of them are not NoScan.
LEMMA ScanFacts ==
  /\ \A s \in Scans : s # NoScan /\ s # Unread /\ s.id \in 1 .. MaxScans /\ s.riskScore \in 0 .. 100
  /\ \A r \in Reported : r # NoScan /\ r.base \in Scans \cup {NoScan, Unread} /\ r.new \in Scans
  /\ \A x \in OtherScans : x # NoScan /\ x.onion \in Onions /\ x.scan \in Scans
<1>1. /\ \A s \in Scans : s.id \in 1 .. MaxScans /\ s.riskScore \in 0 .. 100
      /\ \A r \in Reported : r.base \in Scans \cup {NoScan, Unread} /\ r.new \in Scans
      /\ \A x \in OtherScans : x.onion \in Onions /\ x.scan \in Scans
  BY DEF Scans, Reported, OtherScans
<1> QED
  BY <1>1, NoScanAssumption

-----------------------------------------------------------------------------
(* The store *)

\* A set of natural numbers has a least one: among its beginnings, which are
\* finite, one contains no other.
LEMMA Least ==
  ASSUME NEW S \in SUBSET Nat, S # {}
  PROVE  \E i \in S : \A j \in S : i <= j
<1> DEFINE upTo(m) == S \cap (0 .. m)
           T == {upTo(m) : m \in S}
<1>1. T \subseteq FiniteSubsetsOf(Nat) /\ T # {}
  <2>1. ASSUME NEW m \in S PROVE upTo(m) \in FiniteSubsetsOf(Nat)
    <3>1. IsFiniteSet(0 .. m) /\ upTo(m) \in SUBSET (0 .. m)
      BY FS_Interval
    <3>2. IsFiniteSet(upTo(m))
      BY <3>1, FS_Subset
    <3> QED
      BY <3>2 DEF FiniteSubsetsOf
  <2> QED
    BY <2>1
<1>2. IsWellFoundedOn(StrictSubsetOrdering(Nat), FiniteSubsetsOf(Nat))
  BY FS_StrictSubsetOrderingWellFounded
<1>3. PICK x \in T : \A y \in T : <<y, x>> \notin StrictSubsetOrdering(Nat)
  <2> HIDE DEF T
  <2> QED
    BY <1>1, <1>2, WFMin
<1>4. PICK i \in S : x = upTo(i)
  OBVIOUS
<1>5. ASSUME NEW j \in S, j < i PROVE FALSE
  <2>1. upTo(j) \subseteq upTo(i) /\ i \in upTo(i) /\ i \notin upTo(j)
    BY <1>5
  <2>2. <<upTo(j), upTo(i)>> \in StrictSubsetOrdering(Nat)
    BY <2>1 DEF StrictSubsetOrdering
  <2> QED
    BY <1>3, <1>4, <2>2
<1> QED
  BY <1>5

\* A bounded one has a greatest.
LEMMA Greatest ==
  ASSUME NEW n \in Nat, NEW S \in SUBSET (0 .. n), S # {}
  PROVE  \E i \in S : \A j \in S : j <= i
<1> DEFINE T == {n - i : i \in S}
<1>1. \A i \in S : n - i \in Nat
  OBVIOUS
<1>2. PICK d \in T : \A e \in T : d <= e
  <2>1. T \in SUBSET Nat /\ T # {}
    BY <1>1
  <2> HIDE DEF T
  <2> QED
    BY <2>1, Least
<1>3. PICK i \in S : d = n - i
  OBVIOUS
<1>4. ASSUME NEW j \in S PROVE j <= i
  <2>1. d <= n - j
    BY <1>2
  <2> QED
    BY <1>3, <2>1
<1> QED
  BY <1>4

\* Of some scans one is the newest.
LEMMA NewestFacts ==
  ASSUME NEW R \in SUBSET Scans, R # {}
  PROVE  \E s \in R : \A t \in R : t.id <= s.id
<1> DEFINE ids == {t.id : t \in R}
<1>1. ids \in SUBSET (0 .. MaxScans) /\ ids # {}
  BY ScanFacts
<1>2. PICK i \in ids : \A k \in ids : k <= i
  <2> HIDE DEF ids
  <2> QED
    BY <1>1, Greatest, MonitorAssumption
<1> QED
  BY <1>2

\* Latest is the row of the scan that ended last, if there is a row.
LEMMA LatestFacts ==
  ASSUME TypeOK, NEW o \in Onions
  PROVE  /\ Latest(o) \in Scans \cup {NoScan}
         /\ Latest(o) = NoScan <=> rows[o] = {}
         /\ Latest(o) # NoScan =>
              Latest(o) \in rows[o] /\ \A t \in rows[o] : t.id <= Latest(o).id
<1>1. rows[o] \in SUBSET Scans
  BY DEF TypeOK
<1>2. CASE rows[o] = {}
  BY <1>2 DEF Latest
<1>3. CASE rows[o] # {}
  <2>1. \E s \in rows[o] : \A t \in rows[o] : t.id <= s.id
    BY <1>1, <1>3, NewestFacts
  <2>2. Latest(o) \in rows[o] /\ \A t \in rows[o] : t.id <= Latest(o).id
    BY <1>3, <2>1 DEF Latest
  <2> QED
    BY <1>1, <1>3, <2>2, ScanFacts
<1> QED
  BY <1>2, <1>3

\* Scans that ended and their seconds are in the same order.
LEMMA OrderFacts ==
  ASSUME TypeOK, StoreInv, NEW i \in 1 .. ended, NEW j \in 1 .. ended
  PROVE  /\ seconds[i] \in Nat /\ seconds[j] \in Nat
         /\ i <= j => seconds[i] <= seconds[j]
         /\ seconds[i] < seconds[j] => i < j
<1>1. seconds[i] \in Nat /\ seconds[j] \in Nat /\ i \in Int /\ j \in Int
  BY EndedFacts
<1>2. /\ i <= j => seconds[i] <= seconds[j]
      /\ j <= i => seconds[j] <= seconds[i]
  BY DEF StoreInv
<1> QED
  BY <1>1, <1>2

\* A scan that is saved is the latest, unless the latest ended after it, in a
\* later second.
LEMMA StoredFacts ==
  ASSUME TypeOK, StoreInv, NEW o \in Onions, NEW scan \in Scans, scan.id <= ended,
         Stored(o, scan), UNCHANGED seconds
  PROVE  /\ StoreInv'
         /\ \A p \in Onions \ {o} : Latest(p)' = Latest(p)
         /\ Latest(o)' \in Scans
         /\ \/ Latest(o)' = scan
            \/ Latest(o) # NoScan /\ Latest(o)' = Latest(o) /\ scan.id < Latest(o).id
         /\ seconds[scan.id] <= seconds[Latest(o)'.id]
         /\ Latest(o) # NoScan => seconds[Latest(o).id] <= seconds[Latest(o)'.id]
<1> DEFINE kept == {s \in rows[o] : ~SameSecond(s.id, scan.id)}
<1>1. /\ rows'[o] = kept \cup {scan}
      /\ \A p \in Onions \ {o} : rows'[p] = rows[p]
  BY DEF Stored, TypeOK
<1>2. ended' = ended /\ seconds' = seconds
  BY DEF ended
<1>3. /\ rows[o] \subseteq Scans
      /\ \A s \in rows[o] : s.id \in 1 .. ended
      /\ scan.id \in 1 .. ended /\ scan # NoScan
  <2>1. rows[o] \subseteq Scans /\ \A s \in rows[o] : s.id <= ended
    BY DEF TypeOK, StoreInv
  <2>2. ended \in Nat
    BY EndedFacts
  <2> QED
    BY <2>1, <2>2, ScanFacts
<1>4. StoreInv'
  <2>1. \A i, j \in 1 .. ended' : i <= j => seconds'[i] <= seconds'[j]
    BY <1>2 DEF StoreInv
  <2>2. ASSUME NEW p \in Onions
        PROVE  /\ \A s \in rows'[p] : s.id <= ended'
               /\ \A s, t \in rows'[p] : SameSecond(s.id, t.id)' => s = t
    <3>1. CASE p = o
      BY <1>1, <1>2, <3>1 DEF StoreInv, SameSecond
    <3>2. CASE p # o
      BY <1>1, <1>2, <3>2 DEF StoreInv, SameSecond
    <3> QED
      BY <3>1, <3>2
  <2> QED
    BY <2>1, <2>2 DEF StoreInv
<1>5. \A p \in Onions \ {o} : Latest(p)' = Latest(p)
  <2>1. ASSUME NEW p \in Onions \ {o} PROVE Latest(p)' = Latest(p)
    <3>1. rows'[p] = rows[p]
      BY <1>1
    <3> QED
      BY <3>1 DEF Latest
  <2> QED
    BY <2>1
<1>6. /\ Latest(o)' \in rows'[o] /\ Latest(o)' \in Scans
      /\ \A t \in rows'[o] : t.id <= Latest(o)'.id
  <2>1. rows'[o] \in SUBSET Scans /\ rows'[o] # {}
    BY <1>1, <1>3
  <2>2. \E s \in rows'[o] : \A t \in rows'[o] : t.id <= s.id
    BY <2>1, NewestFacts
  <2>3. Latest(o)' \in rows'[o] /\ \A t \in rows'[o] : t.id <= Latest(o)'.id
    BY <2>1, <2>2 DEF Latest
  <2> QED
    BY <2>1, <2>3
<1>7. /\ Latest(o) \in Scans \cup {NoScan}
      /\ Latest(o) # NoScan =>
           Latest(o) \in rows[o] /\ \A t \in rows[o] : t.id <= Latest(o).id
      /\ Latest(o) = NoScan <=> rows[o] = {}
  BY LatestFacts
<1> DEFINE new == Latest(o)'
           old == Latest(o)
<1>8. CASE new = scan
  <2>1. old # NoScan => seconds[old.id] <= seconds[scan.id]
    <3>1. ASSUME old # NoScan PROVE seconds[old.id] <= seconds[scan.id]
      <4>1. old \in rows[o] /\ old.id \in 1 .. ended
        BY <1>3, <1>7, <3>1
      <4>2. CASE SameSecond(old.id, scan.id)
        BY <1>3, <4>1, <4>2, EndedFacts DEF SameSecond
      <4>3. CASE ~SameSecond(old.id, scan.id)
        <5>1. old.id <= scan.id
          BY <1>1, <1>6, <1>8, <4>1, <4>3
        <5> QED
          BY <1>3, <4>1, <5>1, OrderFacts
      <4> QED
        BY <4>2, <4>3
    <3> QED
      BY <3>1
  <2>2. seconds[scan.id] <= seconds[new.id]
    BY <1>3, <1>8, EndedFacts
  <2> QED
    BY <1>4, <1>5, <1>6, <1>8, <2>1, <2>2
<1>9. CASE new # scan
  <2>1. new \in rows[o] /\ ~SameSecond(new.id, scan.id) /\ scan.id <= new.id
    BY <1>1, <1>6, <1>9
  <2>2. old # NoScan /\ old \in rows[o] /\ new.id <= old.id
    BY <1>7, <2>1
  <2>3. /\ scan.id \in 1 .. ended /\ new.id \in 1 .. ended /\ old.id \in 1 .. ended
    BY <1>3, <2>1, <2>2
  <2>4. seconds[scan.id] < seconds[new.id] /\ seconds[new.id] <= seconds[old.id]
    BY <2>1, <2>2, <2>3, OrderFacts DEF SameSecond
  <2>5. ~SameSecond(old.id, scan.id)
    BY <2>3, <2>4, EndedFacts DEF SameSecond
  <2>6. old.id <= new.id
    BY <1>1, <1>6, <2>2, <2>5
  <2>7. old = new
    <3>1. old.id = new.id
      BY <2>2, <2>3, <2>6
    <3> QED
      BY <2>1, <2>2, <3>1 DEF StoreInv, SameSecond
  <2>8. scan.id < new.id
    BY <2>3, <2>4, OrderFacts
  <2> QED
    BY <1>4, <1>5, <1>6, <2>2, <2>3, <2>4, <2>7, <2>8, EndedFacts
<1> QED
  BY <1>8, <1>9

-----------------------------------------------------------------------------
\* The invariant holds before the first invocation.
LEMMA InitIInv == Init => IInv
<1> SUFFICES ASSUME Init PROVE IInv
  OBVIOUS
<1>1. TypeOK
  <2>1. 0 \in 0 .. MaxScans /\ 1 \in 1 .. Len(Targets) + 1 /\ 0 \in 0 .. 100
    BY TargetFacts, MonitorAssumption
  <2>2. rows \in [Onions -> SUBSET Scans] /\ covered \in [Onions -> 0 .. MaxScans]
    BY <2>1 DEF Init
  <2>3. reports \in [DOMAIN Targets -> Reported \cup {NoScan}]
    BY DEF Init, NoReports
  <2>4. seconds \in Seq(Nat) /\ ended = 0
    BY EmptySeq DEF Init, ended
  <2>5. ended <= MaxScans
    BY <2>4, MonitorAssumption
  <2> QED
    BY <2>1, <2>2, <2>3, <2>4, <2>5 DEF Init, TypeOK
<1>2. PlaceInv
  BY DEF Init, PlaceInv, AtWork
<1>3. ended = 0 /\ \A o \in Onions : rows[o] = {} /\ Latest(o) = NoScan /\ covered[o] = 0
  BY EmptySeq DEF Init, ended, Latest
<1>4. StoreInv
  BY <1>3 DEF StoreInv
<1>5. ChainInv
  BY <1>3, NoScanAssumption DEF Init, ChainInv, AtWork
<1>6. RoundInv /\ ExitCodeTells
  BY DEF Init, RoundInv, Running, ExitCodeTells
<1> QED
  BY <1>1, <1>2, <1>6, <1>4, <1>5 DEF IInv

\* Every step keeps the types.
LEMMA TypeKeeps == TypeOK /\ PlaceInv /\ [Next]_vars => TypeOK'
<1> SUFFICES ASSUME TypeOK, PlaceInv, [Next]_vars PROVE TypeOK'
  OBVIOUS
<1>1. /\ 1 \in 1 .. Len(Targets) + 1 /\ 0 \in 0 .. 100 /\ {} \subseteq ToSet(Targets)
      /\ NoReports \in [DOMAIN Targets -> Reported \cup {NoScan}]
  BY TargetFacts DEF NoReports
<1>2. current # NoScan => current.id \in 1 .. MaxScans
  BY ScanFacts DEF TypeOK
<1> USE DEF storeVars, batchVars, history
<1>3. CASE UNCHANGED vars
  BY <1>3 DEF vars, TypeOK, ended
<1>4. CASE OtherScanEnds
  <2>1. PICK o \in Onions, fs \in Outcomes : other' = [onion |-> o, scan |-> NewScan(fs)]
    BY <1>4 DEF OtherScanEnds
  <2>2. NewScan(fs) \in Scans /\ ended + 1 \in 1 .. MaxScans /\ ended + 1 \in 0 .. MaxScans
    BY <1>4, NewScanFacts DEF OtherScanEnds
  <2>3. other' \in OtherScans
    BY <2>1, <2>2 DEF OtherScans
  <2>4. seconds' \in Seq(Nat) /\ ended' <= MaxScans
    BY <1>4, <2>2, SecondsGrow DEF OtherScanEnds
  <2>5. excused' \subseteq 1 .. MaxScans
    BY <1>4, <2>2 DEF OtherScanEnds, TypeOK
  <2> QED
    BY <1>4, <2>3, <2>4, <2>5 DEF OtherScanEnds, TypeOK
<1>5. CASE OtherSaves
  <2>1. other.onion \in Onions /\ other.scan \in Scans
    BY <1>5, ScanFacts DEF OtherSaves, TypeOK
  <2>2. rows' \in [Onions -> SUBSET Scans]
    BY <1>5, <2>1 DEF OtherSaves, Stored, TypeOK
  <2> QED
    BY <1>5, <2>2 DEF OtherSaves, TypeOK, ended
<1>6. CASE Invoke
  BY <1>1, <1>6 DEF Invoke, TypeOK, ended
<1>7. CASE Signal \/ Tick
  <2>1. cancelled' \in BOOLEAN /\ tick' \in BOOLEAN
    BY <1>7, Zenon DEF Signal, Tick, TypeOK
  <2>2. UNCHANGED <<storeVars, pc, mode, batchVars, code, history>>
    BY <1>7 DEF Signal, Tick
  <2> QED
    BY <2>1, <2>2 DEF TypeOK, ended
<1>8. CASE Killed
  <2>1. excused' \subseteq 1 .. MaxScans
    BY <1>2, <1>8 DEF Killed, TypeOK
  <2> QED
    BY <1>1, <1>8, <2>1 DEF Killed, NoBatch, TypeOK, ended
<1>9. CASE SelectDone \/ SelectTick
  <2>1. CASE SelectDone
    BY <2>1 DEF SelectDone, TypeOK, ended
  <2>2. CASE SelectTick
    BY <2>2 DEF SelectTick, TypeOK, ended
  <2> QED
    BY <1>9, <2>1, <2>2
<1>10. CASE EndBatch
  <2>1. code' \in {0, 1, 2, Cancelled} /\ pc' \in {"select", "exited"}
    BY <1>10 DEF EndBatch, ExitCode, TypeOK
  <2>2. reports' \in [DOMAIN Targets -> Reported \cup {NoScan}]
    BY <1>1, <1>10 DEF EndBatch, TypeOK
  <2> QED
    BY <1>1, <1>10, <2>1, <2>2 DEF EndBatch, NoBatch, TypeOK, ended
<1>11. CASE BeginTarget
  <2>1. Target \in Onions /\ Target \in ToSet(Targets)
    BY <1>11, PlaceFacts DEF BeginTarget
  <2>2. base' \in Scans \cup {NoScan, Unread}
    BY <1>11, <2>1, LatestFacts DEF BeginTarget
  <2> QED
    BY <1>11, <2>1, <2>2 DEF BeginTarget, TypeOK, ended
<1>12. CASE ScanFails
  <2>1. index + 1 \in 1 .. Len(Targets) + 1
    BY <1>12, TargetFacts, PlaceFacts DEF ScanFails, PlaceInv, AtWork
  <2>2. excused' \subseteq 1 .. MaxScans
    BY <1>2, <1>12 DEF ScanFails, TypeOK
  <2>3. hadAnyChanges' \in BOOLEAN /\ maxScore' \in 0 .. 100
    BY <1>1, <1>12 DEF ScanFails, NoBatch, TypeOK
  <2>4. tried' \subseteq ToSet(Targets) /\ code' \in {0, 1, 2, Cancelled}
    BY <1>1, <1>12 DEF ScanFails, NoBatch, TypeOK
  <2>5. /\ pc' \in {"exited", "target"} /\ index' \in {1, index + 1}
        /\ base' = NoScan /\ current' = NoScan
        /\ UNCHANGED <<storeVars, mode, cancelled, tick, reports, covered>>
    BY <1>12 DEF ScanFails, NoBatch
  <2> QED
    BY <1>1, <2>1, <2>2, <2>3, <2>4, <2>5 DEF TypeOK, ended
<1>13. CASE ScanEnds
  <2>1. ended + 1 \in 0 .. MaxScans /\ ended + 1 \in 1 .. MaxScans /\ current' \in Scans
    BY <1>13, NewScanFacts DEF ScanEnds
  <2>2. seconds' \in Seq(Nat) /\ ended' <= MaxScans
    BY <1>13, <2>1, SecondsGrow DEF ScanEnds
  <2> QED
    BY <1>13, <2>1, <2>2 DEF ScanEnds, TypeOK
<1>14. CASE ScanSaves
  <2>1. Target \in Onions /\ current \in Scans
    BY <1>14, PlaceFacts DEF ScanSaves, PlaceInv, AtWork, TypeOK
  <2>2. rows' \in [Onions -> SUBSET Scans]
    BY <1>14, <2>1 DEF ScanSaves, Stored, TypeOK
  <2> QED
    BY <1>14, <2>2 DEF ScanSaves, TypeOK, ended
<1>15. CASE Report
  <2>1. /\ Target \in Onions /\ index \in DOMAIN Targets /\ current \in Scans
        /\ index + 1 \in 1 .. Len(Targets) + 1
    BY <1>15, TargetFacts, PlaceFacts DEF Report, PlaceInv, AtWork, TypeOK
  <2>2. current.riskScore \in 0 .. 100 /\ current.id \in 0 .. MaxScans
    BY <2>1, ScanFacts
  <2>3. maxScore' \in 0 .. 100 /\ hadAnyChanges' \in BOOLEAN
    BY <1>15, <2>2 DEF Report, Maximum, TypeOK
  <2>4. [base |-> base, new |-> current] \in Reported
    BY <2>1 DEF Reported, TypeOK
  <2>5. /\ reports' \in [DOMAIN Targets -> Reported \cup {NoScan}]
        /\ covered' \in [Onions -> 0 .. MaxScans]
    BY <1>15, <2>1, <2>2, <2>4 DEF Report, TypeOK
  <2> QED
    BY <1>15, <2>1, <2>3, <2>5 DEF Report, TypeOK, ended
<1> QED
  BY <1>3, <1>4, <1>5, <1>6, <1>7, <1>8, <1>9, <1>10, <1>11, <1>12, <1>13, <1>14, <1>15
     DEF Next, Environment, Batch

\* The round keeps its place.
LEMMA PlaceKeeps == TypeOK /\ PlaceInv /\ [Next]_vars => PlaceInv'
<1> SUFFICES ASSUME TypeOK, PlaceInv, [Next]_vars PROVE PlaceInv'
  OBVIOUS
<1> USE DEF storeVars, batchVars, history
<1>1. NoBatch => index' = 1 /\ current' = NoScan /\ tried' = {} /\ ~hadAnyChanges' /\ maxScore' = 0
  BY DEF NoBatch
<1>2. CASE \/ UNCHANGED vars \/ OtherScanEnds \/ OtherSaves \/ Tick
  BY <1>2 DEF vars, OtherScanEnds, OtherSaves, Tick, PlaceInv, AtWork
<1>3. CASE Invoke
  BY <1>3 DEF Invoke, Running, PlaceInv, AtWork
<1>4. CASE Signal
  BY <1>4 DEF Signal, PlaceInv, AtWork
<1>5. CASE Killed
  BY <1>1, <1>5 DEF Killed, PlaceInv, AtWork, NoBatch
<1>6. CASE SelectDone \/ SelectTick
  BY <1>6 DEF SelectDone, SelectTick, PlaceInv, AtWork
<1>7. CASE EndBatch
  BY <1>1, <1>7 DEF EndBatch, NoBatch, PlaceInv, AtWork
<1>8. CASE BeginTarget
  <2>1. index \in Nat \ {0} /\ index \in DOMAIN Targets
    BY <1>8, PlaceFacts DEF BeginTarget
  <2>2. tried' = {Targets[i] : i \in 1 .. index}
    <3>1. tried' = {Targets[i] : i \in 1 .. index - 1} \cup {Targets[index]}
      BY <1>8 DEF BeginTarget, PlaceInv, AtWork, Target
    <3>2. 1 .. index = (1 .. index - 1) \cup {index}
      BY <2>1
    <3> QED
      BY <3>1, <3>2
  <2> QED
    BY <1>8, <2>1, <2>2 DEF BeginTarget, PlaceInv, AtWork
<1>9. CASE ScanFails
  <2>1. index \in Nat \ {0} /\ (index + 1) - 1 = index
    BY PlaceFacts
  <2> QED
    BY <1>1, <1>9, <2>1 DEF ScanFails, NoBatch, PlaceInv, AtWork
<1>10. CASE ScanEnds
  <2>1. current' # NoScan
    BY <1>10, NewScanFacts, ScanFacts DEF ScanEnds
  <2> QED
    BY <1>10, <2>1 DEF ScanEnds, PlaceInv, AtWork
<1>11. CASE ScanSaves
  BY <1>11 DEF ScanSaves, PlaceInv, AtWork
<1>12. CASE Report
  <2>1. index \in Nat \ {0} /\ (index + 1) - 1 = index
    BY PlaceFacts
  <2> QED
    BY <1>12, <2>1 DEF Report, PlaceInv, AtWork
<1> QED
  BY <1>2, <1>3, <1>4, <1>5, <1>6, <1>7, <1>8, <1>9, <1>10, <1>11, <1>12
     DEF Next, Environment, Batch

\* Scans go on to end one after the other, and rows to have a second each.
LEMMA StoreKeeps == TypeOK /\ PlaceInv /\ StoreInv /\ ChainInv /\ [Next]_vars => StoreInv'
<1> SUFFICES ASSUME TypeOK, PlaceInv, StoreInv, ChainInv, [Next]_vars PROVE StoreInv'
  OBVIOUS
<1> USE DEF storeVars, batchVars, history
<1>1. CASE UNCHANGED <<rows, seconds>>
  BY <1>1 DEF StoreInv, SameSecond, ended
<1>2. CASE OtherScanEnds \/ ScanEnds
  <2>1. rows' = rows
    BY <1>2 DEF OtherScanEnds, ScanEnds
  <2>2. PICK s \in NextSeconds : seconds' = Append(seconds, s)
    BY <1>2 DEF OtherScanEnds, ScanEnds
  <2>3. /\ ended \in Nat /\ ended' = ended + 1 /\ s \in Nat
        /\ \A i \in 1 .. ended : seconds'[i] = seconds[i] /\ seconds[i] \in Nat
        /\ seconds'[ended + 1] = s
        /\ ended # 0 => seconds[ended] <= s
    BY <2>2, SecondsGrow, EndedFacts
  <2>4. ASSUME NEW i \in 1 .. ended', NEW j \in 1 .. ended', i <= j
        PROVE  seconds'[i] <= seconds'[j]
    <3>1. CASE j <= ended
      BY <2>3, <2>4, <3>1 DEF StoreInv
    <3>2. CASE j = ended + 1 /\ i = j
      BY <2>3, <3>2
    <3>3. CASE j = ended + 1 /\ i <= ended
      <4>1. i \in 1 .. ended /\ ended \in 1 .. ended
        BY <2>3, <3>3
      <4>2. seconds[i] <= seconds[ended]
        BY <4>1 DEF StoreInv
      <4>3. seconds'[i] = seconds[i] /\ seconds[i] \in Nat /\ seconds[ended] \in Nat
        BY <2>3, <4>1
      <4> QED
        BY <2>3, <3>3, <4>1, <4>2, <4>3
    <3> QED
      BY <2>3, <2>4, <3>1, <3>2, <3>3
  <2>5. ASSUME NEW o \in Onions
        PROVE  \A s1 \in rows[o] : s1.id \in 1 .. ended
    BY <2>3, ScanFacts DEF TypeOK, StoreInv
  <2>6. ASSUME NEW o \in Onions
        PROVE  /\ \A s1 \in rows'[o] : s1.id <= ended'
               /\ \A s1, t1 \in rows'[o] : SameSecond(s1.id, t1.id)' => s1 = t1
    BY <2>1, <2>3, <2>5 DEF StoreInv, SameSecond
  <2> QED
    BY <2>4, <2>6 DEF StoreInv
<1>3. CASE OtherSaves
  <2>1. PICK o \in Onions, scan \in Scans : o = other.onion /\ scan = other.scan
    BY <1>3, ScanFacts DEF OtherSaves, TypeOK
  <2>2. Stored(o, scan) /\ scan.id <= ended /\ UNCHANGED seconds
    BY <1>3, <2>1 DEF OtherSaves, ChainInv
  <2> QED
    BY <2>2, StoredFacts
<1>4. CASE ScanSaves
  <2>1. PICK o \in Onions, scan \in Scans : o = Target /\ scan = current
    BY <1>4, PlaceFacts DEF ScanSaves, AtWork, PlaceInv, TypeOK
  <2>2. Stored(o, scan) /\ scan.id <= ended /\ UNCHANGED seconds
    BY <1>4, <2>1, ScanFacts DEF ScanSaves, ChainInv
  <2> QED
    BY <2>2, StoredFacts
<1>5. CASE \/ UNCHANGED vars \/ Invoke \/ Signal \/ Killed \/ Tick \/ SelectDone \/ SelectTick
           \/ EndBatch \/ BeginTarget \/ ScanFails \/ Report
  BY <1>1, <1>5 DEF vars, Invoke, Signal, Killed, Tick, SelectDone, SelectTick, EndBatch,
                    BeginTarget, ScanFails, Report
<1> QED
  BY <1>2, <1>3, <1>4, <1>5 DEF Next, Environment, Batch

\* The reports go on to follow each other.
LEMMA ChainKeeps == TypeOK /\ PlaceInv /\ StoreInv /\ ChainInv /\ [Next]_vars => ChainInv'
<1> SUFFICES ASSUME TypeOK, PlaceInv, StoreInv, ChainInv, [Next]_vars PROVE ChainInv'
  OBVIOUS
<1> USE DEF storeVars, batchVars, history
<1>1. /\ ended \in Nat /\ \A i \in 1 .. ended : seconds[i] \in Nat
      /\ \A o \in Onions : covered[o] \in Nat /\ covered[o] <= ended
      /\ current # NoScan => current \in Scans /\ current.id \in 1 .. ended
      /\ base \in Scans => base.id \in 1 .. ended
      /\ other # NoScan => other \in OtherScans /\ other.scan \in Scans
                           /\ other.scan.id \in 1 .. ended /\ other.onion \in Onions
  <2>1. ended \in Nat /\ \A i \in 1 .. ended : seconds[i] \in Nat
    BY EndedFacts
  <2>2. \A o \in Onions : covered[o] \in Nat /\ covered[o] <= ended
    BY MonitorAssumption DEF TypeOK, ChainInv
  <2>3. current # NoScan => current \in Scans /\ current.id \in 1 .. ended
    BY <2>1, ScanFacts DEF TypeOK, ChainInv
  <2>4. base \in Scans => base.id \in 1 .. ended
    BY <2>1, ScanFacts DEF ChainInv
  <2>5. other # NoScan => other \in OtherScans /\ other.scan \in Scans
                          /\ other.scan.id \in 1 .. ended /\ other.onion \in Onions
    BY <2>1, ScanFacts DEF TypeOK, ChainInv
  <2> QED
    BY <2>1, <2>2, <2>3, <2>4, <2>5
<1>2. AtWork => Target \in Onions /\ index \in DOMAIN Targets
  BY PlaceFacts DEF PlaceInv
<1>3. \A o \in Onions : Latest(o) # NoScan => Latest(o) \in Scans /\ Latest(o).id \in 1 .. ended
  <2>1. ASSUME NEW o \in Onions, Latest(o) # NoScan
        PROVE  Latest(o) \in Scans /\ Latest(o).id \in 1 .. ended
    <3>1. Latest(o) \in Scans /\ Latest(o) \in rows[o]
      BY <2>1, LatestFacts
    <3>2. Latest(o).id <= ended
      BY <3>1 DEF StoreInv
    <3> QED
      BY <1>1, <3>1, <3>2, ScanFacts
  <2> QED
    BY <2>1
<1>4. rows' = rows => \A o : Latest(o)' = Latest(o)
  BY DEF Latest
<1>5. seconds' = seconds => ended' = ended
  BY DEF ended
\* What ends, ends after all that went before.
<1>6. ASSUME NEW s \in NextSeconds, seconds' = Append(seconds, s)
      PROVE  ended' = ended + 1 /\ \A i \in 1 .. ended : seconds'[i] = seconds[i]
  BY <1>6, SecondsGrow
<1>7. CASE UNCHANGED vars \/ Tick
  <2>1. UNCHANGED <<rows, seconds, other, pc, mode, index, base, current, covered, excused>>
    BY <1>7 DEF vars, Tick
  <2> QED
    BY <1>4, <1>5, <2>1 DEF ChainInv, MayStartFrom, SameSecond, AtWork, Target
<1>8. CASE Signal
  <2>1. UNCHANGED <<rows, seconds, other, pc, mode, index, base, current, covered, excused>>
    BY <1>8 DEF Signal
  <2> QED
    BY <1>4, <1>5, <2>1 DEF ChainInv, MayStartFrom, SameSecond, AtWork, Target
<1>9. CASE SelectDone \/ SelectTick
  <2>1. /\ pc = "select" /\ pc' \in {"target", "exited"} /\ current = NoScan /\ ~AtWork
        /\ UNCHANGED <<rows, seconds, other, mode, index, base, current, covered, excused>>
    BY <1>9 DEF SelectDone, SelectTick, PlaceInv, AtWork
  <2> QED
    BY <1>4, <1>5, <2>1 DEF ChainInv, AtWork
\* Where a scan ends nothing else of the chain changes.
<1>10. ASSUME NEW s \in NextSeconds, seconds' = Append(seconds, s),
              UNCHANGED <<rows, mode, index, base, covered>>, excused \subseteq excused'
       PROVE  /\ \A o \in Onions : Latest(o)' # NoScan =>
                   \/ Latest(o)'.id \in excused'
                   \/ Latest(o)'.id = covered'[o] /\ ~(pc = "saved" /\ o = Target)
                   \/ Latest(o)'.id = current.id /\ pc = "saved" /\ o = Target
              /\ \A o \in Onions :
                   /\ covered'[o] <= ended'
                   /\ covered'[o] # 0 =>
                        Latest(o)' # NoScan /\ seconds'[covered'[o]] <= seconds'[Latest(o)'.id]
              /\ base \in Scans => base.id <= ended' /\ MayStartFrom(base.id)'
  <2>1. /\ ended' = ended + 1 /\ \A i \in 1 .. ended : seconds'[i] = seconds[i]
        /\ \A o \in Onions : Latest(o)' = Latest(o) /\ covered'[o] = covered[o]
    BY <1>4, <1>6, <1>10
  <2>2. ASSUME NEW o \in Onions
        PROVE  /\ covered'[o] <= ended'
               /\ covered'[o] # 0 =>
                    Latest(o)' # NoScan /\ seconds'[covered'[o]] <= seconds'[Latest(o)'.id]
    BY <1>1, <1>3, <2>1 DEF ChainInv
  <2>3. ASSUME base \in Scans PROVE base.id <= ended' /\ MayStartFrom(base.id)'
    <3>1. base.id \in 1 .. ended /\ MayStartFrom(base.id) /\ Target \in Onions /\ Target' = Target
      BY <1>1, <1>2, <1>10, <2>3 DEF ChainInv, Target
    <3>2. covered[Target] \in 0 .. ended /\ covered'[Target] = covered[Target]
      BY <1>1, <1>10, <3>1
    <3>3. SameSecond(covered[Target], base.id) =>
            covered[Target] < base.id \/ SameSecond(covered[Target], base.id)'
      <4>1. CASE covered[Target] = 0
        BY <3>1, <4>1
      <4>2. CASE covered[Target] \in 1 .. ended
        <5>1. /\ seconds'[covered[Target]] = seconds[covered[Target]]
              /\ seconds'[base.id] = seconds[base.id]
          BY <2>1, <3>1, <4>2
        <5>2. covered'[Target'] = covered[Target] /\ base' = base
          BY <1>10, <3>1
        <5> QED
          BY <5>1, <5>2 DEF SameSecond
      <4> QED
        BY <1>1, <3>2, <4>1, <4>2
    <3> QED
      BY <1>1, <1>10, <2>1, <3>1, <3>2, <3>3 DEF MayStartFrom
  <2> QED
    BY <1>10, <2>1, <2>2, <2>3 DEF ChainInv
<1>11. CASE OtherScanEnds
  <2>1. PICK o \in Onions, fs \in Outcomes : other' = [onion |-> o, scan |-> NewScan(fs)]
    BY <1>11 DEF OtherScanEnds
  <2>2. PICK s \in NextSeconds : seconds' = Append(seconds, s)
    BY <1>11 DEF OtherScanEnds
  <2>3. other'.scan.id = ended + 1 /\ ended' = ended + 1
    BY <1>6, <1>11, <2>1, <2>2, NewScanFacts DEF OtherScanEnds
  <2>4. /\ excused' = excused \cup {ended + 1}
        /\ UNCHANGED <<rows, pc, mode, index, base, current, covered>>
    BY <1>11 DEF OtherScanEnds
  <2>5. Target' = Target /\ AtWork' = AtWork
    BY <2>4 DEF Target, AtWork
  <2>6. other' # NoScan => other'.scan.id \in excused' /\ other'.scan.id <= ended'
    BY <1>1, <2>3, <2>4
  <2>7. excused \subseteq excused'
    BY <2>4
  <2>8. \A p \in Onions : Latest(p)' # NoScan =>
           \/ Latest(p)'.id \in excused'
           \/ Latest(p)'.id = covered'[p] /\ ~(pc = "saved" /\ p = Target)
           \/ Latest(p)'.id = current.id /\ pc = "saved" /\ p = Target
    BY <1>10, <2>2, <2>4, <2>7
  <2>9. \A p \in Onions :
           /\ covered'[p] <= ended'
           /\ covered'[p] # 0 =>
                Latest(p)' # NoScan /\ seconds'[covered'[p]] <= seconds'[Latest(p)'.id]
    BY <1>10, <2>2, <2>4, <2>7
  <2>10. current' # NoScan =>
          /\ current'.id <= ended'
          /\ \A p \in Onions : covered'[p] < current'.id
          /\ mode' = "scan" => current'.id \in excused'
    BY <1>1, <2>3, <2>4 DEF ChainInv
  <2>11. pc' = "saved" =>
          Latest(Target)' # NoScan /\ seconds'[current'.id] <= seconds'[Latest(Target)'.id]
    <3>1. ASSUME pc = "saved"
          PROVE  Latest(Target) # NoScan /\ seconds'[current.id] <= seconds'[Latest(Target).id]
      <4>1. Target \in Onions /\ current # NoScan
        BY <1>2, <3>1 DEF AtWork, PlaceInv
      <4>2. Latest(Target) # NoScan /\ seconds[current.id] <= seconds[Latest(Target).id]
        BY <3>1 DEF ChainInv
      <4> QED
        BY <1>1, <1>3, <1>6, <2>2, <4>1, <4>2
    <3>2. Latest(Target)' = Latest(Target)
      BY <1>4, <2>4, <2>5 DEF Latest
    <3> QED
      BY <2>4, <3>1, <3>2
  <2>12. base' \in Scans =>
          /\ AtWork'
          /\ base'.id <= ended' /\ MayStartFrom(base.id)'
          /\ current' # NoScan => base'.id < current'.id
    BY <1>10, <2>2, <2>4, <2>5, <2>7 DEF ChainInv
  <2>13. AtWork' /\ mode' # "scan" /\ base' = NoScan => covered'[Target'] = 0
    BY <2>4, <2>5 DEF ChainInv
  <2> QED
    BY <2>4, <2>5, <2>6, <2>10, <2>11, <2>12, <2>13, <2>8, <2>9 DEF ChainInv
<1>12. CASE OtherSaves
  <2>1. PICK o \in Onions, scan \in Scans : o = other.onion /\ scan = other.scan
    BY <1>1, <1>12 DEF OtherSaves
  <2>2. Stored(o, scan) /\ scan.id \in excused /\ scan.id \in 1 .. ended /\ UNCHANGED seconds
    BY <1>1, <1>12, <2>1 DEF OtherSaves, ChainInv
  <2>3. other' = NoScan /\ UNCHANGED <<pc, mode, index, base, current, covered, excused>>
    BY <1>12 DEF OtherSaves
  <2>4. Target' = Target /\ AtWork' = AtWork /\ ended' = ended
    BY <1>5, <2>2, <2>3 DEF Target, AtWork
  <2>5. scan.id <= ended
    BY <1>1, <2>2
  <2>6. /\ \A p \in Onions \ {o} : Latest(p)' = Latest(p)
        /\ Latest(o)' \in Scans
        /\ Latest(o)' = scan \/ (Latest(o) # NoScan /\ Latest(o)' = Latest(o))
        /\ seconds[scan.id] <= seconds[Latest(o)'.id]
        /\ Latest(o) # NoScan => seconds[Latest(o).id] <= seconds[Latest(o)'.id]
    BY <2>2, <2>5, StoredFacts
  <2>7. Latest(o)' # NoScan /\ Latest(o)'.id \in 1 .. ended
    BY <1>3, <2>2, <2>6, ScanFacts
  \* No target has a latest of an earlier second than it had.
  <2>8. ASSUME NEW p \in Onions, Latest(p) # NoScan
        PROVE  Latest(p)' # NoScan /\ \A i \in 1 .. ended :
                 seconds[i] <= seconds[Latest(p).id] => seconds[i] <= seconds[Latest(p)'.id]
    <3>1. CASE p = o
      <4>1. Latest(o).id \in 1 .. ended /\ seconds[Latest(o).id] <= seconds[Latest(o)'.id]
        BY <1>3, <2>6, <2>8, <3>1
      <4> QED
        BY <1>1, <2>7, <3>1, <4>1
    <3>2. CASE p # o
      BY <2>6, <2>8, <3>2
    <3> QED
      BY <3>1, <3>2
  <2>9. ASSUME NEW p \in Onions, Latest(p)' # NoScan
        PROVE  \/ Latest(p)'.id \in excused
               \/ Latest(p)'.id = covered[p] /\ ~(pc = "saved" /\ p = Target)
               \/ Latest(p)'.id = current.id /\ pc = "saved" /\ p = Target
    <3>1. Latest(p)' = Latest(p) \/ Latest(p)' = scan
      BY <2>6
    <3>2. CASE Latest(p)' = Latest(p)
      BY <2>9, <3>2 DEF ChainInv
    <3>3. CASE Latest(p)' = scan
      BY <2>2, <3>3
    <3> QED
      BY <3>1, <3>2, <3>3
  <2>10. ASSUME NEW p \in Onions
         PROVE  /\ covered[p] <= ended
                /\ covered[p] # 0 =>
                     Latest(p)' # NoScan /\ seconds[covered[p]] <= seconds[Latest(p)'.id]
    BY <1>1, <2>8 DEF ChainInv
  <2>11. pc = "saved" =>
           Latest(Target)' # NoScan /\ seconds[current.id] <= seconds[Latest(Target)'.id]
    <3>1. ASSUME pc = "saved", NEW p \in Onions, p = Target
          PROVE  Latest(p)' # NoScan /\ seconds[current.id] <= seconds[Latest(p)'.id]
      <4>1. current.id \in 1 .. ended
        BY <1>1, <3>1 DEF PlaceInv
      <4>2. Latest(p) # NoScan /\ seconds[current.id] <= seconds[Latest(p).id]
        BY <3>1 DEF ChainInv
      <4> QED
        BY <2>8, <4>1, <4>2
    <3>2. pc = "saved" => Target \in Onions
      BY <1>2 DEF AtWork
    <3> QED
      BY <2>4, <3>1, <3>2 DEF Latest
  <2>12. \A i : MayStartFrom(i) => MayStartFrom(i)'
    BY <2>2, <2>3, <2>4 DEF MayStartFrom, SameSecond
  <2>13. /\ \A p \in Onions : Latest(p)' # NoScan =>
              \/ Latest(p)'.id \in excused'
              \/ Latest(p)'.id = covered'[p] /\ ~(pc' = "saved" /\ p = Target')
              \/ Latest(p)'.id = current'.id /\ pc' = "saved" /\ p = Target'
         /\ \A p \in Onions :
              /\ covered'[p] <= ended'
              /\ covered'[p] # 0 =>
                   Latest(p)' # NoScan /\ seconds'[covered'[p]] <= seconds'[Latest(p)'.id]
    BY <2>2, <2>3, <2>4, <2>9, <2>10
  <2>14. /\ current' # NoScan =>
              /\ current'.id <= ended'
              /\ \A p \in Onions : covered'[p] < current'.id
              /\ mode' = "scan" => current'.id \in excused'
         /\ pc' = "saved" =>
              Latest(Target)' # NoScan /\ seconds'[current'.id] <= seconds'[Latest(Target)'.id]
    BY <2>2, <2>3, <2>4, <2>11 DEF ChainInv
  <2>15. /\ base' \in Scans =>
              /\ AtWork'
              /\ base'.id <= ended' /\ MayStartFrom(base.id)'
              /\ current' # NoScan => base'.id < current'.id
         /\ AtWork' /\ mode' # "scan" /\ base' = NoScan => covered'[Target'] = 0
    BY <2>3, <2>4, <2>12 DEF ChainInv
  <2> QED
    BY <2>3, <2>13, <2>14, <2>15 DEF ChainInv
<1>13. CASE Invoke
  <2>1. current = NoScan /\ ~AtWork /\ base \notin Scans
    BY <1>13 DEF Invoke, Running, PlaceInv, AtWork, ChainInv
  <2>2. /\ pc' \in {"target", "exited"} /\ pc \notin {"saved"}
        /\ UNCHANGED <<rows, seconds, other, index, base, current, covered, excused>>
    BY <1>13, <2>1 DEF Invoke, AtWork
  <2> QED
    BY <1>4, <1>5, <2>1, <2>2 DEF ChainInv, AtWork
\* What is given up, or is not begun, leaves nothing but rows.
<1>14. ASSUME current' = NoScan, base' = NoScan, pc' \in {"target", "select", "exited", "killed"},
              UNCHANGED <<rows, seconds, other, covered>>, excused \subseteq excused',
              pc = "saved" => current.id \in excused'
       PROVE  ChainInv'
  <2>1. \A o \in Onions : Latest(o)' = Latest(o)
    BY <1>4, <1>14
  <2>2. ended' = ended /\ ~AtWork' /\ base' \notin Scans
    BY <1>5, <1>14, ScanFacts DEF AtWork
  <2>3. \A o \in Onions : Latest(o)' # NoScan =>
          Latest(o)'.id \in excused' \/ Latest(o)'.id = covered'[o]
    BY <1>14, <2>1 DEF ChainInv
  <2> QED
    BY <1>14, <2>1, <2>2, <2>3 DEF ChainInv
<1>15. CASE Killed
  <2>1. current # NoScan => current.id \in excused'
    BY <1>15 DEF Killed
  <2>2. pc = "saved" => current.id \in excused'
    BY <2>1 DEF PlaceInv
  <2> QED
    BY <1>14, <1>15, <2>2 DEF Killed, NoBatch
<1>16. CASE EndBatch
  BY <1>14, <1>16 DEF EndBatch, NoBatch
<1>17. CASE ScanFails
  BY <1>14, <1>17 DEF ScanFails, NoBatch
<1>18. CASE BeginTarget
  <2>1. /\ pc = "target" /\ pc' = "scanning" /\ current = NoScan
        /\ UNCHANGED <<rows, seconds, other, index, current, covered, excused, mode>>
    BY <1>18 DEF BeginTarget, PlaceInv
  <2>2. PICK o \in Onions : o = Target
    BY <1>18, PlaceFacts DEF BeginTarget
  <2>3. /\ Target' = o /\ ended' = ended /\ seconds' = seconds
        /\ \A p \in Onions : Latest(p)' = Latest(p)
    BY <1>4, <1>5, <2>1, <2>2 DEF Target
  <2>4. mode # "scan" => base' \in {Latest(o), Unread}
    BY <1>18, <2>2 DEF BeginTarget
  <2>5. base' \in Scans => base' = Latest(o) /\ Latest(o) # NoScan
    BY <1>18, <2>4, ScanFacts DEF BeginTarget
  <2>6. ASSUME base' \in Scans PROVE base'.id <= ended /\ MayStartFrom(base'.id)
    <3>1. base' = Latest(o) /\ Latest(o) # NoScan /\ base'.id \in 1 .. ended
      BY <1>3, <2>5, <2>6
    <3>2. base'.id = covered[o] \/ base'.id \in excused
      BY <2>1, <3>1 DEF ChainInv
    <3>3. covered[o] < base'.id \/ SameSecond(covered[o], base'.id)
      <4>1. CASE covered[o] = 0
        BY <3>1, <4>1
      <4>2. CASE covered[o] # 0
        <5>1. seconds[covered[o]] <= seconds[base'.id] /\ covered[o] \in 1 .. ended
          BY <1>1, <3>1, <4>2 DEF ChainInv
        <5>2. base'.id <= covered[o] => seconds[base'.id] <= seconds[covered[o]]
          BY <3>1, <5>1 DEF StoreInv
        <5>3. seconds[base'.id] \in Nat /\ seconds[covered[o]] \in Nat
          BY <1>1, <3>1, <5>1
        <5> QED
          BY <1>1, <3>1, <5>1, <5>2, <5>3 DEF SameSecond
      <4> QED
        BY <4>1, <4>2
    <3> QED
      BY <1>1, <2>2, <3>1, <3>2, <3>3 DEF MayStartFrom
  <2>7. base' \in Scans => base'.id <= ended' /\ MayStartFrom(base.id)'
    BY <2>1, <2>2, <2>3, <2>6 DEF MayStartFrom, SameSecond
  <2>8. mode' # "scan" /\ base' = NoScan => covered'[Target'] = 0
    <3>1. ASSUME mode # "scan", base' = NoScan PROVE covered[o] = 0
      <4>1. Latest(o) = NoScan
        BY <2>4, <3>1, NoScanAssumption
      <4> QED
        BY <4>1 DEF ChainInv
    <3> QED
      BY <2>1, <2>3, <3>1
  <2>9. /\ other' # NoScan => other'.scan.id \in excused' /\ other'.scan.id <= ended'
        /\ \A p \in Onions : Latest(p)' # NoScan =>
             Latest(p)'.id \in excused' \/ Latest(p)'.id = covered'[p]
        /\ \A p \in Onions :
             /\ covered'[p] <= ended'
             /\ covered'[p] # 0 =>
                  Latest(p)' # NoScan /\ seconds'[covered'[p]] <= seconds'[Latest(p)'.id]
    BY <2>1, <2>3 DEF ChainInv
  <2> QED
    BY <2>1, <2>7, <2>8, <2>9 DEF ChainInv, AtWork
<1>19. CASE ScanEnds
  <2>1. current' # NoScan /\ current'.id = ended + 1
    BY <1>19, NewScanFacts, ScanFacts DEF ScanEnds
  <2>2. PICK s \in NextSeconds : seconds' = Append(seconds, s)
    BY <1>19 DEF ScanEnds
  <2>3. /\ pc = "scanning" /\ pc' = "saving" /\ ended' = ended + 1
        /\ UNCHANGED <<rows, other, index, base, covered, mode>>
        /\ excused \subseteq excused'
        /\ mode = "scan" => ended + 1 \in excused'
    BY <1>6, <1>19, <2>2 DEF ScanEnds
  <2>4. Target' = Target /\ AtWork /\ AtWork'
    BY <2>3 DEF Target, AtWork
  <2>5. other' # NoScan => other'.scan.id \in excused' /\ other'.scan.id <= ended'
    BY <1>1, <2>3 DEF ChainInv
  <2>6. \A p \in Onions : Latest(p)' # NoScan =>
          Latest(p)'.id \in excused' \/ Latest(p)'.id = covered'[p]
    BY <1>10, <2>2, <2>3
  <2>7. \A p \in Onions :
           /\ covered'[p] <= ended'
           /\ covered'[p] # 0 =>
                Latest(p)' # NoScan /\ seconds'[covered'[p]] <= seconds'[Latest(p)'.id]
    BY <1>10, <2>2, <2>3
  <2>8. /\ current'.id <= ended'
        /\ \A p \in Onions : covered'[p] < current'.id
        /\ mode' = "scan" => current'.id \in excused'
    BY <1>1, <2>1, <2>3
  <2>9. base' \in Scans => base'.id <= ended' /\ MayStartFrom(base.id)' /\ base'.id < current'.id
    BY <1>1, <1>10, <2>1, <2>2, <2>3
  <2>10. mode' # "scan" /\ base' = NoScan => covered'[Target'] = 0
    BY <2>3, <2>4 DEF ChainInv
  <2> QED
    BY <2>3, <2>4, <2>5, <2>8, <2>9, <2>10, <2>6, <2>7 DEF ChainInv
<1>20. CASE ScanSaves
  <2>1. PICK o \in Onions, scan \in Scans : o = Target /\ scan = current
    BY <1>1, <1>2, <1>20 DEF ScanSaves, AtWork, PlaceInv
  <2>2. /\ pc = "saving" /\ pc' = "saved" /\ UNCHANGED seconds
        /\ UNCHANGED <<other, mode, index, base, current, covered, excused>>
    BY <1>20 DEF ScanSaves
  <2>3. Target' = o /\ AtWork /\ AtWork' /\ ended' = ended
    BY <1>5, <2>1, <2>2 DEF Target, AtWork
  <2>4. Stored(o, scan) /\ scan # NoScan /\ scan.id \in 1 .. ended /\ scan.id <= ended
    BY <1>1, <1>20, <2>1, ScanFacts DEF ScanSaves, ChainInv
  <2>5. /\ \A p \in Onions \ {o} : Latest(p)' = Latest(p)
        /\ Latest(o)' \in Scans
        /\ \/ Latest(o)' = scan
           \/ Latest(o) # NoScan /\ Latest(o)' = Latest(o) /\ scan.id < Latest(o).id
        /\ seconds[scan.id] <= seconds[Latest(o)'.id]
        /\ Latest(o) # NoScan => seconds[Latest(o).id] <= seconds[Latest(o)'.id]
    BY <2>2, <2>4, StoredFacts
  <2>6. Latest(o)' # NoScan /\ Latest(o)'.id \in 1 .. ended
    BY <1>3, <2>4, <2>5, ScanFacts
  <2>7. \A p \in Onions : covered[p] \in Nat /\ covered[p] < scan.id
    BY <1>1, <2>1, <2>4 DEF ChainInv
  <2>8. ASSUME NEW p \in Onions, Latest(p)' # NoScan
        PROVE  \/ Latest(p)'.id \in excused
               \/ Latest(p)'.id = covered[p] /\ p # o
               \/ Latest(p)'.id = scan.id /\ p = o
    <3>1. CASE p # o
      BY <2>2, <2>5, <2>8, <3>1 DEF ChainInv
    <3>2. CASE p = o /\ Latest(o)' = scan
      BY <3>2
    <3>3. CASE p = o /\ Latest(o)' # scan
      <4>1. Latest(o) # NoScan /\ Latest(o)' = Latest(o) /\ scan.id < Latest(o).id
        BY <2>5, <3>3
      <4>2. Latest(o).id # covered[o]
        BY <1>3, <2>4, <2>7, <4>1
      <4> QED
        BY <2>2, <3>3, <4>1, <4>2 DEF ChainInv
    <3> QED
      BY <3>1, <3>2, <3>3
  <2>9. ASSUME NEW p \in Onions, covered[p] # 0
        PROVE  Latest(p)' # NoScan /\ seconds[covered[p]] <= seconds[Latest(p)'.id]
    <3>1. Latest(p) # NoScan /\ seconds[covered[p]] <= seconds[Latest(p).id]
      BY <2>9 DEF ChainInv
    <3>2. CASE p # o
      BY <2>5, <3>1, <3>2
    <3>3. CASE p = o
      <4>1. /\ covered[o] \in 1 .. ended /\ Latest(o).id \in 1 .. ended
            /\ seconds[Latest(o).id] <= seconds[Latest(o)'.id]
        BY <1>1, <1>3, <2>5, <2>9, <3>1, <3>3
      <4> QED
        BY <1>1, <2>6, <3>1, <3>3, <4>1
    <3> QED
      BY <3>2, <3>3
  <2>10. \A i : MayStartFrom(i) => MayStartFrom(i)'
    BY <2>1, <2>2, <2>3 DEF MayStartFrom, SameSecond
  <2>11. Latest(Target)' = Latest(o)'
    BY <2>3 DEF Latest
  <2>12. /\ \A p \in Onions : Latest(p)' # NoScan =>
              \/ Latest(p)'.id \in excused'
              \/ Latest(p)'.id = covered'[p] /\ ~(pc' = "saved" /\ p = Target')
              \/ Latest(p)'.id = current'.id /\ pc' = "saved" /\ p = Target'
         /\ \A p \in Onions :
              /\ covered'[p] <= ended'
              /\ covered'[p] # 0 =>
                   Latest(p)' # NoScan /\ seconds'[covered'[p]] <= seconds'[Latest(p)'.id]
    BY <1>1, <2>1, <2>2, <2>3, <2>8, <2>9
  <2>13. /\ current'.id <= ended'
         /\ \A p \in Onions : covered'[p] < current'.id
         /\ mode' = "scan" => current'.id \in excused'
         /\ Latest(Target)' # NoScan /\ seconds'[current'.id] <= seconds'[Latest(Target)'.id]
    BY <2>1, <2>2, <2>3, <2>4, <2>5, <2>6, <2>7, <2>11 DEF ChainInv
  <2>14. /\ other' # NoScan => other'.scan.id \in excused' /\ other'.scan.id <= ended'
         /\ base' \in Scans =>
              /\ base'.id <= ended' /\ MayStartFrom(base.id)'
              /\ current' # NoScan => base'.id < current'.id
         /\ mode' # "scan" /\ base' = NoScan => covered'[Target'] = 0
    BY <2>1, <2>2, <2>3, <2>10 DEF ChainInv
  <2> QED
    BY <2>3, <2>12, <2>13, <2>14 DEF ChainInv
<1>21. CASE Report
  <2>1. /\ pc = "saved" /\ pc' = "target" /\ current' = NoScan /\ base' = NoScan
        /\ UNCHANGED <<rows, seconds, other, excused, mode>>
        /\ covered' = IF mode = "scan" THEN covered ELSE [covered EXCEPT ![Target] = current.id]
    BY <1>21 DEF Report
  <2>2. PICK o \in Onions : o = Target
    BY <1>2, <2>1 DEF AtWork
  <2>3. current # NoScan /\ current.id \in 1 .. ended
    BY <1>1, <2>1 DEF PlaceInv
  <2>4. /\ ended' = ended /\ ~AtWork' /\ base' \notin Scans
        /\ \A p \in Onions : Latest(p)' = Latest(p)
    BY <1>4, <1>5, <2>1, ScanFacts DEF AtWork
  <2>5. ASSUME NEW p \in Onions
        PROVE  /\ covered'[p] <= ended
               /\ covered'[p] # 0 =>
                    Latest(p) # NoScan /\ seconds[covered'[p]] <= seconds[Latest(p).id]
               /\ Latest(p) # NoScan =>
                    Latest(p).id \in excused \/ Latest(p).id = covered'[p]
    <3>1. CASE p # o
      BY <2>1, <2>2, <3>1 DEF ChainInv, TypeOK
    <3>2. CASE p = o
      <4>1. covered'[o] = IF mode = "scan" THEN covered[o] ELSE current.id
        BY <2>1, <2>2 DEF TypeOK
      <4>2. /\ Latest(o) # NoScan /\ seconds[current.id] <= seconds[Latest(o).id]
            /\ current.id <= ended
            /\ mode = "scan" => current.id \in excused
            /\ Latest(o).id \in excused \/ Latest(o).id = current.id
        BY <2>1, <2>2, <2>3 DEF ChainInv
      <4>3. /\ covered[o] <= ended
            /\ covered[o] # 0 => seconds[covered[o]] <= seconds[Latest(o).id]
        BY DEF ChainInv
      <4> QED
        BY <3>2, <4>1, <4>2, <4>3
    <3> QED
      BY <3>1, <3>2
  <2> QED
    BY <2>1, <2>4, <2>5 DEF ChainInv
<1> QED
  BY <1>7, <1>8, <1>9, <1>11, <1>12, <1>13, <1>15, <1>16, <1>17, <1>18, <1>19, <1>20, <1>21
     DEF Next, Environment, Batch

\* The variables of a round go on to sum up its reports.
LEMMA RoundKeeps == TypeOK /\ PlaceInv /\ RoundInv /\ [Next]_vars => RoundInv'
<1> SUFFICES ASSUME TypeOK, PlaceInv, RoundInv, [Next]_vars PROVE RoundInv'
  OBVIOUS
<1> USE DEF storeVars, batchVars, history
<1>1. /\ \A i : ShowsChanges(i) => reports[i] # NoScan
      /\ \A i : ScoresAbove(i) => reports[i] # NoScan
  BY DEF ShowsChanges, ScoresAbove
<1>2. ASSUME UNCHANGED reports
      PROVE  \A i : ShowsChanges(i)' = ShowsChanges(i) /\ ScoresAbove(i)' = ScoresAbove(i)
  BY <1>2 DEF ShowsChanges, ScoresAbove
<1>3. CASE \/ UNCHANGED vars \/ OtherScanEnds \/ OtherSaves \/ Tick \/ Signal
           \/ BeginTarget \/ ScanEnds \/ ScanSaves
  <2>1. UNCHANGED <<mode, index, hadAnyChanges, maxScore, reports>> /\ (Running' => Running)
    BY <1>3 DEF vars, OtherScanEnds, OtherSaves, Tick, Signal, BeginTarget, ScanEnds, ScanSaves,
                Running
  <2> QED
    BY <1>2, <2>1 DEF RoundInv
<1>4. CASE Invoke
  <2>1. /\ index' = 1 /\ hadAnyChanges' = FALSE /\ maxScore' = 0
        /\ reports' = [i \in DOMAIN Targets |-> NoScan]
    BY <1>4 DEF Invoke, Running, PlaceInv, NoReports
  <2>2. \A i \in DOMAIN Targets : ~ShowsChanges(i)' /\ ~ScoresAbove(i)'
    BY <2>1 DEF ShowsChanges, ScoresAbove
  <2> QED
    BY <2>1, <2>2 DEF RoundInv
<1>5. CASE Killed \/ EndBatch \/ SelectDone \/ SelectTick
  <2>1. ~(Running' /\ mode' # "interval")
    BY <1>5 DEF Killed, EndBatch, SelectDone, SelectTick, Running, PlaceInv
  <2> QED
    BY <2>1 DEF RoundInv
<1>6. CASE ScanFails
  <2>1. Running' => /\ index' = index + 1 /\ Running
                    /\ UNCHANGED <<mode, hadAnyChanges, maxScore, reports>>
    BY <1>6 DEF ScanFails, Running
  <2>2. \A i \in DOMAIN Targets : i >= index + 1 => i >= index
    BY PlaceFacts, TargetFacts
  <2> QED
    BY <1>2, <2>1, <2>2 DEF RoundInv
<1>7. CASE Report
  <2>1. PICK at \in DOMAIN Targets : at = index
    BY <1>7 DEF Report, PlaceInv, AtWork
  <2>2. /\ mode' = mode /\ Running /\ index' = at + 1 /\ current \in Scans
        /\ reports' = [reports EXCEPT ![at] = [base |-> base, new |-> current]]
        /\ maxScore' = Maximum(maxScore, current.riskScore)
        /\ hadAnyChanges' = (hadAnyChanges \/ Changed)
    BY <1>7, <2>1 DEF Report, Running, PlaceInv, TypeOK
  <2>3. [base |-> base, new |-> current] # NoScan
    BY <2>2, ScanFacts DEF Reported, TypeOK
  <2>4. reports'[at] = [base |-> base, new |-> current]
    BY <2>1, <2>2 DEF TypeOK
  <2>5. \A i \in DOMAIN Targets \ {at} : reports'[i] = reports[i]
    BY <2>2 DEF TypeOK
  <2>6. ShowsChanges(at)' <=> HasChanges(DiffOf(base, current))
    BY <2>3, <2>4 DEF ShowsChanges
  <2>7. ScoresAbove(at)' <=> current.riskScore > FailAboveScore
    BY <2>3, <2>4 DEF ScoresAbove
  <2>8. \A i \in DOMAIN Targets \ {at} :
          (ShowsChanges(i)' <=> ShowsChanges(i)) /\ (ScoresAbove(i)' <=> ScoresAbove(i))
    BY <2>5 DEF ShowsChanges, ScoresAbove
  <2>9. ASSUME mode # "interval" PROVE RoundInv'
    <3>1. /\ \A i \in DOMAIN Targets : i >= at => reports[i] = NoScan
          /\ mode = "round" => (hadAnyChanges <=> \E i \in DOMAIN Targets : ShowsChanges(i))
          /\ maxScore > FailAboveScore <=>
               0 > FailAboveScore \/ \E i \in DOMAIN Targets : ScoresAbove(i)
      BY <2>1, <2>2, <2>9 DEF RoundInv
    <3>2. ~ShowsChanges(at) /\ ~ScoresAbove(at)
      BY <1>1, <2>1, <3>1, TargetFacts
    <3>3. \A i \in DOMAIN Targets : i >= at + 1 => reports'[i] = NoScan
      <4>1. \A i \in DOMAIN Targets : i >= at + 1 => i >= at /\ i # at
        BY <2>1, TargetFacts
      <4> QED
        BY <2>5, <3>1, <4>1
    <3>4. mode = "round" => (hadAnyChanges' <=> \E i \in DOMAIN Targets : ShowsChanges(i)')
      <4>1. mode = "round" =>
              (hadAnyChanges' <=> hadAnyChanges \/ HasChanges(DiffOf(base, current)))
        BY <2>2 DEF Changed
      <4>2. (\E i \in DOMAIN Targets : ShowsChanges(i)') <=>
              (\E i \in DOMAIN Targets : ShowsChanges(i)) \/ HasChanges(DiffOf(base, current))
        BY <2>1, <2>6, <2>8, <3>2
      <4> QED
        BY <3>1, <4>1, <4>2
    <3>5. maxScore' > FailAboveScore <=>
            0 > FailAboveScore \/ \E i \in DOMAIN Targets : ScoresAbove(i)'
      <4>1. maxScore' > FailAboveScore <=>
              maxScore > FailAboveScore \/ current.riskScore > FailAboveScore
        <5>1. maxScore \in Int /\ current.riskScore \in Int /\ FailAboveScore \in Int
          <6>1. current \in Scans
            BY <2>2
          <6>2. current.riskScore \in 0 .. 100
            BY <6>1, ScanFacts
          <6>3. maxScore \in 0 .. 100
            BY DEF TypeOK
          <6>4. FailAboveScore \in Int
            BY MonitorAssumption
          <6> QED
            BY <6>2, <6>3, <6>4
        <5>2. maxScore' = IF maxScore > current.riskScore THEN maxScore ELSE current.riskScore
          BY <2>2 DEF Maximum
        <5> QED
          BY <5>1, <5>2
      <4>2. (\E i \in DOMAIN Targets : ScoresAbove(i)') <=>
              (\E i \in DOMAIN Targets : ScoresAbove(i)) \/ current.riskScore > FailAboveScore
        BY <2>1, <2>7, <2>8, <3>2
      <4> QED
        BY <3>1, <4>1, <4>2
    <3> QED
      BY <2>2, <3>3, <3>4, <3>5 DEF RoundInv
  <2>10. mode = "interval" => RoundInv'
    BY <2>2 DEF RoundInv
  <2> QED
    BY <2>9, <2>10
<1> QED
  BY <1>3, <1>4, <1>5, <1>6, <1>7 DEF Next, Environment, Batch

\* The command exits with the code that its reports call for.
LEMMA ExitKeeps == IInv /\ [Next]_vars => ExitCodeTells'
<1> SUFFICES ASSUME IInv, [Next]_vars PROVE ExitCodeTells'
  OBVIOUS
<1> USE DEF storeVars, batchVars, history
<1>1. TypeOK /\ PlaceInv /\ RoundInv /\ ExitCodeTells
  BY DEF IInv
<1>2. CASE UNCHANGED vars \/ OtherScanEnds \/ OtherSaves
  <2>1. UNCHANGED <<pc, mode, cancelled, code, reports>>
    BY <1>2 DEF vars, OtherScanEnds, OtherSaves
  <2> QED
    BY <1>1, <2>1 DEF ExitCodeTells
<1>3. CASE \/ Invoke \/ Signal \/ Killed \/ Tick \/ SelectDone \/ SelectTick
           \/ BeginTarget \/ ScanEnds \/ ScanSaves \/ Report
  <2>1. pc' # "exited" \/ mode' = "interval" \/ code' = 1
    BY <1>1, <1>3 DEF Invoke, Signal, Killed, Tick, SelectDone, SelectTick, BeginTarget, ScanEnds,
                      ScanSaves, Report, Running, PlaceInv
  <2> QED
    BY <2>1 DEF ExitCodeTells
<1>4. ASSUME pc' = "exited", mode # "interval", EndBatch \/ ScanFails
      PROVE  /\ Running /\ UNCHANGED <<mode, cancelled, reports>>
             /\ index <= Len(Targets) =>
                  code' = Cancelled /\ mode = "scan" /\ cancelled
                  /\ reports[Len(Targets)] = NoScan
             /\ index > Len(Targets) => code' = ExitCode
  <2>1. /\ Running /\ UNCHANGED <<mode, cancelled, reports>>
        /\ index <= Len(Targets) => code' = Cancelled /\ cancelled
        /\ index > Len(Targets) => code' = ExitCode
    <3>1. /\ index \in Int /\ Len(Targets) \in Int
          /\ ScanFails => index <= Len(Targets)
      BY <1>1, PlaceFacts, TargetFacts DEF ScanFails, PlaceInv, AtWork
    <3> QED
      BY <1>4, <3>1 DEF EndBatch, ScanFails, Running
  <2>2. cancelled => mode = "scan"
    BY <1>1, <1>4 DEF PlaceInv, TypeOK
  <2>3. index <= Len(Targets) => reports[Len(Targets)] = NoScan
    BY <1>1, <1>4, <2>1, TargetFacts, PlaceFacts DEF RoundInv
  <2> QED
    BY <2>1, <2>2, <2>3
<1>5. CASE EndBatch \/ ScanFails
  <2>1. SUFFICES ASSUME pc' = "exited", mode' # "interval", code' # 1
        PROVE  /\ code' = Cancelled =>
                    mode' = "scan" /\ cancelled' /\ reports'[Len(Targets)] = NoScan
               /\ code' # Cancelled =>
                    (code' = 2 <=>
                       \/ HasFailAbove /\ 0 > FailAboveScore
                       \/ \E i \in DOMAIN Targets : reports'[i] # NoScan /\
                            LET r == reports'[i] IN
                            \/ mode' = "round" /\ FailOnChanges /\ HasChanges(DiffOf(r.base, r.new))
                            \/ HasFailAbove /\ r.new.riskScore > FailAboveScore)
    BY DEF ExitCodeTells
  <2>2. mode' = mode
    BY <1>5 DEF EndBatch, ScanFails
  <2>3. /\ Running /\ UNCHANGED <<mode, cancelled, reports>>
        /\ index <= Len(Targets) =>
             code' = Cancelled /\ mode = "scan" /\ cancelled /\ reports[Len(Targets)] = NoScan
        /\ index > Len(Targets) => code' = ExitCode
    BY <1>4, <1>5, <2>1, <2>2
  <2>4. CASE index <= Len(Targets)
    BY <2>3, <2>4
  <2>5. CASE index > Len(Targets)
    <3>1. /\ mode = "round" => (hadAnyChanges <=> \E i \in DOMAIN Targets : ShowsChanges(i))
          /\ maxScore > FailAboveScore <=>
               0 > FailAboveScore \/ \E i \in DOMAIN Targets : ScoresAbove(i)
      BY <1>1, <2>1, <2>2, <2>3 DEF RoundInv
    <3>2. code' = ExitCode /\ code' \in {0, 2}
      BY <2>3, <2>5 DEF ExitCode
    <3>3. code' = 2 <=> \/ mode = "round" /\ FailOnChanges /\ hadAnyChanges
                        \/ HasFailAbove /\ maxScore > FailAboveScore
      BY <3>2 DEF ExitCode
    <3>4. code' = 2 <=>
            \/ mode = "round" /\ FailOnChanges /\ \E i \in DOMAIN Targets : ShowsChanges(i)
            \/ HasFailAbove /\ 0 > FailAboveScore
            \/ HasFailAbove /\ \E i \in DOMAIN Targets : ScoresAbove(i)
      BY <3>1, <3>3
    <3>5. code' # Cancelled
      BY <3>2 DEF Cancelled
    <3> QED
      BY <2>3, <3>4, <3>5 DEF ShowsChanges, ScoresAbove
  <2> QED
    BY <2>4, <2>5, PlaceFacts, TargetFacts, <1>1
<1>6. CASE ~(EndBatch \/ ScanFails)
  BY <1>2, <1>3, <1>6 DEF Next, Environment, Batch
<1> QED
  BY <1>5, <1>6

\* Every step keeps the invariant.
LEMMA StepIInv == IInv /\ [Next]_vars => IInv'
<1> QED
  BY TypeKeeps, PlaceKeeps, StoreKeeps, ChainKeeps, RoundKeeps, ExitKeeps DEF IInv

\* IInv is an invariant; fairness plays no part in it.
LEMMA Invariance == Spec => []IInv
<1> QED
  BY InitIInv, StepIInv, PTL DEF Spec

-----------------------------------------------------------------------------
(* Theorems *)

\* The variables of the commands keep their types.
THEOREM CommandsTyped == Spec => []TypeOK
<1> QED
  BY Invariance, PTL DEF IInv

\* Each report of a target starts from the scan the last one ended with, over
\* all invocations, kills and failures, unless a scan that monitor owed no
\* report came after it or took its row in the store; and it has no baseline
\* only if it is the first, or the baseline could not be read
\* (executeMonitorBatch, Save, Latest).
THEOREM ReportsOfATargetChain == Spec => []ReportsChain
<1>1. ASSUME IInv PROVE ReportsChain
  <2>1. SUFFICES ASSUME pc = "saved", mode # "scan", base # Unread
        PROVE  IF base = NoScan THEN covered[Target] = 0
               ELSE /\ base.id < current.id
                    /\ \/ base.id = covered[Target]
                       \/ /\ base.id \in excused
                          /\ covered[Target] < base.id \/ SameSecond(covered[Target], base.id)
    BY DEF ReportsChain
  <2>2. ChainInv /\ AtWork /\ current # NoScan /\ base \in Scans \cup {NoScan, Unread}
    BY <1>1, <2>1 DEF IInv, PlaceInv, TypeOK, AtWork
  <2>3. CASE base = NoScan
    BY <2>1, <2>2, <2>3 DEF ChainInv
  <2>4. CASE base \in Scans
    BY <2>2, <2>4, ScanFacts DEF ChainInv, MayStartFrom
  <2> QED
    BY <2>1, <2>2, <2>3, <2>4
<1> QED
  BY <1>1, Invariance, PTL

\* A round that comes to its end has tried all its targets, whichever of them
\* failed (executeMonitorBatch, runScanWithClient).
THEOREM AFailureHarmsNoOther == Spec => []FailuresDoNotSpread
<1>1. ASSUME IInv PROVE FailuresDoNotSpread
  <2>1. SUFFICES ASSUME pc = "target", index > Len(Targets) PROVE tried = ToSet(Targets)
    BY DEF FailuresDoNotSpread
  <2>2. tried = {Targets[i] : i \in 1 .. index - 1}
    BY <1>1, <2>1 DEF IInv, PlaceInv, AtWork
  <2>3. 1 .. index - 1 = DOMAIN Targets
    BY <1>1, <2>1, PlaceFacts, TargetFacts DEF IInv
  <2> QED
    BY <2>2, <2>3 DEF ToSet
<1> QED
  BY <1>1, Invariance, PTL

\* The exit code says what the reports of the round say (cmdScan,
\* runScanWithClient, runMonitorWithClient).
THEOREM ExitCodesTell == Spec => []ExitCodeTells
<1> QED
  BY Invariance, PTL DEF IInv
=============================================================================
