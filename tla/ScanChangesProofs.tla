--------------------------- MODULE ScanChangesProofs ---------------------------
(***************************************************************************)
(* Proofs about ScanChanges, for any analyzers, findings and knowledge of  *)
(* other targets, and scans of any length.                                 *)
(***************************************************************************)
EXTENDS ScanChanges, FiniteSetTheorems, SequenceTheorems, TLAPS

-----------------------------------------------------------------------------
(* Induction and recursion on natural numbers *)

\* A nonempty set of natural numbers has a least element: its finite beginnings
\* are well-founded under inclusion.
LEMMA Least ==
  ASSUME NEW S \in SUBSET Nat, S # {}
  PROVE  \E i \in S : \A j \in S : i <= j
<1> DEFINE upTo(m) == S \cap (0 .. m)
           T == {upTo(m) : m \in S}
<1>1. T \subseteq FiniteSubsetsOf(Nat) /\ T # {}
  <2>1. ASSUME NEW m \in S PROVE upTo(m) \in FiniteSubsetsOf(Nat)
    <3>1. IsFiniteSet(0 .. m) /\ upTo(m) \in SUBSET (0 .. m)
      BY FS_Interval
    <3>2. IsFiniteSet(upTo(m))
      BY <3>1, FS_Subset
    <3> QED
      BY <3>2 DEF FiniteSubsetsOf
  <2> QED
    BY <2>1
<1>2. IsWellFoundedOn(StrictSubsetOrdering(Nat), FiniteSubsetsOf(Nat))
  BY FS_StrictSubsetOrderingWellFounded
<1>3. PICK x \in T : \A y \in T : <<y, x>> \notin StrictSubsetOrdering(Nat)
  <2> HIDE DEF T
  <2> QED
    BY <1>1, <1>2, WFMin
<1>4. PICK i \in S : x = upTo(i)
  OBVIOUS
<1>5. ASSUME NEW j \in S, j < i PROVE FALSE
  <2>1. upTo(j) \subseteq upTo(i) /\ i \in upTo(i) /\ i \notin upTo(j)
    BY <1>5
  <2>2. <<upTo(j), upTo(i)>> \in StrictSubsetOrdering(Nat)
    BY <2>1 DEF StrictSubsetOrdering
  <2> QED
    BY <1>3, <1>4, <2>2
<1> QED
  BY <1>5

\* Induction, on a set in place of a predicate, up to N.
LEMMA UpTo ==
  ASSUME NEW N \in Nat, NEW S, 0 \in S,
         \A n \in 0 .. N - 1 : n \in S => n + 1 \in S
  PROVE  \A n \in 0 .. N : n \in S
<1> SUFFICES ASSUME NEW k \in 0 .. N, k \notin S PROVE FALSE
  OBVIOUS
<1> DEFINE Bad == {n \in 0 .. N : n \notin S}
<1>1. Bad \in SUBSET Nat /\ Bad # {}
  OBVIOUS
<1>2. PICK i \in Bad : \A j \in Bad : i <= j
  <2> HIDE DEF Bad
  <2> QED
    BY <1>1, Least
<1>3. i # 0 /\ i - 1 \in 0 .. N - 1 /\ i - 1 \notin Bad
  BY <1>2
<1>4. i - 1 \in S
  BY <1>3
<1>5. (i - 1) + 1 \in S
  BY <1>3, <1>4
<1> QED
  BY <1>2, <1>5

\* Induction over all natural numbers.
LEMMA Induction ==
  ASSUME NEW S, 0 \in S, \A n \in Nat : n \in S => n + 1 \in S
  PROVE  \A n \in Nat : n \in S
<1> SUFFICES ASSUME NEW k \in Nat PROVE k \in S
  OBVIOUS
<1>1. \A n \in 0 .. k - 1 : n \in S => n + 1 \in S
  OBVIOUS
<1>2. \A n \in 0 .. k : n \in S
  BY <1>1, UpTo
<1> QED
  BY <1>2

\* Steps from one value in R to the next; and a sequence of values that begins
\* with b and goes on by g.
Steps(R, N) == [R \X (1 .. N) -> R]
GoesOnBy(f, R, b, N, g) ==
  /\ f \in [0 .. N -> R]
  /\ f[0] = b
  /\ \A n \in 1 .. N : f[n] = g[<<f[n - 1], n>>]

\* There is such a sequence.
LEMMA Recursion ==
  ASSUME NEW R, NEW b \in R, NEW N \in Nat, NEW g \in Steps(R, N)
  PROVE  \E f : GoesOnBy(f, R, b, N, g)
<1> DEFINE Good(m, f) == f[0] = b /\ \A n \in 1 .. m : f[n] = g[<<f[n - 1], n>>]
           S == {m \in 0 .. N : \E f \in [0 .. N -> R] : Good(m, f)}
<1> USE DEF Steps
<1>1. 0 \in S
  <2> DEFINE c == [n \in 0 .. N |-> b]
  <2>1. c \in [0 .. N -> R] /\ Good(0, c)
    OBVIOUS
  <2> QED
    <3> HIDE DEF c, Good
    <3> QED
      BY <2>1
<1>2. ASSUME NEW m \in 0 .. N - 1, m \in S PROVE m + 1 \in S
  <2>1. PICK f \in [0 .. N -> R] : Good(m, f)
    BY <1>2
  <2> DEFINE h == [f EXCEPT ![m + 1] = g[<<f[m], m + 1>>]]
  <2>2. m + 1 \in 1 .. N /\ m \in 0 .. N /\ g[<<f[m], m + 1>>] \in R
    OBVIOUS
  <2>3. h \in [0 .. N -> R]
    BY <2>2
  <2>4. h[m + 1] = g[<<f[m], m + 1>>] /\ \A n \in 0 .. m : h[n] = f[n]
    BY <2>2
  <2>5. Good(m + 1, h)
    <3> HIDE DEF h
    <3>1. h[0] = b
      BY <2>1, <2>4
    <3>2. ASSUME NEW n \in 1 .. m + 1 PROVE h[n] = g[<<h[n - 1], n>>]
      <4>1. CASE n = m + 1
        BY <2>4, <4>1
      <4>2. CASE n # m + 1
        <5>1. n \in 1 .. m /\ n - 1 \in 0 .. m /\ n \in 0 .. m
          BY <4>2
        <5> QED
          BY <2>1, <2>4, <5>1
      <4> QED
        BY <4>1, <4>2
    <3> QED
      BY <3>1, <3>2
  <2> QED
    <3> HIDE DEF h, Good
    <3> QED
      BY <2>2, <2>3, <2>5
<1>3. N \in S
  <2> HIDE DEF S
  <2> QED
    BY <1>1, <1>2, UpTo
<1> QED
  BY <1>3 DEF GoesOnBy

-----------------------------------------------------------------------------
(* Evidence *)

\* The items of a sequence.
LEMMA ItemsOf ==
  ASSUME NEW E, NEW s \in Seq(E)
  PROVE  /\ ToSet(s) \subseteq E
         /\ \A e : e \in ToSet(s) <=> \E i \in 1 .. Len(s) : s[i] = e
         /\ ToSet(s) = {} <=> s = <<>>
<1>1. Len(s) \in Nat /\ DOMAIN s = 1 .. Len(s) /\ \A i \in 1 .. Len(s) : s[i] \in E
  BY LenProperties, ElementOfSeq
<1>2. s = <<>> <=> Len(s) = 0
  BY EmptySeq
<1>3. \A e : e \in ToSet(s) <=> \E i \in 1 .. Len(s) : s[i] = e
  BY <1>1 DEF ToSet
<1>4. ToSet(s) = {} <=> Len(s) = 0
  <2>1. ASSUME Len(s) = 0 PROVE ToSet(s) = {}
    BY <1>3, <2>1
  <2>2. ASSUME Len(s) # 0 PROVE s[1] \in ToSet(s)
    BY <1>1, <1>3, <2>2
  <2> QED
    BY <2>1, <2>2
<1> QED
  BY <1>1, <1>2, <1>3, <1>4

LEMMA AppendNewFacts ==
  ASSUME NEW E, NEW s \in Seq(E), NEW e \in E
  PROVE  /\ AppendNew(s, e) \in Seq(E)
         /\ ToSet(AppendNew(s, e)) = ToSet(s) \cup {e}
         /\ IsInjective(s) => IsInjective(AppendNew(s, e))
         /\ e \in ToSet(s) => AppendNew(s, e) = s
         /\ e \notin ToSet(s) => AppendNew(s, e) = Append(s, e)
<1>1. Contains(s, e) <=> e \in ToSet(s)
  BY ItemsOf DEF Contains
<1>2. CASE e \in ToSet(s)
  BY <1>1, <1>2 DEF AppendNew
<1>3. CASE e \notin ToSet(s)
  <2> DEFINE a == Append(s, e)
  <2>1. AppendNew(s, e) = a
    BY <1>1, <1>3 DEF AppendNew
  <2>2. /\ a \in Seq(E) /\ Len(a) = Len(s) + 1
        /\ \A i \in 1 .. Len(s) : a[i] = s[i]
        /\ a[Len(s) + 1] = e
    BY AppendProperties
  <2> HIDE DEF a
  <2>3. /\ DOMAIN s = 1 .. Len(s) /\ DOMAIN a = 1 .. Len(s) + 1 /\ Len(s) \in Nat
    BY <2>2, LenProperties
  <2>4. ToSet(a) = ToSet(s) \cup {e}
    BY <2>2, <2>3 DEF ToSet
  <2>5. \A i \in 1 .. Len(s) : s[i] # e
    BY <1>3, <2>3 DEF ToSet
  <2>6. ASSUME IsInjective(s) PROVE IsInjective(a)
    <3>1. ASSUME NEW i \in DOMAIN a, NEW j \in DOMAIN a, a[i] = a[j] PROVE i = j
      <4>1. CASE i \in 1 .. Len(s) /\ j \in 1 .. Len(s)
        BY <2>2, <2>3, <2>6, <3>1, <4>1 DEF IsInjective
      <4>2. CASE i = Len(s) + 1 \/ j = Len(s) + 1
        BY <2>2, <2>3, <2>5, <3>1, <4>2
      <4> QED
        BY <2>3, <4>1, <4>2
    <3> QED
      BY <3>1 DEF IsInjective
  <2> QED
    BY <1>3, <2>1, <2>2, <2>4, <2>6 DEF a
<1> QED
  BY <1>2, <1>3

\* The function that MergeEvidence runs through satisfies its equation.
LEMMA MergingIs ==
  ASSUME NEW E, NEW evs \in Seq(E), NEW more \in Seq(E)
  PROVE  /\ Merging(evs, more) \in [0 .. Len(more) -> Seq(E)]
         /\ Merging(evs, more)[0] = evs
         /\ \A n \in 1 .. Len(more) :
              Merging(evs, more)[n] = AppendNew(Merging(evs, more)[n - 1], more[n])
<1> DEFINE N == Len(more)
           P(f) == f = [n \in 0 .. N |-> IF n = 0 THEN evs ELSE AppendNew(f[n - 1], more[n])]
           g == [x \in Seq(E) \X (1 .. N) |-> AppendNew(x[1], more[x[2]])]
<1>1. N \in Nat /\ \A n \in 1 .. N : more[n] \in E
  BY LenProperties, ElementOfSeq
<1>2. g \in [Seq(E) \X (1 .. N) -> Seq(E)]
  BY <1>1, AppendNewFacts
<1>3. \A s \in Seq(E), n \in 1 .. N : g[<<s, n>>] = AppendNew(s, more[n])
  OBVIOUS
<1>4. PICK f : GoesOnBy(f, Seq(E), evs, N, g)
  <2>1. g \in Steps(Seq(E), N)
    BY <1>2 DEF Steps
  <2> HIDE DEF g, N
  <2> QED
    BY <1>1, <2>1, Recursion
<1>5. P(f)
  <2> HIDE DEF g, N
  <2>1. f \in [0 .. N -> Seq(E)] /\ f[0] = evs
    BY <1>4 DEF GoesOnBy
  <2>2. ASSUME NEW n \in 1 .. N PROVE f[n] = AppendNew(f[n - 1], more[n])
    <3>1. n - 1 \in 0 .. N /\ f[n - 1] \in Seq(E) /\ f[n] = g[<<f[n - 1], n>>]
      BY <1>1, <1>4, <2>1 DEF GoesOnBy
    <3> QED
      BY <1>3, <3>1
  <2>3. \A n \in 0 .. N : f[n] = IF n = 0 THEN evs ELSE AppendNew(f[n - 1], more[n])
    BY <1>1, <2>1, <2>2
  <2> QED
    BY <2>1, <2>3
<1> DEFINE m == Merging(evs, more)
<1>6. m = CHOOSE h : P(h)
  BY DEF Merging
<1>7. P(m)
  <2> HIDE DEF P, m
  <2> QED
    BY <1>5, <1>6
<1> HIDE DEF m, N
<1>8. m[0] = evs /\ \A n \in 1 .. N : m[n] = AppendNew(m[n - 1], more[n])
  BY <1>1, <1>7
<1>9. \A n \in 0 .. N : n \in {k \in 0 .. N : m[k] \in Seq(E)}
  <2>1. ASSUME NEW n \in 0 .. N - 1, m[n] \in Seq(E) PROVE m[n + 1] \in Seq(E)
    <3>1. n + 1 \in 1 .. N /\ (n + 1) - 1 = n
      BY <1>1
    <3>2. m[n + 1] = AppendNew(m[n], more[n + 1]) /\ more[n + 1] \in E
      BY <1>1, <1>8, <3>1
    <3>3. AppendNew(m[n], more[n + 1]) \in Seq(E)
      <4> DEFINE t == m[n]  e == more[n + 1]
      <4>1. t \in Seq(E) /\ e \in E
        BY <2>1, <3>2
      <4> HIDE DEF t, e
      <4>2. AppendNew(t, e) \in Seq(E)
        BY <4>1, AppendNewFacts
      <4> QED
        BY <4>2 DEF t, e
    <3> QED
      BY <3>2, <3>3
  <2> DEFINE S == {k \in 0 .. N : m[k] \in Seq(E)}
  <2>2. 0 \in S /\ \A n \in 0 .. N - 1 : n \in S => n + 1 \in S
    BY <1>1, <1>8, <2>1
  <2> HIDE DEF S
  <2>3. \A n \in 0 .. N : n \in S
    BY <1>1, <2>2, UpTo
  <2> QED
    BY <2>3 DEF S
<1>10. m \in [0 .. N -> Seq(E)]
  BY <1>7, <1>9
<1> QED
  BY <1>8, <1>10 DEF m, N

\* Merging adds the items that are missing, each once.
LEMMA MergeFacts ==
  ASSUME NEW E, NEW evs \in Seq(E), NEW more \in Seq(E)
  PROVE  /\ MergeEvidence(evs, more) \in Seq(E)
         /\ ToSet(MergeEvidence(evs, more)) = ToSet(evs) \cup ToSet(more)
         /\ IsInjective(evs) => IsInjective(MergeEvidence(evs, more))
         /\ ToSet(more) \subseteq ToSet(evs) => MergeEvidence(evs, more) = evs
<1> DEFINE N == Len(more)
           m == Merging(evs, more)
           Items(n) == {more[k] : k \in 1 .. n}
           Right(n) == /\ ToSet(m[n]) = ToSet(evs) \cup Items(n)
                       /\ IsInjective(evs) => IsInjective(m[n])
                       /\ ToSet(more) \subseteq ToSet(evs) => m[n] = evs
           S == {n \in 0 .. N : Right(n)}
<1>1. /\ m \in [0 .. N -> Seq(E)] /\ m[0] = evs
      /\ \A n \in 1 .. N : m[n] = AppendNew(m[n - 1], more[n])
  BY MergingIs
<1>2. N \in Nat /\ (\A n \in 1 .. N : more[n] \in E) /\ ToSet(more) = Items(N)
  BY LenProperties, ElementOfSeq DEF ToSet
<1> HIDE DEF m, N
<1>3. 0 \in S
  BY <1>1, <1>2
<1>4. ASSUME NEW n \in 0 .. N - 1, n \in S PROVE n + 1 \in S
  <2>1. n + 1 \in 1 .. N /\ (n + 1) - 1 = n /\ n \in 0 .. N
    BY <1>2
  <2> DEFINE e == more[n + 1]
             t == m[n]
  <2>2. t \in Seq(E) /\ e \in E /\ m[n + 1] = AppendNew(t, e) /\ e \in ToSet(more)
    BY <1>1, <1>2, <2>1
  <2>3. Items(n + 1) = Items(n) \cup {e}
    BY <2>1
  <2>4. /\ ToSet(t) = ToSet(evs) \cup Items(n)
        /\ IsInjective(evs) => IsInjective(t)
        /\ ToSet(more) \subseteq ToSet(evs) => t = evs
    BY <1>4
  <2> HIDE DEF e, t
  <2>5. ToSet(m[n + 1]) = ToSet(evs) \cup Items(n + 1)
    <3> HIDE DEF Items, Right, S
    <3>1. ToSet(m[n + 1]) = ToSet(t) \cup {e}
      BY <2>2, AppendNewFacts
    <3> QED
      BY <2>3, <2>4, <3>1
  <2>6. ASSUME IsInjective(evs) PROVE IsInjective(m[n + 1])
    BY <2>2, <2>4, <2>6, AppendNewFacts
  <2>7. ASSUME ToSet(more) \subseteq ToSet(evs) PROVE m[n + 1] = evs
    BY <2>2, <2>4, <2>7, AppendNewFacts
  <2> QED
    BY <2>1, <2>5, <2>6, <2>7
<1>5. N \in S
  <2> HIDE DEF S
  <2>1. \A n \in 0 .. N : n \in S
    BY <1>2, <1>3, <1>4, UpTo
  <2> QED
    BY <1>2, <2>1
<1>6. Right(N) /\ m[N] \in Seq(E)
  BY <1>1, <1>2, <1>5
<1> QED
  BY <1>2, <1>6 DEF MergeEvidence, m, N

\* Evidence without repetition is kept as it is.
LEMMA MergeSame ==
  ASSUME NEW E, NEW more \in Seq(E), IsInjective(more)
  PROVE  MergeEvidence(<<>>, more) = more
<1> DEFINE N == Len(more)
           m == Merging(<<>>, more)
           Right(n) == Len(m[n]) = n /\ \A k \in 1 .. n : m[n][k] = more[k]
           S == {n \in 0 .. N : Right(n)}
<1>1. <<>> \in Seq(E) /\ Len(<<>>) = 0
  BY EmptySeq
<1>2. /\ m \in [0 .. N -> Seq(E)] /\ m[0] = <<>>
      /\ \A n \in 1 .. N : m[n] = AppendNew(m[n - 1], more[n])
  BY <1>1, MergingIs
<1>3. N \in Nat /\ (\A n \in 1 .. N : more[n] \in E) /\ DOMAIN more = 1 .. N
  BY LenProperties, ElementOfSeq
<1> HIDE DEF m, N
<1>4. 0 \in S
  BY <1>1, <1>2, <1>3
<1>5. ASSUME NEW n \in 0 .. N - 1, n \in S PROVE n + 1 \in S
  <2>1. n + 1 \in 1 .. N /\ (n + 1) - 1 = n /\ n \in 0 .. N
    BY <1>3
  <2> DEFINE e == more[n + 1]
             s == m[n]
  <2>2. s \in Seq(E) /\ e \in E /\ m[n + 1] = AppendNew(s, e)
    BY <1>2, <1>3, <2>1
  <2>3. Len(s) = n /\ \A k \in 1 .. n : s[k] = more[k]
    BY <1>5
  <2> HIDE DEF s
  <2>4. e \notin ToSet(s)
    <3>1. SUFFICES ASSUME e \in ToSet(s) PROVE FALSE
      OBVIOUS
    <3>2. PICK i \in 1 .. n : s[i] = e
      BY <2>2, <2>3, <3>1, ItemsOf
    <3>3. more[i] = more[n + 1] /\ i \in DOMAIN more /\ n + 1 \in DOMAIN more
      BY <1>3, <2>1, <2>3, <3>2
    <3> QED
      BY <2>1, <3>2, <3>3 DEF IsInjective
  <2> HIDE DEF e
  <2>5. m[n + 1] = Append(s, e)
    BY <2>2, <2>4, AppendNewFacts
  <2>6. /\ Len(m[n + 1]) = n + 1 /\ m[n + 1][n + 1] = e
        /\ \A k \in 1 .. n : m[n + 1][k] = s[k]
    BY <2>2, <2>3, <2>5, AppendProperties
  <2>7. \A k \in 1 .. n + 1 : m[n + 1][k] = more[k]
    BY <2>1, <2>3, <2>6 DEF e
  <2> QED
    BY <2>1, <2>6, <2>7
<1>6. N \in S
  <2> HIDE DEF S
  <2>1. \A n \in 0 .. N : n \in S
    BY <1>3, <1>4, <1>5, UpTo
  <2> QED
    BY <1>3, <2>1
<1>7. m[N] \in Seq(E) /\ Len(m[N]) = Len(more) /\ \A k \in 1 .. Len(m[N]) : m[N][k] = more[k]
  BY <1>2, <1>3, <1>6 DEF N
<1>8. m[N] = more
  BY <1>7, SeqEqual
<1> QED
  BY <1>8 DEF MergeEvidence, m, N

-----------------------------------------------------------------------------
(* Consolidation *)

\* The fields of a finding.
LEMMA FindingFields ==
  ASSUME NEW f \in Finding
  PROVE  /\ f.rule \in Rules \cup Correlated
         /\ f.severity \in Severities /\ f.severity \in 0 .. 4
         /\ f.confidence \in Percent /\ f.confidence \in 0 .. 100
         /\ f.evidence \in Seq(Evidence)
BY DEF Finding, Severities, Percent

\* The first finding of a rule takes over its evidence, each item once.
First(f) == [f EXCEPT !.evidence = MergeEvidence(<<>>, @)]

LEMMA FirstFields ==
  ASSUME NEW f \in Finding
  PROVE  /\ First(f) \in Finding
         /\ First(f).rule = f.rule
         /\ First(f).severity = f.severity
         /\ First(f).confidence = f.confidence
         /\ First(f).evidence = MergeEvidence(<<>>, f.evidence)
<1>1. MergeEvidence(<<>>, f.evidence) \in Seq(Evidence)
  BY FindingFields, EmptySeq, MergeFacts
<1> QED
  BY <1>1, Zenon DEF First, Finding

LEMMA MergeFields ==
  ASSUME NEW f \in Finding, NEW g \in Finding
  PROVE  /\ Merge(f, g) \in Finding
         /\ Merge(f, g).rule = f.rule
         /\ Merge(f, g).severity = Maximum(f.severity, g.severity)
         /\ Merge(f, g).confidence = Maximum(f.confidence, g.confidence)
         /\ Merge(f, g).evidence = MergeEvidence(f.evidence, g.evidence)
<1>1. MergeEvidence(f.evidence, g.evidence) \in Seq(Evidence)
  BY FindingFields, MergeFacts
<1>2. Maximum(f.severity, g.severity) \in Severities /\ Maximum(f.confidence, g.confidence) \in Percent
  BY FindingFields DEF Maximum
<1> QED
  BY <1>1, <1>2, Zenon DEF Merge, Finding

\* The place of a rule in a sequence of findings; 0 if it is not there.
PlaceOf(fs, r) == SelectInSeq(fs, LAMBDA g : g.rule = r)

LEMMA PlaceOfRule ==
  ASSUME NEW fs \in Seq(Finding), NEW r
  PROVE  \/ PlaceOf(fs, r) = 0 /\ \A k \in 1 .. Len(fs) : fs[k].rule # r
         \/ /\ PlaceOf(fs, r) \in 1 .. Len(fs)
            /\ fs[PlaceOf(fs, r)].rule = r
            /\ \A k \in 1 .. Len(fs) : fs[k].rule = r => PlaceOf(fs, r) <= k
<1> DEFINE I == {i \in 1 .. Len(fs) : fs[i].rule = r}
<1>1. PlaceOf(fs, r) = IF I # {} THEN Min(I) ELSE 0
  BY DEF PlaceOf, SelectInSeq
<1>2. CASE I = {}
  BY <1>1, <1>2
<1>3. CASE I # {}
  <2>1. I \in SUBSET Nat
    BY LenProperties
  <2>2. \E x \in I : \A y \in I : x <= y
    <3> HIDE DEF I
    <3> QED
      BY <1>3, <2>1, Least
  <2>3. Min(I) \in I /\ \A y \in I : Min(I) <= y
    <3> HIDE DEF I
    <3> QED
      BY <2>2 DEF Min
  <2> QED
    BY <1>1, <1>3, <2>3
<1> QED
  BY <1>2, <1>3

\* The two cases of a round of DeduplicateFindings.
LEMMA ConsolidateCases ==
  ASSUME NEW c \in Seq(Finding), NEW f \in Finding
  PROVE  \/ /\ \A k \in 1 .. Len(c) : c[k].rule # f.rule
            /\ Consolidate(c, f) = Append(c, First(f))
         \/ \E i \in 1 .. Len(c) :
              /\ c[i].rule = f.rule
              /\ Consolidate(c, f) = [c EXCEPT ![i] = Merge(c[i], f)]
<1> DEFINE i == PlaceOf(c, f.rule)
<1>1. Consolidate(c, f) = IF i = 0 THEN Append(c, First(f)) ELSE [c EXCEPT ![i] = Merge(c[i], f)]
  BY DEF Consolidate, PlaceOf, First, ReplaceAt
<1> HIDE DEF i
<1>2. \/ i = 0 /\ \A k \in 1 .. Len(c) : c[k].rule # f.rule
      \/ i \in 1 .. Len(c) /\ c[i].rule = f.rule
  BY PlaceOfRule DEF i
<1>3. 0 \notin 1 .. Len(c)
  BY LenProperties
<1> QED
  BY <1>1, <1>2, <1>3

\* A round yields findings.
LEMMA ConsolidateType ==
  ASSUME NEW c \in Seq(Finding), NEW f \in Finding
  PROVE  Consolidate(c, f) \in Seq(Finding)
<1>1. CASE Consolidate(c, f) = Append(c, First(f))
  BY <1>1, FirstFields, AppendProperties
<1>2. ASSUME NEW i \in 1 .. Len(c), Consolidate(c, f) = [c EXCEPT ![i] = Merge(c[i], f)]
      PROVE  Consolidate(c, f) \in Seq(Finding)
  <2>1. Merge(c[i], f) \in Finding
    BY ElementOfSeq, MergeFields
  <2> QED
    BY <1>2, <2>1, ExceptSeq
<1> QED
  BY <1>1, <1>2, ConsolidateCases

\* The function that DeduplicateFindings runs through satisfies its equation.
LEMMA ConsolidatingIs ==
  ASSUME NEW fs \in Seq(Finding)
  PROVE  /\ Consolidating(fs) \in [0 .. Len(fs) -> Seq(Finding)]
         /\ Consolidating(fs)[0] = <<>>
         /\ \A n \in 1 .. Len(fs) :
              Consolidating(fs)[n] = Consolidate(Consolidating(fs)[n - 1], fs[n])
<1> DEFINE N == Len(fs)
           R == Seq(Finding)
           P(f) == f = [n \in 0 .. N |-> IF n = 0 THEN <<>> ELSE Consolidate(f[n - 1], fs[n])]
           g == [x \in R \X (1 .. N) |-> Consolidate(x[1], fs[x[2]])]
<1>1. N \in Nat /\ (\A n \in 1 .. N : fs[n] \in Finding) /\ <<>> \in R
  BY LenProperties, ElementOfSeq, EmptySeq
<1>2. \A c \in R, f \in Finding : Consolidate(c, f) \in R
  BY ConsolidateType
<1>3. g \in Steps(R, N) /\ \A c \in R, n \in 1 .. N : g[<<c, n>>] = Consolidate(c, fs[n])
  <2> HIDE DEF N, R
  <2> QED
    BY <1>1, <1>2 DEF Steps
<1>4. PICK f : GoesOnBy(f, R, <<>>, N, g)
  <2> HIDE DEF g, N, R
  <2> QED
    BY <1>1, <1>3, Recursion
<1>5. P(f)
  <2> HIDE DEF g, N, R
  <2>1. f \in [0 .. N -> R] /\ f[0] = <<>>
    BY <1>4 DEF GoesOnBy
  <2>2. ASSUME NEW n \in 1 .. N PROVE f[n] = Consolidate(f[n - 1], fs[n])
    <3>1. n - 1 \in 0 .. N /\ f[n - 1] \in R /\ f[n] = g[<<f[n - 1], n>>]
      BY <1>1, <1>4, <2>1 DEF GoesOnBy
    <3> QED
      BY <1>3, <3>1
  <2>3. \A n \in 0 .. N : f[n] = IF n = 0 THEN <<>> ELSE Consolidate(f[n - 1], fs[n])
    BY <1>1, <2>1, <2>2
  <2> QED
    BY <2>1, <2>3
<1> DEFINE m == Consolidating(fs)
<1>6. m = CHOOSE h : P(h)
  BY DEF Consolidating
<1>7. P(m)
  <2> HIDE DEF P, m
  <2> QED
    BY <1>5, <1>6
<1> HIDE DEF m, N, R
<1>8. m[0] = <<>> /\ \A n \in 1 .. N : m[n] = Consolidate(m[n - 1], fs[n])
  BY <1>1, <1>7
<1> DEFINE S == {k \in 0 .. N : m[k] \in R}
<1>9. 0 \in S
  BY <1>1, <1>8
<1>10. ASSUME NEW n \in 0 .. N - 1, n \in S PROVE n + 1 \in S
  <2>1. n + 1 \in 1 .. N /\ (n + 1) - 1 = n /\ m[n] \in R
    BY <1>1, <1>10
  <2>2. m[n + 1] = Consolidate(m[n], fs[n + 1]) /\ fs[n + 1] \in Finding
    BY <1>1, <1>8, <2>1
  <2> QED
    BY <1>1, <1>2, <2>1, <2>2
<1>11. \A n \in 0 .. N : n \in S
  <2> HIDE DEF S
  <2> QED
    BY <1>1, <1>9, <1>10, UpTo
<1>12. m \in [0 .. N -> R]
  BY <1>7, <1>11
<1> QED
  BY <1>8, <1>12 DEF m, N, R

\* A consolidated finding sums up the findings S of its rule: it is as severe
\* and as certain as any, and has all their evidence once.
SumsUp(d, S) ==
  /\ \E f \in S : d.severity = f.severity
  /\ \A f \in S : f.severity <= d.severity
  /\ \E f \in S : d.confidence = f.confidence
  /\ \A f \in S : f.confidence <= d.confidence
  /\ ToSet(d.evidence) = UNION {ToSet(f.evidence) : f \in S}
  /\ IsInjective(d.evidence)

LEMMA MaximumFacts ==
  ASSUME NEW a \in Int, NEW b \in Int
  PROVE  /\ Maximum(a, b) \in Int /\ Maximum(a, b) \in {a, b}
         /\ a <= Maximum(a, b) /\ b <= Maximum(a, b)
         /\ b <= a => Maximum(a, b) = a
BY DEF Maximum

LEMMA FirstSumsUp ==
  ASSUME NEW f \in Finding
  PROVE  SumsUp(First(f), {f})
<1>1. IsInjective(<<>>) /\ ToSet(<<>>) = {}
  BY DEF IsInjective, ToSet
<1>2. /\ ToSet(MergeEvidence(<<>>, f.evidence)) = ToSet(f.evidence)
      /\ IsInjective(MergeEvidence(<<>>, f.evidence))
  <2>1. f.evidence \in Seq(Evidence) /\ <<>> \in Seq(Evidence)
    BY FindingFields, EmptySeq
  <2>2. /\ ToSet(MergeEvidence(<<>>, f.evidence)) = ToSet(<<>>) \cup ToSet(f.evidence)
        /\ IsInjective(<<>>) => IsInjective(MergeEvidence(<<>>, f.evidence))
    <3> DEFINE none == <<>>  ev == f.evidence
    <3>1. none \in Seq(Evidence) /\ ev \in Seq(Evidence)
      BY <2>1
    <3> HIDE DEF none, ev
    <3>2. /\ ToSet(MergeEvidence(none, ev)) = ToSet(none) \cup ToSet(ev)
          /\ IsInjective(none) => IsInjective(MergeEvidence(none, ev))
      BY <3>1, MergeFacts
    <3> QED
      BY <3>2 DEF none, ev
  <2> QED
    BY <1>1, <2>2
<1>3. f.severity <= f.severity /\ f.confidence <= f.confidence
  <2>1. f.severity \in 0 .. 4 /\ f.confidence \in 0 .. 100
    BY FindingFields
  <2> QED
    BY <2>1
<1>4. UNION {ToSet(g.evidence) : g \in {f}} = ToSet(f.evidence)
  OBVIOUS
<1> QED
  BY <1>2, <1>3, <1>4, FirstFields DEF SumsUp

LEMMA MergeSumsUp ==
  ASSUME NEW d \in Finding, NEW f \in Finding, NEW S \in SUBSET Finding, SumsUp(d, S)
  PROVE  SumsUp(Merge(d, f), S \cup {f})
<1> DEFINE e == Merge(d, f)
<1>1. /\ \A h \in S : h.severity \in Int /\ h.confidence \in Int
      /\ d.severity \in Int /\ f.severity \in Int
      /\ d.confidence \in Int /\ f.confidence \in Int
  <2>1. \A h \in Finding : h.severity \in 0 .. 4 /\ h.confidence \in 0 .. 100
    BY FindingFields
  <2> QED
    BY <2>1
<1>2. /\ e.severity = Maximum(d.severity, f.severity)
      /\ e.confidence = Maximum(d.confidence, f.confidence)
      /\ e.evidence = MergeEvidence(d.evidence, f.evidence)
  BY MergeFields
<1> HIDE DEF e
<1>3. /\ \E h \in S \cup {f} : e.severity = h.severity
      /\ \A h \in S \cup {f} : h.severity <= e.severity
  <2>1. PICK h \in S : d.severity = h.severity
    BY DEF SumsUp
  <2>2. /\ d.severity <= e.severity /\ f.severity <= e.severity
        /\ e.severity \in {d.severity, f.severity} /\ e.severity \in Int
    <3> DEFINE a == d.severity  b == f.severity  m == e.severity
    <3>1. a \in Int /\ b \in Int /\ m = Maximum(a, b)
      BY <1>1, <1>2
    <3> HIDE DEF a, b, m
    <3>2. a <= m /\ b <= m /\ m \in {a, b} /\ m \in Int
      BY <3>1, MaximumFacts
    <3> QED
      BY <3>2 DEF a, b, m
  <2>3. ASSUME NEW k \in S PROVE k.severity <= e.severity
    <3>1. k.severity <= d.severity
      BY DEF SumsUp
    <3>2. k.severity \in Int /\ d.severity \in Int
      BY <1>1
    <3> QED
      BY <2>2, <3>1, <3>2
  <2> QED
    BY <2>1, <2>2, <2>3
<1>4. /\ \E h \in S \cup {f} : e.confidence = h.confidence
      /\ \A h \in S \cup {f} : h.confidence <= e.confidence
  <2>1. PICK h \in S : d.confidence = h.confidence
    BY DEF SumsUp
  <2>2. /\ d.confidence <= e.confidence /\ f.confidence <= e.confidence
        /\ e.confidence \in {d.confidence, f.confidence} /\ e.confidence \in Int
    <3> DEFINE a == d.confidence  b == f.confidence  m == e.confidence
    <3>1. a \in Int /\ b \in Int /\ m = Maximum(a, b)
      BY <1>1, <1>2
    <3> HIDE DEF a, b, m
    <3>2. a <= m /\ b <= m /\ m \in {a, b} /\ m \in Int
      BY <3>1, MaximumFacts
    <3> QED
      BY <3>2 DEF a, b, m
  <2>3. ASSUME NEW k \in S PROVE k.confidence <= e.confidence
    <3>1. k.confidence <= d.confidence
      BY DEF SumsUp
    <3>2. k.confidence \in Int /\ d.confidence \in Int
      BY <1>1
    <3> QED
      BY <2>2, <3>1, <3>2
  <2> QED
    BY <2>1, <2>2, <2>3
<1>5. /\ ToSet(e.evidence) = ToSet(d.evidence) \cup ToSet(f.evidence)
      /\ IsInjective(e.evidence)
  BY <1>2, FindingFields, MergeFacts DEF SumsUp
<1>6. ToSet(e.evidence) = UNION {ToSet(h.evidence) : h \in S \cup {f}}
  BY <1>5 DEF SumsUp
<1> QED
  BY <1>3, <1>4, <1>5, <1>6 DEF SumsUp, e

\* A finding that adds nothing changes nothing.
LEMMA MergeAbsorbs ==
  ASSUME NEW d \in Finding, NEW f \in Finding,
         f.severity <= d.severity, f.confidence <= d.confidence,
         ToSet(f.evidence) \subseteq ToSet(d.evidence)
  PROVE  Merge(d, f) = d
<1>1. Maximum(d.severity, f.severity) = d.severity /\ Maximum(d.confidence, f.confidence) = d.confidence
  <2>1. /\ d.severity \in 0 .. 4 /\ f.severity \in 0 .. 4
        /\ d.confidence \in 0 .. 100 /\ f.confidence \in 0 .. 100
    BY FindingFields
  <2> QED
    BY <2>1 DEF Maximum
<1>2. MergeEvidence(d.evidence, f.evidence) = d.evidence
  BY FindingFields, MergeFacts
<1>3. Merge(d, f) = [d EXCEPT !.severity = d.severity, !.confidence = d.confidence,
                              !.evidence = d.evidence]
  BY <1>1, <1>2 DEF Merge
<1> QED
  BY <1>3, Zenon DEF Finding

\* The findings of a rule among the first n.
Group(fs, n, r) == {fs[k] : k \in {l \in 1 .. n : fs[l].rule = r}}

\* c is what the first n findings are consolidated to: one finding for each
\* rule, in the order in which the rules are met, that sums up those of its rule.
ConsolidatesTo(fs, n, c) ==
  /\ c \in Seq(Finding)
  /\ \A i, j \in 1 .. Len(c) : c[i].rule = c[j].rule => i = j
  /\ \A k \in 1 .. n : \E i \in 1 .. Len(c) : c[i].rule = fs[k].rule
  /\ \A i \in 1 .. Len(c) : SumsUp(c[i], Group(fs, n, c[i].rule))
  /\ \A i, j \in 1 .. Len(c) : i < j =>
       \E k \in 1 .. n : fs[k].rule = c[i].rule /\ \A l \in 1 .. k : fs[l].rule # c[j].rule

LEMMA GroupGrows ==
  ASSUME NEW fs \in Seq(Finding), NEW n \in Nat, n + 1 \in 1 .. Len(fs), NEW r
  PROVE  /\ Group(fs, n + 1, r) =
              Group(fs, n, r) \cup (IF fs[n + 1].rule = r THEN {fs[n + 1]} ELSE {})
         /\ Group(fs, n, r) \subseteq Finding
<1>1. 1 .. n + 1 = (1 .. n) \cup {n + 1} /\ Len(fs) \in Nat
  BY LenProperties
<1>2. \A k \in 1 .. n : fs[k] \in Finding
  BY <1>1, ElementOfSeq
<1> QED
  BY <1>1, <1>2 DEF Group

\* A finding whose rule is new goes to the end.
LEMMA NewRuleConsolidates ==
  ASSUME NEW fs \in Seq(Finding), NEW n \in Nat, n + 1 \in 1 .. Len(fs), NEW c,
         ConsolidatesTo(fs, n, c),
         \A k \in 1 .. Len(c) : c[k].rule # fs[n + 1].rule
  PROVE  ConsolidatesTo(fs, n + 1, Append(c, First(fs[n + 1])))
<1> DEFINE f == fs[n + 1]
           L == Len(c)
           d == Append(c, First(f))
<1>1. c \in Seq(Finding) /\ f \in Finding /\ L \in Nat
  BY ElementOfSeq, LenProperties DEF ConsolidatesTo
<1>2. First(f) \in Finding /\ First(f).rule = f.rule /\ SumsUp(First(f), {f})
  BY <1>1, FirstFields, FirstSumsUp
<1>3. /\ d \in Seq(Finding) /\ Len(d) = L + 1
      /\ \A i \in 1 .. L : d[i] = c[i]
      /\ d[L + 1] = First(f)
  BY <1>1, <1>2, AppendProperties
<1>4. \A k \in 1 .. L : c[k].rule # f.rule
  OBVIOUS
<1>5. \A k \in 1 .. n : \E i \in 1 .. L : c[i].rule = fs[k].rule
  BY DEF ConsolidatesTo
<1>6. \A l \in 1 .. n : fs[l].rule # f.rule
  BY <1>4, <1>5
<1>7. \A i \in 1 .. L + 1 : i \in 1 .. L \/ i = L + 1
  BY <1>1
<1>8. \A r : Group(fs, n + 1, r) = Group(fs, n, r) \cup (IF f.rule = r THEN {f} ELSE {})
  BY GroupGrows
<1>9. \A i \in 1 .. L : SumsUp(c[i], Group(fs, n, c[i].rule))
  BY DEF ConsolidatesTo
<1>10. \A i, j \in 1 .. L : c[i].rule = c[j].rule => i = j
  BY DEF ConsolidatesTo
<1>11. \A i, j \in 1 .. L : i < j =>
         \E k \in 1 .. n : fs[k].rule = c[i].rule /\ \A l \in 1 .. k : fs[l].rule # c[j].rule
  BY DEF ConsolidatesTo
<1> HIDE DEF f, L, d
<1>12. ASSUME NEW i \in 1 .. Len(d), NEW j \in 1 .. Len(d), d[i].rule = d[j].rule
       PROVE  i = j
  <2>1. CASE i \in 1 .. L /\ j \in 1 .. L
    BY <1>3, <1>10, <1>12, <2>1
  <2>2. CASE i = L + 1 /\ j \in 1 .. L
    BY <1>2, <1>3, <1>4, <1>12, <2>2
  <2>3. CASE i \in 1 .. L /\ j = L + 1
    BY <1>2, <1>3, <1>4, <1>12, <2>3
  <2> QED
    BY <1>3, <1>7, <2>1, <2>2, <2>3
<1>13. ASSUME NEW k \in 1 .. n + 1 PROVE \E i \in 1 .. Len(d) : d[i].rule = fs[k].rule
  <2>1. CASE k = n + 1
    BY <1>1, <1>2, <1>3, <2>1 DEF f
  <2>2. CASE k # n + 1
    <3>1. PICK i \in 1 .. L : c[i].rule = fs[k].rule
      BY <1>5, <2>2
    <3>2. i \in 1 .. Len(d) /\ d[i] = c[i]
      BY <1>1, <1>3, <3>1
    <3> QED
      BY <3>1, <3>2
  <2> QED
    BY <2>1, <2>2
<1>14. ASSUME NEW i \in 1 .. Len(d) PROVE SumsUp(d[i], Group(fs, n + 1, d[i].rule))
  <2>1. CASE i \in 1 .. L
    <3>1. d[i] = c[i] /\ c[i].rule # f.rule
      BY <1>3, <1>4, <2>1
    <3>2. Group(fs, n + 1, c[i].rule) = Group(fs, n, c[i].rule)
      BY <1>8, <3>1
    <3> QED
      BY <1>9, <2>1, <3>1, <3>2
  <2>2. CASE i = L + 1
    <3>1. d[i] = First(f) /\ d[i].rule = f.rule
      BY <1>2, <1>3, <2>2
    <3>2. Group(fs, n, f.rule) = {}
      BY <1>6 DEF Group
    <3>3. Group(fs, n + 1, f.rule) = {f}
      BY <1>8, <3>2
    <3> QED
      BY <1>2, <3>1, <3>3
  <2> QED
    BY <1>3, <1>7, <2>1, <2>2
<1>15. ASSUME NEW i \in 1 .. Len(d), NEW j \in 1 .. Len(d), i < j
       PROVE  \E k \in 1 .. n + 1 :
                fs[k].rule = d[i].rule /\ \A l \in 1 .. k : fs[l].rule # d[j].rule
  <2>1. i \in 1 .. L /\ d[i] = c[i]
    BY <1>1, <1>3, <1>15
  <2>2. CASE j \in 1 .. L
    <3>1. PICK k \in 1 .. n :
            fs[k].rule = c[i].rule /\ \A l \in 1 .. k : fs[l].rule # c[j].rule
      BY <1>11, <1>15, <2>1, <2>2
    <3>2. k \in 1 .. n + 1 /\ d[j] = c[j]
      BY <1>3, <2>2
    <3> QED
      BY <2>1, <3>1, <3>2
  <2>3. CASE j = L + 1
    <3>1. d[j].rule = f.rule
      BY <1>2, <1>3, <2>3
    <3>2. \E g \in Group(fs, n, c[i].rule) : c[i].severity = g.severity
      BY <1>9, <2>1 DEF SumsUp
    <3>3. PICK k \in 1 .. n : fs[k].rule = c[i].rule
      BY <3>2 DEF Group
    <3>4. k \in 1 .. n + 1 /\ \A l \in 1 .. k : l \in 1 .. n
      BY <3>3
    <3> QED
      BY <1>6, <2>1, <3>1, <3>3, <3>4
  <2> QED
    BY <1>3, <1>7, <2>2, <2>3
<1>16. ConsolidatesTo(fs, n + 1, d)
  BY <1>3, <1>12, <1>13, <1>14, <1>15 DEF ConsolidatesTo
<1> QED
  BY <1>16 DEF d, f

\* A finding whose rule is known is merged.
LEMMA KnownRuleConsolidates ==
  ASSUME NEW fs \in Seq(Finding), NEW n \in Nat, n + 1 \in 1 .. Len(fs), NEW c,
         ConsolidatesTo(fs, n, c),
         NEW m \in 1 .. Len(c), c[m].rule = fs[n + 1].rule
  PROVE  ConsolidatesTo(fs, n + 1, [c EXCEPT ![m] = Merge(c[m], fs[n + 1])])
<1> DEFINE f == fs[n + 1]
           L == Len(c)
           e == Merge(c[m], f)
           d == [c EXCEPT ![m] = e]
<1>1. c \in Seq(Finding) /\ f \in Finding /\ L \in Nat /\ c[m] \in Finding
  BY ElementOfSeq, LenProperties DEF ConsolidatesTo
<1>2. e \in Finding /\ e.rule = c[m].rule
  BY <1>1, MergeFields
<1>3. /\ d \in Seq(Finding) /\ Len(d) = L
      /\ \A i \in 1 .. L : d[i] = IF i = m THEN e ELSE c[i]
  <2> HIDE DEF e
  <2> QED
    BY <1>1, <1>2, ExceptSeq
<1>4. \A i \in 1 .. L : d[i].rule = c[i].rule
  BY <1>2, <1>3
<1>5. \A r : /\ Group(fs, n + 1, r) = Group(fs, n, r) \cup (IF f.rule = r THEN {f} ELSE {})
             /\ Group(fs, n, r) \subseteq Finding
  BY GroupGrows
<1>6. \A i \in 1 .. L : SumsUp(c[i], Group(fs, n, c[i].rule))
  BY DEF ConsolidatesTo
<1>7. \A i, j \in 1 .. L : c[i].rule = c[j].rule => i = j
  BY DEF ConsolidatesTo
<1>8. \A i, j \in 1 .. L : i < j =>
        \E k \in 1 .. n : fs[k].rule = c[i].rule /\ \A l \in 1 .. k : fs[l].rule # c[j].rule
  BY DEF ConsolidatesTo
<1>9. \A k \in 1 .. n : \E i \in 1 .. L : c[i].rule = fs[k].rule
  BY DEF ConsolidatesTo
<1>10. c[m].rule = f.rule /\ m \in 1 .. L /\ f = fs[n + 1]
  OBVIOUS
<1>11. SumsUp(e, Group(fs, n, c[m].rule) \cup {f})
  BY <1>1, <1>5, <1>6, MergeSumsUp
<1> HIDE DEF f, L, e, d
<1>12. \A i, j \in 1 .. Len(d) : d[i].rule = d[j].rule => i = j
  BY <1>3, <1>4, <1>7
<1>13. ASSUME NEW k \in 1 .. n + 1 PROVE \E i \in 1 .. Len(d) : d[i].rule = fs[k].rule
  <2>1. CASE k = n + 1
    BY <1>3, <1>4, <1>10, <2>1
  <2>2. CASE k # n + 1
    <3>1. PICK i \in 1 .. L : c[i].rule = fs[k].rule
      BY <1>9, <2>2
    <3> QED
      BY <1>3, <1>4, <3>1
  <2> QED
    BY <2>1, <2>2
<1>14. ASSUME NEW i \in 1 .. Len(d) PROVE SumsUp(d[i], Group(fs, n + 1, d[i].rule))
  <2>1. CASE i = m
    <3>1. Group(fs, n + 1, d[i].rule) = Group(fs, n, c[m].rule) \cup {f}
      BY <1>3, <1>4, <1>5, <1>10, <2>1
    <3>2. d[i] = e
      BY <1>3, <2>1
    <3> QED
      BY <1>11, <3>1, <3>2
  <2>2. CASE i # m
    <3>1. d[i] = c[i] /\ c[i].rule # f.rule /\ i \in 1 .. L
      BY <1>3, <1>7, <1>10, <2>2
    <3>2. Group(fs, n + 1, c[i].rule) = Group(fs, n, c[i].rule)
      BY <1>5, <3>1
    <3> QED
      BY <1>6, <3>1, <3>2
  <2> QED
    BY <2>1, <2>2
<1>15. ASSUME NEW i \in 1 .. Len(d), NEW j \in 1 .. Len(d), i < j
       PROVE  \E k \in 1 .. n + 1 :
                fs[k].rule = d[i].rule /\ \A l \in 1 .. k : fs[l].rule # d[j].rule
  <2>1. PICK k \in 1 .. n :
          fs[k].rule = c[i].rule /\ \A l \in 1 .. k : fs[l].rule # c[j].rule
    BY <1>3, <1>8, <1>15
  <2>2. k \in 1 .. n + 1 /\ d[i].rule = c[i].rule /\ d[j].rule = c[j].rule
    BY <1>3, <1>4
  <2> QED
    BY <2>1, <2>2
<1>16. ConsolidatesTo(fs, n + 1, d)
  BY <1>3, <1>12, <1>13, <1>14, <1>15 DEF ConsolidatesTo
<1> QED
  BY <1>16 DEF d, e, f

\* DeduplicateFindings does what it is for.
LEMMA Deduplicates ==
  ASSUME NEW fs \in Seq(Finding)
  PROVE  ConsolidatesTo(fs, Len(fs), DeduplicateFindings(fs))
<1> DEFINE N == Len(fs)
           m == Consolidating(fs)
           S == {n \in 0 .. N : ConsolidatesTo(fs, n, m[n])}
<1>1. /\ N \in Nat /\ m \in [0 .. N -> Seq(Finding)] /\ m[0] = <<>>
      /\ \A n \in 1 .. N : m[n] = Consolidate(m[n - 1], fs[n]) /\ fs[n] \in Finding
  BY ConsolidatingIs, LenProperties, ElementOfSeq
<1>2. ConsolidatesTo(fs, 0, <<>>)
  <2>1. <<>> \in Seq(Finding) /\ Len(<<>>) = 0
    BY EmptySeq
  <2> QED
    BY <2>1 DEF ConsolidatesTo
<1>3. ASSUME NEW n \in 0 .. N - 1, n \in S PROVE n + 1 \in S
  <2>1. n \in Nat /\ n + 1 \in 1 .. N /\ n + 1 \in 0 .. N /\ (n + 1) - 1 = n
    BY <1>1
  <2> DEFINE c == m[n]
             f == fs[n + 1]
  <2>2. ConsolidatesTo(fs, n, c) /\ c \in Seq(Finding) /\ f \in Finding
    BY <1>1, <1>3, <2>1
  <2>3. m[n + 1] = Consolidate(c, f)
    BY <1>1, <2>1
  <2>4. f = fs[n + 1]
    OBVIOUS
  <2> HIDE DEF c, f, m
  <2>5. CASE /\ \A k \in 1 .. Len(c) : c[k].rule # f.rule
             /\ Consolidate(c, f) = Append(c, First(f))
    <3>1. ConsolidatesTo(fs, n + 1, Append(c, First(f)))
      BY <2>1, <2>2, <2>4, <2>5, NewRuleConsolidates
    <3> QED
      BY <2>1, <2>3, <2>5, <3>1
  <2>6. ASSUME NEW i \in 1 .. Len(c), c[i].rule = f.rule,
               Consolidate(c, f) = [c EXCEPT ![i] = Merge(c[i], f)]
        PROVE  n + 1 \in S
    <3>1. ConsolidatesTo(fs, n + 1, [c EXCEPT ![i] = Merge(c[i], f)])
      BY <2>1, <2>2, <2>4, <2>6, KnownRuleConsolidates
    <3> QED
      BY <2>1, <2>3, <2>6, <3>1
  <2> QED
    BY <2>2, <2>5, <2>6, ConsolidateCases
<1>4. \A n \in 0 .. N : n \in S
  <2>1. 0 \in S
    BY <1>1, <1>2
  <2> HIDE DEF S
  <2> QED
    BY <1>1, <1>3, <2>1, UpTo
<1>5. ConsolidatesTo(fs, N, m[N])
  BY <1>1, <1>4
<1> QED
  BY <1>5 DEF DeduplicateFindings

\* Findings of different rules, each with evidence that is not repeated.
Consolidated(ds) ==
  /\ ds \in Seq(Finding)
  /\ \A i, j \in 1 .. Len(ds) : ds[i].rule = ds[j].rule => i = j
  /\ \A i \in 1 .. Len(ds) : IsInjective(ds[i].evidence)

LEMMA DeduplicatesToConsolidated ==
  ASSUME NEW fs \in Seq(Finding)
  PROVE  Consolidated(DeduplicateFindings(fs))
BY Deduplicates DEF ConsolidatesTo, SumsUp, Consolidated

LEMMA FirstSame ==
  ASSUME NEW f \in Finding, IsInjective(f.evidence)
  PROVE  First(f) = f
<1>1. MergeEvidence(<<>>, f.evidence) = f.evidence
  BY FindingFields, MergeSame
<1>2. First(f) = [f EXCEPT !.evidence = f.evidence]
  BY <1>1 DEF First
<1> QED
  BY <1>2, Zenon DEF Finding

\* Consolidated findings are kept as they are.
LEMMA DeduplicateSame ==
  ASSUME NEW ds, Consolidated(ds)
  PROVE  DeduplicateFindings(ds) = ds
<1> DEFINE N == Len(ds)
           m == Consolidating(ds)
           Right(n) == Len(m[n]) = n /\ \A k \in 1 .. n : m[n][k] = ds[k]
           S == {n \in 0 .. N : Right(n)}
<1>1. ds \in Seq(Finding)
  BY DEF Consolidated
<1>2. /\ N \in Nat /\ m \in [0 .. N -> Seq(Finding)] /\ m[0] = <<>> /\ Len(<<>>) = 0
      /\ \A n \in 1 .. N : m[n] = Consolidate(m[n - 1], ds[n]) /\ ds[n] \in Finding
  BY <1>1, ConsolidatingIs, LenProperties, ElementOfSeq, EmptySeq
<1> HIDE DEF m, N
<1>3. ASSUME NEW n \in 0 .. N - 1, n \in S PROVE n + 1 \in S
  <2>1. n + 1 \in 1 .. N /\ (n + 1) - 1 = n /\ n \in 0 .. N
    BY <1>2
  <2> DEFINE f == ds[n + 1]
             c == m[n]
  <2>2. c \in Seq(Finding) /\ f \in Finding /\ m[n + 1] = Consolidate(c, f)
    BY <1>2, <2>1
  <2>3. Len(c) = n /\ \A k \in 1 .. n : c[k] = ds[k]
    BY <1>3
  <2>4. IsInjective(f.evidence)
    BY <2>1 DEF Consolidated, N
  <2>5. \A k \in 1 .. n : ds[k].rule # f.rule
    BY <2>1 DEF Consolidated, N
  <2> HIDE DEF f, c
  <2>6. Consolidate(c, f) = Append(c, First(f))
    BY <2>2, <2>3, <2>5, ConsolidateCases
  <2>7. m[n + 1] = Append(c, f)
    BY <2>2, <2>4, <2>6, FirstSame
  <2>8. /\ Len(m[n + 1]) = n + 1 /\ m[n + 1][n + 1] = f
        /\ \A k \in 1 .. n : m[n + 1][k] = c[k]
    BY <2>2, <2>3, <2>7, AppendProperties
  <2>9. \A k \in 1 .. n + 1 : m[n + 1][k] = ds[k]
    BY <2>1, <2>3, <2>8 DEF f
  <2> QED
    BY <2>1, <2>8, <2>9
<1>4. N \in S
  <2>1. 0 \in S
    BY <1>2
  <2> HIDE DEF S
  <2>2. \A n \in 0 .. N : n \in S
    BY <1>2, <1>3, <2>1, UpTo
  <2> QED
    BY <1>2, <2>2
<1>5. m[N] \in Seq(Finding) /\ Len(m[N]) = Len(ds) /\ \A k \in 1 .. Len(m[N]) : m[N][k] = ds[k]
  BY <1>2, <1>4 DEF N
<1>6. m[N] = ds
  BY <1>1, <1>5, SeqEqual
<1> QED
  BY <1>6 DEF DeduplicateFindings, m, N

\* A finding that is already summed up is absorbed.
LEMMA ConsolidateAbsorbs ==
  ASSUME NEW fs \in Seq(Finding), NEW c, ConsolidatesTo(fs, Len(fs), c),
         NEW k \in 1 .. Len(fs)
  PROVE  Consolidate(c, fs[k]) = c
<1> DEFINE f == fs[k]
<1>1. f \in Finding /\ c \in Seq(Finding)
  BY ElementOfSeq DEF ConsolidatesTo
<1>2. \E i \in 1 .. Len(c) : c[i].rule = f.rule
  BY DEF ConsolidatesTo
<1>3. PICK i \in 1 .. Len(c) : c[i].rule = f.rule /\ Consolidate(c, f) = [c EXCEPT ![i] = Merge(c[i], f)]
  <2> HIDE DEF f
  <2> QED
    BY <1>1, <1>2, ConsolidateCases
<1>4. SumsUp(c[i], Group(fs, Len(fs), c[i].rule)) /\ c[i] \in Finding
  BY <1>1, ElementOfSeq DEF ConsolidatesTo
<1>5. f \in Group(fs, Len(fs), c[i].rule)
  BY <1>3 DEF Group
<1>6. /\ f.severity <= c[i].severity /\ f.confidence <= c[i].confidence
      /\ ToSet(f.evidence) \subseteq ToSet(c[i].evidence)
  BY <1>4, <1>5 DEF SumsUp
<1>7. Merge(c[i], f) = c[i]
  <2> HIDE DEF f
  <2> QED
    BY <1>1, <1>4, <1>6, MergeAbsorbs
<1>8. [c EXCEPT ![i] = c[i]] = c
  BY <1>1
<1> QED
  BY <1>3, <1>7, <1>8

\* Findings that are repeated change nothing.
LEMMA DeduplicateTwice ==
  ASSUME NEW fs \in Seq(Finding)
  PROVE  DeduplicateFindings(fs \o fs) = DeduplicateFindings(fs)
<1> DEFINE N == Len(fs)
           gs == fs \o fs
           m == Consolidating(fs)
           h == Consolidating(gs)
           c == m[N]
           S == {n \in 0 .. N : h[n] = m[n]}
           T == {n \in 0 .. N : h[N + n] = c}
<1>1. N \in Nat /\ gs \in Seq(Finding) /\ Len(gs) = N + N
  BY LenProperties, ConcatProperties
<1>2. \A n \in 1 .. N : gs[n] = fs[n] /\ gs[N + n] = fs[n]
  <2>1. \A n \in 1 .. N : n \in 1 .. N + N /\ N + n \in 1 .. N + N /\ n <= N /\ ~(N + n <= N) /\ (N + n) - N = n
    BY <1>1
  <2>2. \A i \in 1 .. N + N : gs[i] = IF i <= N THEN fs[i] ELSE fs[i - N]
    BY ConcatProperties
  <2> HIDE DEF gs, N
  <2> QED
    BY <2>1, <2>2
<1>3. /\ m \in [0 .. N -> Seq(Finding)] /\ m[0] = <<>>
      /\ \A n \in 1 .. N : m[n] = Consolidate(m[n - 1], fs[n])
  BY ConsolidatingIs
<1>4. /\ h[0] = <<>>
      /\ \A n \in 1 .. N + N : h[n] = Consolidate(h[n - 1], gs[n])
  <2> HIDE DEF gs
  <2> QED
    BY <1>1, ConsolidatingIs
<1>5. ConsolidatesTo(fs, N, c)
  BY Deduplicates DEF DeduplicateFindings
<1> HIDE DEF N, gs, m, h, c
<1>6. \A n \in 0 .. N : n \in S
  <2>1. 0 \in S
    BY <1>1, <1>3, <1>4
  <2>2. ASSUME NEW n \in 0 .. N - 1, n \in S PROVE n + 1 \in S
    <3>1. n + 1 \in 1 .. N /\ n + 1 \in 1 .. N + N /\ (n + 1) - 1 = n /\ n + 1 \in 0 .. N
      BY <1>1
    <3>2. h[n + 1] = Consolidate(h[n], fs[n + 1]) /\ m[n + 1] = Consolidate(m[n], fs[n + 1])
      BY <1>2, <1>3, <1>4, <3>1
    <3> QED
      BY <2>2, <3>1, <3>2
  <2> HIDE DEF S
  <2> QED
    BY <1>1, <2>1, <2>2, UpTo
<1>7. \A n \in 0 .. N : n \in T
  <2>1. 0 \in T
    <3>1. N \in 0 .. N /\ N + 0 = N /\ 0 \in 0 .. N
      BY <1>1
    <3> QED
      BY <1>6, <3>1 DEF c
  <2>2. ASSUME NEW n \in 0 .. N - 1, n \in T PROVE n + 1 \in T
    <3>1. n + 1 \in 1 .. N /\ N + (n + 1) \in 1 .. N + N /\ (N + (n + 1)) - 1 = N + n /\ n + 1 \in 0 .. N
      BY <1>1
    <3>2. h[N + (n + 1)] = Consolidate(h[N + n], fs[n + 1])
      BY <1>2, <1>4, <3>1
    <3>3. Consolidate(c, fs[n + 1]) = c
      BY <1>5, <3>1, ConsolidateAbsorbs DEF N
    <3> QED
      BY <2>2, <3>1, <3>2, <3>3
  <2> HIDE DEF T
  <2> QED
    BY <1>1, <2>1, <2>2, UpTo
<1>8. h[N + N] = c
  <2>1. N \in 0 .. N
    BY <1>1
  <2> QED
    BY <1>7, <2>1
<1> QED
  BY <1>1, <1>8 DEF DeduplicateFindings, gs, h, c, m, N

-----------------------------------------------------------------------------
(* The sequences that the correlations are made of *)

\* The items of two sequences.
LEMMA ConcatItems ==
  ASSUME NEW E, NEW s \in Seq(E), NEW t \in Seq(E)
  PROVE  s \o t \in Seq(E) /\ ToSet(s \o t) = ToSet(s) \cup ToSet(t)
<1> DEFINE u == s \o t
           L == Len(s)
           M == Len(t)
<1>1. /\ u \in Seq(E) /\ Len(u) = L + M
      /\ \A i \in 1 .. L + M : u[i] = IF i <= L THEN s[i] ELSE t[i - L]
  BY ConcatProperties
<1>2. L \in Nat /\ M \in Nat
  BY LenProperties
<1>3. /\ \A e : e \in ToSet(s) <=> \E i \in 1 .. L : s[i] = e
      /\ \A e : e \in ToSet(t) <=> \E i \in 1 .. M : t[i] = e
  BY ItemsOf
<1> HIDE DEF u, L, M
<1>4. \A e : e \in ToSet(u) <=> \E i \in 1 .. L + M : u[i] = e
  BY <1>1, ItemsOf
<1>5. ASSUME NEW i \in 1 .. L + M PROVE u[i] \in ToSet(s) \cup ToSet(t)
  <2>1. CASE i <= L
    <3>1. i \in 1 .. L /\ u[i] = s[i]
      BY <1>1, <1>2, <2>1
    <3> QED
      BY <1>3, <3>1
  <2>2. CASE ~(i <= L)
    <3>1. i - L \in 1 .. M /\ u[i] = t[i - L]
      BY <1>1, <1>2, <2>2
    <3> QED
      BY <1>3, <3>1
  <2> QED
    BY <2>1, <2>2
<1>6. ASSUME NEW i \in 1 .. L PROVE s[i] \in ToSet(u)
  <2>1. i \in 1 .. L + M /\ i <= L
    BY <1>2
  <2>2. u[i] = s[i]
    BY <1>1, <2>1
  <2> QED
    BY <1>4, <2>1, <2>2
<1>7. ASSUME NEW i \in 1 .. M PROVE t[i] \in ToSet(u)
  <2>1. L + i \in 1 .. L + M /\ ~(L + i <= L) /\ (L + i) - L = i
    BY <1>2
  <2>2. u[L + i] = t[i]
    BY <1>1, <2>1
  <2> QED
    BY <1>4, <2>1, <2>2
<1>8. ToSet(u) = ToSet(s) \cup ToSet(t)
  BY <1>3, <1>4, <1>5, <1>6, <1>7
<1> QED
  BY <1>1, <1>8 DEF u

\* Concatenated sequences have the items of all of them.
LEMMA FlattenFacts ==
  ASSUME NEW E, NEW ss \in Seq(Seq(E))
  PROVE  /\ FlattenSeq(ss) \in Seq(E)
         /\ ToSet(FlattenSeq(ss)) = UNION {ToSet(ss[i]) : i \in 1 .. Len(ss)}
<1> DEFINE N == Len(ss)
           R == Seq(E)
           P(f) == f = [i \in 1 .. N |-> IF i = 1 THEN ss[i] ELSE f[i - 1] \o ss[i]]
           g == [x \in R \X (1 .. N) |-> x[1] \o ss[x[2]]]
<1>1. N \in Nat /\ (\A n \in 1 .. N : ss[n] \in R) /\ <<>> \in R
  BY LenProperties, ElementOfSeq, EmptySeq
<1>2. CASE N = 0
  <2>1. ss = <<>> /\ FlattenSeq(ss) = ss
    BY <1>2, EmptySeq DEF FlattenSeq
  <2>2. 1 .. Len(ss) = {} /\ ToSet(ss) = {}
    BY <1>1, <1>2 DEF ToSet
  <2> QED
    BY <1>1, <2>1, <2>2
<1>3. CASE N # 0
  <2>1. \A s, t \in R : s \o t \in R
    BY ConcatProperties
  <2>2. g \in Steps(R, N) /\ \A s \in R, n \in 1 .. N : g[<<s, n>>] = s \o ss[n]
    <3> HIDE DEF N, R
    <3> QED
      BY <1>1, <2>1 DEF Steps
  <2>3. PICK f : GoesOnBy(f, R, <<>>, N, g)
    <3> HIDE DEF g, N, R
    <3> QED
      BY <1>1, <2>2, Recursion
  <2> DEFINE k == [i \in 1 .. N |-> f[i]]
  <2>4. P(k)
    <3>1. \A s \in R : <<>> \o s = s
      BY ConcatEmptySeq
    <3> HIDE DEF g, N, R
    <3>2. f \in [0 .. N -> R] /\ f[0] = <<>>
      BY <2>3 DEF GoesOnBy
    <3>3. ASSUME NEW n \in 1 .. N PROVE f[n] = IF n = 1 THEN ss[n] ELSE k[n - 1] \o ss[n]
      <4>1. n - 1 \in 0 .. N /\ f[n - 1] \in R /\ f[n] = g[<<f[n - 1], n>>]
        BY <1>1, <2>3, <3>2 DEF GoesOnBy
      <4>2. f[n] = f[n - 1] \o ss[n]
        BY <2>2, <4>1
      <4>3. CASE n = 1
        <5>1. f[n - 1] = <<>> /\ ss[n] \in R
          BY <1>1, <3>2, <4>3
        <5> QED
          BY <3>1, <4>2, <4>3, <5>1
      <4>4. CASE n # 1
        <5>1. n - 1 \in 1 .. N
          BY <1>1, <4>4
        <5> QED
          BY <4>2, <4>4, <5>1
      <4> QED
        BY <4>3, <4>4
    <3>4. k = [i \in 1 .. N |-> IF i = 1 THEN ss[i] ELSE k[i - 1] \o ss[i]]
      BY <3>3
    <3> QED
      BY <3>4
  <2> DEFINE m == CHOOSE h : P(h)
  <2>5. FlattenSeq(ss) = m[N]
    BY <1>3 DEF FlattenSeq
  <2>6. P(m)
    <3> HIDE DEF P, k
    <3> QED
      BY <2>4
  <2> HIDE DEF m, N, R
  <2>7. 1 \in 1 .. N /\ N \in 1 .. N
    BY <1>1, <1>3
  <2>8. m[1] = ss[1] /\ \A n \in 1 .. N : n # 1 => m[n] = m[n - 1] \o ss[n]
    BY <2>6, <2>7
  <2> DEFINE Items(n) == UNION {ToSet(ss[i]) : i \in 1 .. n}
             Right(n) == m[n] \in R /\ ToSet(m[n]) = Items(n)
             S == {n \in 0 .. N : n # 0 => Right(n)}
  <2>9. ASSUME NEW n \in 0 .. N - 1, n \in S PROVE n + 1 \in S
    <3>1. CASE n = 0
      <4>1. Items(1) = ToSet(ss[1])
        OBVIOUS
      <4> QED
        BY <1>1, <2>7, <2>8, <3>1, <4>1
    <3>2. CASE n # 0
      <4> DEFINE s == m[n]
                 t == ss[n + 1]
      <4>1. n + 1 \in 1 .. N /\ n \in 1 .. N /\ n + 1 # 1 /\ (n + 1) - 1 = n
        BY <1>1, <3>2
      <4>2. s \in R /\ ToSet(s) = Items(n) /\ t \in R
        BY <1>1, <2>9, <3>2, <4>1
      <4>3. m[n + 1] = s \o t
        BY <2>8, <4>1
      <4>4. Items(n + 1) = Items(n) \cup ToSet(t)
        <5>1. 1 .. n + 1 = (1 .. n) \cup {n + 1}
          BY <4>1
        <5> QED
          BY <5>1
      <4> HIDE DEF s, t, Items
      <4>5. s \o t \in R /\ ToSet(s \o t) = ToSet(s) \cup ToSet(t)
        BY <4>2, ConcatItems DEF R
      <4>6. Right(n + 1)
        BY <4>2, <4>3, <4>4, <4>5
      <4> QED
        BY <4>1, <4>6
    <3> QED
      BY <3>1, <3>2
  <2>10. N \in S
    <3>1. 0 \in S
      BY <1>1
    <3> HIDE DEF S
    <3>2. \A n \in 0 .. N : n \in S
      BY <1>1, <2>9, <3>1, UpTo
    <3> QED
      BY <2>7, <3>2
  <2> QED
    BY <1>3, <2>5, <2>10 DEF R, N
<1> QED
  BY <1>2, <1>3

\* The function that OfTypes runs through satisfies its equation.
LEMMA PickingIs ==
  ASSUME NEW E, NEW evs \in Seq(E), NEW types
  PROVE  /\ Picking(evs, types) \in [0 .. Len(evs) -> Seq(E)]
         /\ Picking(evs, types)[0] = <<>>
         /\ \A n \in 1 .. Len(evs) :
              Picking(evs, types)[n] =
                IF evs[n].fact.type \in types
                THEN Append(Picking(evs, types)[n - 1], evs[n])
                ELSE Picking(evs, types)[n - 1]
<1> DEFINE N == Len(evs)
           R == Seq(E)
           Op(s, n) == IF evs[n].fact.type \in types THEN Append(s, evs[n]) ELSE s
           P(f) == f = [n \in 0 .. N |-> IF n = 0 THEN <<>> ELSE Op(f[n - 1], n)]
           g == [x \in R \X (1 .. N) |-> Op(x[1], x[2])]
<1>1. N \in Nat /\ (\A n \in 1 .. N : evs[n] \in E) /\ <<>> \in R
  BY LenProperties, ElementOfSeq, EmptySeq
<1>2. \A s \in R, n \in 1 .. N : Op(s, n) \in R
  BY <1>1, AppendProperties
<1> DEFINE m == Picking(evs, types)
<1>3. m = CHOOSE h : P(h)
  <2>1. \A f : P(f) <=> f = [n \in 0 .. N |-> IF n = 0 THEN <<>>
                              ELSE IF evs[n].fact.type \in types THEN Append(f[n - 1], evs[n])
                              ELSE f[n - 1]]
    OBVIOUS
  <2> QED
    BY DEF Picking
<1> HIDE DEF Op
<1>4. g \in Steps(R, N) /\ \A s \in R, n \in 1 .. N : g[<<s, n>>] = Op(s, n)
  <2> HIDE DEF N, R
  <2> QED
    BY <1>1, <1>2 DEF Steps
<1>5. PICK f : GoesOnBy(f, R, <<>>, N, g)
  <2> HIDE DEF g, N, R
  <2> QED
    BY <1>1, <1>4, Recursion
<1>6. P(f)
  <2> HIDE DEF g, N, R
  <2>1. f \in [0 .. N -> R] /\ f[0] = <<>>
    BY <1>5 DEF GoesOnBy
  <2>2. ASSUME NEW n \in 1 .. N PROVE f[n] = Op(f[n - 1], n)
    <3>1. n - 1 \in 0 .. N /\ f[n - 1] \in R /\ f[n] = g[<<f[n - 1], n>>]
      BY <1>1, <1>5, <2>1 DEF GoesOnBy
    <3> QED
      BY <1>4, <3>1
  <2>3. \A n \in 0 .. N : f[n] = IF n = 0 THEN <<>> ELSE Op(f[n - 1], n)
    BY <1>1, <2>1, <2>2
  <2> QED
    BY <2>1, <2>3
<1>7. P(m)
  <2> HIDE DEF P, m
  <2> QED
    BY <1>3, <1>6
<1> HIDE DEF m, N, R
<1>8. m[0] = <<>> /\ \A n \in 1 .. N : m[n] = Op(m[n - 1], n)
  BY <1>1, <1>7
<1> DEFINE S == {k \in 0 .. N : m[k] \in R}
<1>9. 0 \in S
  BY <1>1, <1>8
<1>10. ASSUME NEW n \in 0 .. N - 1, n \in S PROVE n + 1 \in S
  <2>1. n + 1 \in 1 .. N /\ (n + 1) - 1 = n /\ m[n] \in R
    BY <1>1, <1>10
  <2>2. m[n + 1] = Op(m[n], n + 1)
    BY <1>8, <2>1
  <2> QED
    BY <1>1, <1>2, <2>1, <2>2
<1>11. \A n \in 0 .. N : n \in S
  <2> HIDE DEF S
  <2> QED
    BY <1>1, <1>9, <1>10, UpTo
<1>12. m \in [0 .. N -> R]
  BY <1>7, <1>11
<1> QED
  BY <1>8, <1>12 DEF m, N, R, Op

\* OfTypes picks the items of the types.
LEMMA OfTypesFacts ==
  ASSUME NEW E, NEW evs \in Seq(E), NEW types
  PROVE  /\ OfTypes(evs, types) \in Seq(E)
         /\ ToSet(OfTypes(evs, types)) = {e \in ToSet(evs) : e.fact.type \in types}
<1> DEFINE N == Len(evs)
           R == Seq(E)
           m == Picking(evs, types)
           Items(n) == {e \in {evs[k] : k \in 1 .. n} : e.fact.type \in types}
           S == {n \in 0 .. N : ToSet(m[n]) = Items(n)}
<1>1. /\ m \in [0 .. N -> R] /\ m[0] = <<>>
      /\ \A n \in 1 .. N : m[n] = IF evs[n].fact.type \in types
                                  THEN Append(m[n - 1], evs[n]) ELSE m[n - 1]
  BY PickingIs
<1>2. /\ N \in Nat /\ (\A n \in 1 .. N : evs[n] \in E)
      /\ ToSet(evs) = {evs[k] : k \in 1 .. N} /\ ToSet(<<>>) = {}
  BY LenProperties, ElementOfSeq DEF ToSet
<1>3. \A s \in R, e \in E : ToSet(Append(s, e)) = ToSet(s) \cup {e}
  <2> TAKE s \in R, e \in E
  <2> DEFINE a == Append(s, e)
  <2>1. /\ a \in Seq(E) /\ Len(a) = Len(s) + 1 /\ a[Len(s) + 1] = e
        /\ \A i \in 1 .. Len(s) : a[i] = s[i]
    BY AppendProperties
  <2>2. DOMAIN s = 1 .. Len(s) /\ DOMAIN a = 1 .. Len(s) + 1 /\ Len(s) \in Nat
    BY <2>1, LenProperties
  <2> HIDE DEF a
  <2>3. ToSet(a) = ToSet(s) \cup {e}
    BY <2>1, <2>2 DEF ToSet
  <2> QED
    BY <2>3 DEF a
<1> HIDE DEF m, N, R
<1>4. 0 \in S
  BY <1>1, <1>2
<1>5. ASSUME NEW n \in 0 .. N - 1, n \in S PROVE n + 1 \in S
  <2> DEFINE e == evs[n + 1]
             s == m[n]
  <2>1. n + 1 \in 1 .. N /\ (n + 1) - 1 = n /\ n \in 0 .. N /\ n + 1 \in 0 .. N
    BY <1>2
  <2>2. s \in R /\ e \in E /\ ToSet(s) = Items(n)
    BY <1>1, <1>2, <1>5, <2>1
  <2>3. m[n + 1] = IF e.fact.type \in types THEN Append(s, e) ELSE s
    BY <1>1, <2>1
  <2>4. Items(n + 1) = Items(n) \cup (IF e.fact.type \in types THEN {e} ELSE {})
    <3>1. 1 .. n + 1 = (1 .. n) \cup {n + 1}
      BY <2>1
    <3> QED
      BY <3>1
  <2> HIDE DEF e, s, Items
  <2>5. ToSet(m[n + 1]) = Items(n + 1)
    <3>1. ToSet(Append(s, e)) = ToSet(s) \cup {e}
      BY <1>3, <2>2
    <3> QED
      BY <2>2, <2>3, <2>4, <3>1
  <2> QED
    BY <2>1, <2>5
<1>6. N \in S
  <2> HIDE DEF S
  <2>1. \A n \in 0 .. N : n \in S
    BY <1>2, <1>4, <1>5, UpTo
  <2> QED
    BY <1>2, <2>1
<1>7. m[N] \in R /\ ToSet(m[N]) = {e \in ToSet(evs) : e.fact.type \in types}
  BY <1>1, <1>2, <1>6
<1> QED
  BY <1>7 DEF OfTypes, m, N, R

\* The sequence made of a finite set.
LEMMA SetToSeqFacts ==
  ASSUME NEW S, IsFiniteSet(S)
  PROVE  /\ SetToSeq(S) \in Seq(S) /\ ToSet(SetToSeq(S)) = S
         /\ Len(SetToSeq(S)) = Cardinality(S) /\ IsInjective(SetToSeq(S))
<1> DEFINE n == Cardinality(S)
           s == SetToSeq(S)
<1>1. n \in Nat /\ ExistsBijection(1 .. n, S)
  BY FS_CardinalityType
<1>2. PICK b : b \in Bijection(1 .. n, S)
  BY <1>1 DEF ExistsBijection
<1>3. b \in [1 .. n -> S] /\ IsInjective(b)
  BY <1>2 DEF Bijection, Injection, IsInjective
<1>4. s \in [1 .. n -> S] /\ IsInjective(s)
  <2>1. \E f \in [1 .. n -> S] : IsInjective(f)
    BY <1>3
  <2> HIDE DEF n
  <2> QED
    BY <2>1 DEF SetToSeq, n
<1>5. IsFiniteSet(1 .. n) /\ Cardinality(1 .. n) = n
  BY <1>1, FS_Interval
<1>6. s \in Injection(1 .. n, S)
  BY <1>4 DEF Injection, IsInjective
<1>7. s \in Surjection(1 .. n, S)
  <2> HIDE DEF s
  <2> QED
    BY <1>5, <1>6, FS_Injection
<1>8. s \in Seq(S) /\ Len(s) = n
  BY <1>1, <1>4, SeqDef, LenProperties
<1>9. ToSet(s) = S
  BY <1>4, <1>7 DEF Surjection, ToSet
<1> QED
  BY <1>4, <1>8, <1>9

-----------------------------------------------------------------------------
(* Confidences of the correlations *)

\* The function that Product runs through satisfies its equation.
LEMMA MultiplyingIs ==
  ASSUME NEW ns \in Seq(Nat)
  PROVE  /\ Multiplying(ns) \in [0 .. Len(ns) -> Nat]
         /\ Multiplying(ns)[0] = 1
         /\ \A n \in 1 .. Len(ns) : Multiplying(ns)[n] = Multiplying(ns)[n - 1] * ns[n]
<1> DEFINE N == Len(ns)
           P(f) == f = [n \in 0 .. N |-> IF n = 0 THEN 1 ELSE f[n - 1] * ns[n]]
           g == [x \in Nat \X (1 .. N) |-> x[1] * ns[x[2]]]
<1>1. N \in Nat /\ (\A n \in 1 .. N : ns[n] \in Nat)
  BY LenProperties, ElementOfSeq
<1>2. \A a, b \in Nat : a * b \in Nat
  OBVIOUS
<1>3. g \in Steps(Nat, N) /\ \A a \in Nat, n \in 1 .. N : g[<<a, n>>] = a * ns[n]
  <2> HIDE DEF N
  <2> QED
    BY <1>1, <1>2 DEF Steps
<1>4. PICK f : GoesOnBy(f, Nat, 1, N, g)
  <2> HIDE DEF g, N
  <2> QED
    BY <1>1, <1>3, Recursion
<1>5. P(f)
  <2> HIDE DEF g, N
  <2>1. f \in [0 .. N -> Nat] /\ f[0] = 1
    BY <1>4 DEF GoesOnBy
  <2>2. ASSUME NEW n \in 1 .. N PROVE f[n] = f[n - 1] * ns[n]
    <3>1. n - 1 \in 0 .. N /\ f[n - 1] \in Nat /\ f[n] = g[<<f[n - 1], n>>]
      BY <1>1, <1>4, <2>1 DEF GoesOnBy
    <3> QED
      BY <1>3, <3>1
  <2>3. \A n \in 0 .. N : f[n] = IF n = 0 THEN 1 ELSE f[n - 1] * ns[n]
    BY <1>1, <2>1, <2>2
  <2> QED
    BY <2>1, <2>3
<1> DEFINE m == Multiplying(ns)
<1>6. m = CHOOSE h : P(h)
  BY DEF Multiplying
<1>7. P(m)
  <2> HIDE DEF P, m
  <2> QED
    BY <1>5, <1>6
<1> HIDE DEF m, N
<1>8. m[0] = 1 /\ \A n \in 1 .. N : m[n] = m[n - 1] * ns[n]
  BY <1>1, <1>7
<1> DEFINE S == {k \in 0 .. N : m[k] \in Nat}
<1>9. 0 \in S
  BY <1>1, <1>8
<1>10. ASSUME NEW n \in 0 .. N - 1, n \in S PROVE n + 1 \in S
  <2>1. n + 1 \in 1 .. N /\ (n + 1) - 1 = n /\ m[n] \in Nat
    BY <1>1, <1>10
  <2>2. m[n + 1] = m[n] * ns[n + 1] /\ ns[n + 1] \in Nat
    BY <1>1, <1>8, <2>1
  <2> QED
    BY <1>1, <1>2, <2>1, <2>2
<1>11. \A n \in 0 .. N : n \in S
  <2> HIDE DEF S
  <2> QED
    BY <1>1, <1>9, <1>10, UpTo
<1>12. m \in [0 .. N -> Nat]
  BY <1>7, <1>11
<1> QED
  BY <1>8, <1>12 DEF m, N

LEMMA Times ==
  ASSUME NEW a \in Nat, NEW b \in Nat, NEW c \in Nat, NEW d \in Nat, a <= b, c <= d
  PROVE  a * c \in Nat /\ b * d \in Nat /\ a * c <= b * d
<1>1. a * c <= b * c
  OBVIOUS
<1>2. b * c <= b * d
  OBVIOUS
<1> QED
  BY <1>1, <1>2

\* A product of smaller factors is smaller.
LEMMA ProductMonotone ==
  ASSUME NEW ns \in Seq(Nat), NEW ms \in Seq(Nat), Len(ns) = Len(ms),
         \A i \in 1 .. Len(ns) : ns[i] <= ms[i]
  PROVE  Product(ns) \in Nat /\ Product(ms) \in Nat /\ Product(ns) <= Product(ms)
<1> DEFINE N == Len(ns)
           p == Multiplying(ns)
           q == Multiplying(ms)
           S == {n \in 0 .. N : p[n] <= q[n]}
<1>1. /\ N \in Nat /\ \A i \in 1 .. N : ns[i] \in Nat /\ ms[i] \in Nat /\ ns[i] <= ms[i]
      /\ N = Len(ms)
  BY LenProperties, ElementOfSeq
<1>2. /\ p \in [0 .. N -> Nat] /\ p[0] = 1 /\ \A n \in 1 .. N : p[n] = p[n - 1] * ns[n]
      /\ q \in [0 .. N -> Nat] /\ q[0] = 1 /\ \A n \in 1 .. N : q[n] = q[n - 1] * ms[n]
  BY <1>1, MultiplyingIs
<1> HIDE DEF p, q, N
<1>3. 0 \in S
  BY <1>1, <1>2
<1>4. ASSUME NEW n \in 0 .. N - 1, n \in S PROVE n + 1 \in S
  <2> DEFINE a == p[n]  b == q[n]  c == ns[n + 1]  d == ms[n + 1]
  <2>1. n + 1 \in 1 .. N /\ (n + 1) - 1 = n /\ n \in 0 .. N /\ n + 1 \in 0 .. N
    BY <1>1
  <2>2. a \in Nat /\ b \in Nat /\ c \in Nat /\ d \in Nat /\ a <= b /\ c <= d
    BY <1>1, <1>2, <1>4, <2>1
  <2>3. p[n + 1] = a * c /\ q[n + 1] = b * d
    BY <1>2, <2>1
  <2> HIDE DEF a, b, c, d
  <2>4. a * c <= b * d
    BY <2>2, Times
  <2>5. p[n + 1] <= q[n + 1]
    BY <2>3, <2>4
  <2> QED
    BY <2>1, <2>5
<1>5. N \in S
  <2> HIDE DEF S
  <2>1. \A n \in 0 .. N : n \in S
    BY <1>1, <1>3, <1>4, UpTo
  <2> QED
    BY <1>1, <2>1
<1> QED
  BY <1>1, <1>2, <1>5 DEF Product, p, q, N

\* Weights, in twentieths, do not make certain.
Weights == 1 .. 19

\* The numbers the confidence is made of.
Scale(ws) == Product([i \in DOMAIN ws |-> 20])
Doubt(ws) == Product([i \in DOMAIN ws |-> 20 - ws[i]])

LEMMA WeightedConfidenceType ==
  ASSUME NEW ws \in Seq(Weights)
  PROVE  /\ WeightedConfidence(ws) \in 0 .. 99
         /\ Scale(ws) \in Nat \ {0} /\ Doubt(ws) \in Nat /\ Doubt(ws) <= Scale(ws)
<1> DEFINE N == Len(ws)
           twenties == [i \in DOMAIN ws |-> 20]
           doubts == [i \in DOMAIN ws |-> 20 - ws[i]]
           ones == [i \in 1 .. N |-> 1]
           scale == Product(twenties)
           doubt == Product(doubts)
<1>1. N \in Nat /\ DOMAIN ws = 1 .. N /\ \A i \in 1 .. N : ws[i] \in 1 .. 19
  BY LenProperties, ElementOfSeq DEF Weights
<1>2. /\ twenties \in Seq(Nat) /\ Len(twenties) = N /\ \A i \in 1 .. N : twenties[i] = 20
      /\ doubts \in Seq(Nat) /\ Len(doubts) = N /\ \A i \in 1 .. N : doubts[i] = 20 - ws[i]
      /\ ones \in Seq(Nat) /\ Len(ones) = N /\ \A i \in 1 .. N : ones[i] = 1
  <2>1. twenties \in [1 .. N -> Nat]
    BY <1>1
  <2>2. doubts \in [1 .. N -> Nat]
    <3>1. \A i \in 1 .. N : 20 - ws[i] \in Nat
      <4> TAKE i \in 1 .. N
      <4>1. ws[i] \in 1 .. 19
        BY <1>1
      <4> HIDE <1>1
      <4> QED
        BY <4>1
    <3> QED
      BY <1>1, <3>1
  <2>3. ones \in [1 .. N -> Nat]
    OBVIOUS
  <2> QED
    BY <1>1, <2>1, <2>2, <2>3, SeqDef, LenProperties
<1>3. scale \in Nat /\ doubt \in Nat /\ doubt <= scale
  <2> HIDE DEF twenties, doubts
  <2>1. ASSUME NEW i \in 1 .. N PROVE doubts[i] <= twenties[i]
    <3>1. doubts[i] = 20 - ws[i] /\ twenties[i] = 20 /\ ws[i] \in 1 .. 19
      BY <1>1, <1>2
    <3> QED
      BY <3>1
  <2> QED
    BY <1>2, <2>1, ProductMonotone
<1>4. scale >= 1
  <2>1. Product(ones) = 1
    <3> DEFINE p == Multiplying(ones)
               S == {n \in 0 .. N : p[n] = 1}
    <3> HIDE DEF ones
    <3>1. p[0] = 1 /\ \A n \in 1 .. N : p[n] = p[n - 1] * ones[n]
      BY <1>2, MultiplyingIs
    <3> HIDE DEF p
    <3>2. 0 \in S
      BY <1>1, <3>1
    <3>3. ASSUME NEW n \in 0 .. N - 1, n \in S PROVE n + 1 \in S
      <4>1. n + 1 \in 1 .. N /\ (n + 1) - 1 = n /\ n + 1 \in 0 .. N
        BY <1>1
      <4>2. p[n + 1] = 1 * 1
        BY <1>2, <3>1, <3>3, <4>1
      <4> QED
        BY <4>1, <4>2
    <3>4. \A n \in 0 .. N : n \in S
      <4> HIDE DEF S, N
      <4> QED
        BY <1>1, <3>2, <3>3, UpTo
    <3>5. N \in 0 .. N
      BY <1>1
    <3> QED
      BY <1>2, <3>4, <3>5 DEF Product, p
  <2>2. \A i \in 1 .. N : ones[i] <= twenties[i]
    BY <1>2
  <2> HIDE DEF twenties, ones
  <2> QED
    BY <1>2, <1>3, <2>1, <2>2, ProductMonotone
<1> DEFINE conf == (100 * (scale - doubt) + scale \div 2) \div scale
<1>5. conf \in Nat
  <2> HIDE DEF scale, doubt
  <2>1. scale \div 2 \in Nat
    BY <1>3
  <2>2. 100 * (scale - doubt) \in Nat
    BY <1>3
  <2> DEFINE a == 100 * (scale - doubt) + scale \div 2
  <2>3. a \in Nat
    BY <2>1, <2>2
  <2> HIDE DEF a
  <2>4. a \div scale \in Nat
    BY <1>3, <1>4, <2>3
  <2> QED
    BY <2>4 DEF a
<1>6. WeightedConfidence(ws) = IF ws = <<>> THEN 0 ELSE IF conf > 99 THEN 99 ELSE conf
  BY DEF WeightedConfidence
<1> HIDE DEF conf
<1>7. WeightedConfidence(ws) \in 0 .. 99
  BY <1>5, <1>6
<1>8. Scale(ws) = scale /\ Doubt(ws) = doubt
  BY DEF Scale, Doubt
<1> HIDE DEF scale, doubt
<1>9. Scale(ws) \in Nat \ {0} /\ Doubt(ws) \in Nat /\ Doubt(ws) <= Scale(ws)
  BY <1>3, <1>4, <1>8
<1> QED
  BY <1>7, <1>9

LEMMA ImageFinite ==
  ASSUME NEW S, IsFiniteSet(S), NEW f, DOMAIN f = S
  PROVE  IsFiniteSet({f[x] : x \in S})
<1> DEFINE T == {f[x] : x \in S}
           g == [x \in S |-> f[x]]
<1>1. g \in Surjection(S, T)
  BY DEF Surjection
<1> HIDE DEF g, T
<1>2. IsFiniteSet(T)
  BY <1>1, FS_Surjection
<1> QED
  BY <1>2 DEF T

LEMMA ToSetFinite ==
  ASSUME NEW E, NEW s \in Seq(E)
  PROVE  IsFiniteSet(ToSet(s))
<1>1. Len(s) \in Nat /\ DOMAIN s = 1 .. Len(s)
  BY LenProperties
<1>2. IsFiniteSet(1 .. Len(s))
  BY <1>1, FS_Interval
<1>3. IsFiniteSet({s[i] : i \in 1 .. Len(s)})
  <2> DEFINE D == 1 .. Len(s)
  <2>1. IsFiniteSet(D) /\ DOMAIN s = D
    BY <1>1, <1>2
  <2> HIDE DEF D
  <2>2. IsFiniteSet({s[i] : i \in D})
    BY <2>1, ImageFinite
  <2> QED
    BY <2>2 DEF D
<1> QED
  BY <1>1, <1>3 DEF ToSet

LEMMA EvidenceWeightType ==
  ASSUME NEW type
  PROVE  EvidenceWeight(type) \in Weights
BY DEF EvidenceWeight, Weights

LEMMA TypeWeightsFacts ==
  ASSUME NEW types, IsFiniteSet(types)
  PROVE  /\ TypeWeights(types) \in Seq(Weights)
         /\ Len(TypeWeights(types)) = Cardinality(types)
         /\ \A i \in 1 .. Cardinality(types) :
              TypeWeights(types)[i] = EvidenceWeight(SetToSeq(types)[i])
<1> DEFINE ts == SetToSeq(types)
           n == Len(ts)
           ws == [i \in DOMAIN ts |-> EvidenceWeight(ts[i])]
<1>1. ts \in Seq(types) /\ n = Cardinality(types)
  BY SetToSeqFacts
<1>2. n \in Nat /\ DOMAIN ts = 1 .. n
  BY <1>1, LenProperties
<1>3. ws \in [1 .. n -> Weights]
  BY <1>2, EvidenceWeightType
<1>4. ws \in Seq(Weights) /\ Len(ws) = n
  <2> HIDE DEF ws, n
  <2> QED
    BY <1>2, <1>3, SeqDef, LenProperties
<1>5. \A i \in 1 .. n : ws[i] = EvidenceWeight(ts[i])
  BY <1>2
<1>6. TypeWeights(types) = ws
  BY DEF TypeWeights
<1> HIDE DEF ws, ts
<1> QED
  BY <1>1, <1>4, <1>5, <1>6 DEF ts

-----------------------------------------------------------------------------
(* The correlated findings *)

\* All evidence of findings, as a set.
Items(fs) == UNION {ToSet(fs[i].evidence) : i \in 1 .. Len(fs)}

LEMMA AllEvidenceFacts ==
  ASSUME NEW fs \in Seq(Finding)
  PROVE  /\ AllEvidence(fs) \in Seq(Evidence)
         /\ ToSet(AllEvidence(fs)) = Items(fs)
         /\ TypesOf(fs) = {e.fact.type : e \in Items(fs)}
<1> DEFINE N == Len(fs)
           ss == [i \in DOMAIN fs |-> fs[i].evidence]
<1>1. N \in Nat /\ DOMAIN fs = 1 .. N /\ \A i \in 1 .. N : fs[i].evidence \in Seq(Evidence)
  BY LenProperties, ElementOfSeq, FindingFields
<1>2. ss \in [1 .. N -> Seq(Evidence)] /\ \A i \in 1 .. N : ss[i] = fs[i].evidence
  BY <1>1
<1>3. ss \in Seq(Seq(Evidence)) /\ Len(ss) = N
  <2> HIDE DEF ss, N
  <2> QED
    BY <1>1, <1>2, SeqDef, LenProperties
<1> HIDE DEF ss
<1>4. /\ FlattenSeq(ss) \in Seq(Evidence)
      /\ ToSet(FlattenSeq(ss)) = UNION {ToSet(ss[i]) : i \in 1 .. Len(ss)}
  BY <1>3, FlattenFacts
<1>5. UNION {ToSet(ss[i]) : i \in 1 .. Len(ss)} = Items(fs)
  BY <1>2, <1>3 DEF Items
<1>6. AllEvidence(fs) = FlattenSeq(ss)
  BY DEF AllEvidence, ss
<1> QED
  BY <1>4, <1>5, <1>6 DEF TypesOf

\* What infrastructureCorrelations makes of the types of all evidence.
Infra002Confidence(types) ==
  WeightedConfidence(
    <<EvidenceWeight("ip")>> \o TypeWeights(types \cap {"fingerprint", "tls", "hostname"}))

LEMMA FewTypes ==
  ASSUME NEW T
  PROVE  IsFiniteSet(T \cap {"fingerprint", "tls", "hostname"})
<1> DEFINE three == {"fingerprint", "tls", "hostname"}
<1>1. IsFiniteSet({"fingerprint"}) /\ IsFiniteSet({"tls"}) /\ IsFiniteSet({"hostname"})
  BY FS_Singleton
<1>2. IsFiniteSet({"fingerprint"} \cup {"tls"})
  BY <1>1, FS_Union
<1>3. IsFiniteSet(({"fingerprint"} \cup {"tls"}) \cup {"hostname"})
  BY <1>1, <1>2, FS_Union
<1>4. three = ({"fingerprint"} \cup {"tls"}) \cup {"hostname"}
  OBVIOUS
<1> HIDE DEF three
<1>5. IsFiniteSet(T \cap three)
  BY <1>3, <1>4, FS_Intersection
<1> QED
  BY <1>5 DEF three

LEMMA Infra002Facts ==
  ASSUME NEW fs \in Seq(Finding)
  PROVE  /\ Infra002Finding(fs) \in Finding
         /\ Infra002Finding(fs).rule = Infra002
         /\ Infra002Finding(fs).severity = High
         /\ Infra002Finding(fs).confidence = Infra002Confidence({e.fact.type : e \in Items(fs)})
         /\ ToSet(Infra002Finding(fs).evidence) = {e \in Items(fs) : e.fact.type \in {"ip"}}
<1> DEFINE T == {e.fact.type : e \in Items(fs)}
           three == {"fingerprint", "tls", "hostname"}
           ev == OfTypes(AllEvidence(fs), {"ip"})
<1>1. TypesOf(fs) = T
  BY AllEvidenceFacts
<1>2. ev \in Seq(Evidence) /\ ToSet(ev) = {e \in Items(fs) : e.fact.type \in {"ip"}}
  <2> DEFINE all == AllEvidence(fs)
  <2>1. all \in Seq(Evidence) /\ ToSet(all) = Items(fs)
    BY AllEvidenceFacts
  <2> HIDE DEF all
  <2>2. /\ OfTypes(all, {"ip"}) \in Seq(Evidence)
        /\ ToSet(OfTypes(all, {"ip"})) = {e \in ToSet(all) : e.fact.type \in {"ip"}}
    BY <2>1, OfTypesFacts
  <2> QED
    BY <2>1, <2>2 DEF all
<1>3. IsFiniteSet(T \cap three)
  BY FewTypes
<1> HIDE DEF T, three, ev
<1>4. Infra002Confidence(T) \in Percent
  <2> DEFINE ip == <<EvidenceWeight("ip")>>
             ws == TypeWeights(T \cap three)
  <2>1. ip \in Seq(Weights)
    <3>1. EvidenceWeight("ip") \in Weights
      BY EvidenceWeightType
    <3> QED
      BY <3>1
  <2>2. ws \in Seq(Weights)
    BY <1>3, TypeWeightsFacts
  <2>3. Infra002Confidence(T) = WeightedConfidence(ip \o ws)
    BY DEF Infra002Confidence, three
  <2> HIDE DEF ip, ws
  <2>4. ip \o ws \in Seq(Weights)
    BY <2>1, <2>2, ConcatProperties
  <2>5. WeightedConfidence(ip \o ws) \in 0 .. 99
    BY <2>4, WeightedConfidenceType
  <2> QED
    BY <2>3, <2>5 DEF Percent
<1>5. Infra002Finding(fs) = [rule |-> Infra002, severity |-> High,
                             confidence |-> Infra002Confidence(T), evidence |-> ev]
  BY <1>1 DEF Infra002Finding, Infra002Confidence, three, ev
<1>6. High \in Severities /\ Infra002 \in Rules \cup Correlated
  BY DEF High, Severities, Correlated
<1>7. Infra002Finding(fs) \in Finding
  BY <1>2, <1>4, <1>5, <1>6 DEF Finding
<1> QED
  BY <1>2, <1>5, <1>7 DEF T

\* The evidence analyzers give.
Observed == [fact : Facts, source : Sources]

\* Findings in which all evidence that is not of the correlation was observed.
Plain(fs) ==
  /\ fs \in Seq(Finding)
  /\ \A i \in 1 .. Len(fs) : fs[i].rule \notin Correlated => ToSet(fs[i].evidence) \subseteq Observed

\* The facts that are looked up, as a set.
OwnFacts(fs) ==
  {e.fact : e \in {d \in UNION {ToSet(fs[i].evidence) :
                                i \in {k \in 1 .. Len(fs) : fs[k].rule \notin Correlated}} :
                     d.fact.type \in CrossTypes}}

LEMMA ItemsInSeq ==
  ASSUME NEW E, NEW s \in Seq(E), NEW F, ToSet(s) \subseteq F
  PROVE  s \in Seq(F)
<1>1. Len(s) \in Nat /\ s \in [1 .. Len(s) -> E] /\ DOMAIN s = 1 .. Len(s)
  BY LenProperties
<1>2. \A i \in 1 .. Len(s) : s[i] \in F
  BY ItemsOf
<1>3. s \in [1 .. Len(s) -> F]
  BY <1>1, <1>2
<1> QED
  BY <1>1, <1>3, SeqDef

LEMMA OwnEvidenceFacts ==
  ASSUME NEW fs, Plain(fs)
  PROVE  /\ OwnEvidence(fs) \in Seq(Observed)
         /\ ToSet(OwnEvidence(fs)) =
              UNION {ToSet(fs[i].evidence) : i \in {k \in 1 .. Len(fs) : fs[k].rule \notin Correlated}}
<1> DEFINE N == Len(fs)
           ss == [i \in DOMAIN fs |-> IF fs[i].rule \in Correlated THEN <<>> ELSE fs[i].evidence]
<1>1. N \in Nat /\ DOMAIN fs = 1 .. N /\ \A i \in 1 .. N : fs[i].evidence \in Seq(Evidence)
  BY LenProperties, ElementOfSeq, FindingFields DEF Plain
<1>2. \A i \in 1 .. N : ss[i] = IF fs[i].rule \in Correlated THEN <<>> ELSE fs[i].evidence
  BY <1>1
<1>3. \A i \in 1 .. N : ss[i] \in Seq(Observed)
  <2> TAKE i \in 1 .. N
  <2>1. CASE fs[i].rule \in Correlated
    <3>1. <<>> \in Seq(Observed)
      BY EmptySeq
    <3> QED
      BY <1>2, <2>1, <3>1
  <2>2. CASE fs[i].rule \notin Correlated
    <3> DEFINE ev == fs[i].evidence
    <3>1. ev \in Seq(Evidence) /\ ToSet(ev) \subseteq Observed
      BY <1>1, <2>2 DEF Plain
    <3>2. ss[i] = ev
      BY <1>2, <2>2
    <3> HIDE DEF ev
    <3>3. ev \in Seq(Observed)
      BY <3>1, ItemsInSeq
    <3> QED
      BY <3>2, <3>3
  <2> QED
    BY <2>1, <2>2
<1>4. ss \in Seq(Seq(Observed)) /\ Len(ss) = N
  <2>1. ss \in [1 .. N -> Seq(Observed)]
    BY <1>1, <1>3
  <2> HIDE DEF ss, N
  <2> QED
    BY <1>1, <2>1, SeqDef, LenProperties
<1> HIDE DEF ss
<1>5. /\ FlattenSeq(ss) \in Seq(Observed)
      /\ ToSet(FlattenSeq(ss)) = UNION {ToSet(ss[i]) : i \in 1 .. Len(ss)}
  BY <1>4, FlattenFacts
<1>6. ToSet(<<>>) = {}
  BY DEF ToSet
<1>7. UNION {ToSet(ss[i]) : i \in 1 .. N} =
        UNION {ToSet(fs[i].evidence) : i \in {k \in 1 .. N : fs[k].rule \notin Correlated}}
  BY <1>2, <1>6
<1>8. OwnEvidence(fs) = FlattenSeq(ss)
  BY DEF OwnEvidence, ss
<1> QED
  BY <1>4, <1>5, <1>7, <1>8

LEMMA LookedUpFacts ==
  ASSUME NEW fs, Plain(fs)
  PROVE  LookedUp(fs) \in Seq(Facts) /\ ToSet(LookedUp(fs)) = OwnFacts(fs)
<1> DEFINE own == OwnEvidence(fs)
           evs == OfTypes(own, CrossTypes)
           N == Len(evs)
           facts == [i \in DOMAIN evs |-> evs[i].fact]
           none == <<>>
<1>1. /\ own \in Seq(Observed)
      /\ ToSet(own) = UNION {ToSet(fs[i].evidence) : i \in {k \in 1 .. Len(fs) : fs[k].rule \notin Correlated}}
  BY OwnEvidenceFacts
<1>2. LookedUp(fs) = MergeEvidence(none, facts)
  BY DEF LookedUp
<1> HIDE DEF own
<1>3. evs \in Seq(Observed) /\ ToSet(evs) = {e \in ToSet(own) : e.fact.type \in CrossTypes}
  BY <1>1, OfTypesFacts
<1> HIDE DEF evs
<1>4. N \in Nat /\ DOMAIN evs = 1 .. N /\ \A i \in 1 .. N : evs[i] \in Observed
  BY <1>3, LenProperties, ElementOfSeq
<1>5. facts \in [1 .. N -> Facts] /\ DOMAIN facts = 1 .. N /\ \A i \in 1 .. N : facts[i] = evs[i].fact
  BY <1>4 DEF Observed
<1>6. facts \in Seq(Facts)
  <2> HIDE DEF facts, N
  <2> QED
    BY <1>4, <1>5, SeqDef
<1>7. ToSet(facts) = {e.fact : e \in ToSet(evs)}
  BY <1>4, <1>5 DEF ToSet
<1>8. none \in Seq(Facts) /\ ToSet(none) = {}
  BY EmptySeq DEF ToSet
<1> HIDE DEF facts, none
<1>9. /\ MergeEvidence(none, facts) \in Seq(Facts)
      /\ ToSet(MergeEvidence(none, facts)) = ToSet(none) \cup ToSet(facts)
  BY <1>6, <1>8, MergeFacts
<1> QED
  BY <1>1, <1>2, <1>3, <1>7, <1>8, <1>9 DEF OwnFacts

\* The evidence that a fact is shared with the targets P.
SharedBy(f, P) ==
  {[fact |-> [type |-> f.type, description |-> <<f.description, p>>],
    source |-> CrossTarget] : p \in P}

LEMMA SharedWithFacts ==
  ASSUME NEW kn \in [Facts -> SUBSET Peers], NEW f \in Facts
  PROVE  /\ SharedWith(f, kn) \in Seq(Evidence)
         /\ ToSet(SharedWith(f, kn)) = SharedBy(f, kn[f])
<1> DEFINE ps == SetToSeq(kn[f])
           n == Len(ps)
           w == [i \in DOMAIN ps |->
                   [fact |-> [type |-> f.type, description |-> <<f.description, ps[i]>>],
                    source |-> CrossTarget]]
<1>1. ps \in Seq(kn[f]) /\ ToSet(ps) = kn[f]
  <2> DEFINE P == kn[f]
  <2>1. IsFiniteSet(P)
    <3>1. P \in SUBSET Peers
      OBVIOUS
    <3> HIDE DEF P
    <3> QED
      BY <3>1, PeersAssumption, FS_Subset
  <2> HIDE DEF P
  <2>2. SetToSeq(P) \in Seq(P) /\ ToSet(SetToSeq(P)) = P
    BY <2>1, SetToSeqFacts
  <2> QED
    BY <2>2 DEF P
<1> HIDE DEF ps
<1>2. n \in Nat /\ DOMAIN ps = 1 .. n /\ (\A i \in 1 .. n : ps[i] \in Peers)
      /\ kn[f] = {ps[i] : i \in 1 .. n}
  BY <1>1, LenProperties, ElementOfSeq DEF ToSet
<1>3. \A p \in Peers :
        [fact |-> [type |-> f.type, description |-> <<f.description, p>>],
         source |-> CrossTarget] \in Evidence
  BY DEF Evidence, SharedFacts
<1>4. /\ w \in [1 .. n -> Evidence] /\ DOMAIN w = 1 .. n
      /\ ToSet(w) = SharedBy(f, kn[f])
  <2>1. w \in [1 .. n -> Evidence]
    BY <1>2, <1>3
  <2>2. ToSet(w) = {w[i] : i \in 1 .. n}
    BY <1>2 DEF ToSet
  <2>3. {w[i] : i \in 1 .. n} = SharedBy(f, kn[f])
    BY <1>2 DEF SharedBy
  <2> QED
    BY <2>1, <2>2, <2>3
<1>5. w \in Seq(Evidence)
  <2> HIDE DEF w, n
  <2> QED
    BY <1>2, <1>4, SeqDef
<1>6. SharedWith(f, kn) = w
  BY DEF SharedWith, ps
<1> HIDE DEF w
<1> QED
  BY <1>4, <1>5, <1>6

\* The evidence that facts are shared with other targets.
SharedItems(F, kn) == UNION {SharedBy(f, kn[f]) : f \in F}

SharedPeers(E) == {e.fact.description[2] : e \in E}

\* What crossTargetCorrelations makes of the shared evidence.
Infra004Confidence(E) ==
  Maximum(75, WeightedConfidence(
    <<10>> \o TypeWeights({e.fact.type : e \in E}) \o [i \in 1 .. Cardinality(SharedPeers(E)) - 1 |-> 4]))

LEMMA Infra004ConfidenceType ==
  ASSUME NEW E, IsFiniteSet(E), E # {}
  PROVE  /\ Infra004Confidence(E) \in Percent
         /\ IsFiniteSet({e.fact.type : e \in E})
         /\ IsFiniteSet(SharedPeers(E)) /\ Cardinality(SharedPeers(E)) \in Nat \ {0}
<1> DEFINE T == {e.fact.type : e \in E}
           n == Cardinality(SharedPeers(E))
           ten == <<10>>
           ws == TypeWeights(T)
           fours == [i \in 1 .. n - 1 |-> 4]
<1>1. IsFiniteSet(T)
  <2> DEFINE f == [e \in E |-> e.fact.type]
  <2>1. T = {f[e] : e \in E} /\ DOMAIN f = E
    OBVIOUS
  <2> HIDE DEF f, T
  <2> QED
    BY <2>1, ImageFinite
<1>2. IsFiniteSet(SharedPeers(E)) /\ n \in Nat \ {0}
  <2> DEFINE f == [e \in E |-> e.fact.description[2]]
  <2>1. SharedPeers(E) = {f[e] : e \in E} /\ DOMAIN f = E
    BY DEF SharedPeers
  <2>2. SharedPeers(E) # {}
    BY DEF SharedPeers
  <2> HIDE DEF f
  <2>3. IsFiniteSet(SharedPeers(E))
    BY <2>1, ImageFinite
  <2> QED
    BY <2>2, <2>3, FS_CardinalityType, FS_EmptySet
<1> HIDE DEF T, n
<1>3. ten \in Seq(Weights)
  <2>1. 10 \in Weights
    BY DEF Weights
  <2> QED
    BY <2>1
<1>4. ws \in Seq(Weights)
  BY <1>1, TypeWeightsFacts
<1>5. fours \in Seq(Weights)
  <2>1. n - 1 \in Nat /\ fours \in [1 .. n - 1 -> Weights]
    BY <1>2 DEF Weights
  <2> HIDE DEF fours
  <2> QED
    BY <2>1, SeqDef
<1>6. Infra004Confidence(E) = Maximum(75, WeightedConfidence((ten \o ws) \o fours))
  BY DEF Infra004Confidence, T, n
<1> HIDE DEF ten, ws, fours
<1> DEFINE tw == ten \o ws
<1>7. tw \in Seq(Weights)
  BY <1>3, <1>4, ConcatProperties
<1> HIDE DEF tw
<1> DEFINE all == tw \o fours
<1>8. all \in Seq(Weights)
  BY <1>5, <1>7, ConcatProperties
<1> HIDE DEF all
<1>9. WeightedConfidence(all) \in 0 .. 99
  BY <1>8, WeightedConfidenceType
<1>10. Infra004Confidence(E) = Maximum(75, WeightedConfidence(all))
  BY <1>6 DEF all, tw
<1>11. Maximum(75, WeightedConfidence(all)) \in 0 .. 100
  BY <1>9 DEF Maximum
<1> QED
  BY <1>1, <1>2, <1>10, <1>11 DEF Percent, T, n

\* The two cases of CrossTargets.
Infra004Finding(d, E) ==
  /\ d \in Finding
  /\ d.rule = Infra004 /\ d.severity = High
  /\ d.confidence = Infra004Confidence(E)
  /\ ToSet(d.evidence) = E

LEMMA CrossTargetsCases ==
  ASSUME NEW fs, Plain(fs), NEW kn \in [Facts -> SUBSET Peers]
  PROVE  \/ /\ SharedItems(OwnFacts(fs), kn) = {}
            /\ CrossTargets(fs, kn) = fs
         \/ /\ SharedItems(OwnFacts(fs), kn) # {}
            /\ IsFiniteSet(SharedItems(OwnFacts(fs), kn))
            /\ \E d : /\ Infra004Finding(d, SharedItems(OwnFacts(fs), kn))
                      /\ CrossTargets(fs, kn) = Append(fs, d)
<1> DEFINE facts == LookedUp(fs)
           N == Len(facts)
           ss == [i \in DOMAIN facts |-> SharedWith(facts[i], kn)]
           sh == FlattenSeq(ss)
           E == SharedItems(OwnFacts(fs), kn)
           d == [rule |-> Infra004, severity |-> High,
                 confidence |-> Infra004Confidence(ToSet(sh)), evidence |-> sh]
<1>1. facts \in Seq(Facts) /\ ToSet(facts) = OwnFacts(fs)
  BY LookedUpFacts
<1>2. CrossTargets(fs, kn) = IF sh = <<>> THEN fs ELSE Append(fs, d)
  BY DEF CrossTargets, Infra004Confidence, SharedPeers
<1> HIDE DEF facts, d
<1>3. /\ N \in Nat /\ DOMAIN facts = 1 .. N /\ \A i \in 1 .. N : facts[i] \in Facts
      /\ OwnFacts(fs) = {facts[i] : i \in 1 .. N}
  BY <1>1, LenProperties, ElementOfSeq DEF ToSet
<1>4. \A i \in 1 .. N : /\ ss[i] \in Seq(Evidence)
                        /\ ToSet(ss[i]) = SharedBy(facts[i], kn[facts[i]])
  <2> TAKE i \in 1 .. N
  <2> DEFINE f == facts[i]
  <2>1. f \in Facts /\ ss[i] = SharedWith(f, kn)
    BY <1>3
  <2> HIDE DEF f, ss
  <2>2. SharedWith(f, kn) \in Seq(Evidence) /\ ToSet(SharedWith(f, kn)) = SharedBy(f, kn[f])
    BY <2>1, SharedWithFacts
  <2> QED
    BY <2>1, <2>2 DEF f
<1>5. ss \in Seq(Seq(Evidence)) /\ Len(ss) = N
  <2>1. ss \in [1 .. N -> Seq(Evidence)]
    BY <1>3, <1>4
  <2> HIDE DEF ss, N
  <2> QED
    BY <1>3, <2>1, SeqDef, LenProperties
<1> HIDE DEF ss
<1>6. sh \in Seq(Evidence) /\ ToSet(sh) = UNION {ToSet(ss[i]) : i \in 1 .. N}
  BY <1>5, FlattenFacts
<1>7. UNION {ToSet(ss[i]) : i \in 1 .. N} = E
  BY <1>3, <1>4 DEF SharedItems
<1> HIDE DEF sh, E
<1>8. IsFiniteSet(E) /\ ToSet(sh) = E /\ (sh = <<>> <=> E = {})
  <2>1. ToSet(sh) = E /\ sh \in Seq(Evidence)
    BY <1>6, <1>7
  <2>2. IsFiniteSet(ToSet(sh))
    BY <2>1, ToSetFinite
  <2>3. ToSet(sh) = {} <=> sh = <<>>
    BY <2>1, ItemsOf
  <2> QED
    BY <2>1, <2>2, <2>3
<1>9. CASE E = {}
  BY <1>2, <1>8, <1>9 DEF E
<1>10. CASE E # {}
  <2>1. d = [rule |-> Infra004, severity |-> High,
             confidence |-> Infra004Confidence(E), evidence |-> sh]
    BY <1>8 DEF d
  <2>2. Infra004Confidence(E) \in Percent
    BY <1>8, <1>10, Infra004ConfidenceType
  <2>3. High \in Severities /\ Infra004 \in Rules \cup Correlated
    BY DEF High, Severities, Correlated
  <2>4. d \in Finding
    BY <1>6, <2>1, <2>2, <2>3 DEF Finding
  <2>5. Infra004Finding(d, E)
    BY <1>8, <2>1, <2>4 DEF Infra004Finding
  <2> QED
    BY <1>2, <1>8, <1>10, <2>5 DEF E
<1> QED
  BY <1>9, <1>10

LEMMA AppendIs ==
  ASSUME NEW fs \in Seq(Finding), NEW d \in Finding
  PROVE  /\ Append(fs, d) \in Seq(Finding) /\ Len(fs) \in Nat
         /\ Len(Append(fs, d)) = Len(fs) + 1 /\ Append(fs, d)[Len(fs) + 1] = d
         /\ \A i \in 1 .. Len(fs) : Append(fs, d)[i] = fs[i]
BY AppendProperties, LenProperties

\* SameScan adds at most one finding, of the correlation.
LEMMA SameScanCases ==
  ASSUME NEW fs \in Seq(Finding)
  PROVE  SameScan(fs) = IF {"ip", "fingerprint"} \subseteq {e.fact.type : e \in Items(fs)}
                        THEN Append(fs, Infra002Finding(fs)) ELSE fs
BY AllEvidenceFacts DEF SameScan

LEMMA SameScanPlain ==
  ASSUME NEW fs, Plain(fs)
  PROVE  Plain(SameScan(fs))
<1> DEFINE d == Infra002Finding(fs)
<1>1. fs \in Seq(Finding)
  BY DEF Plain
<1>2. d \in Finding /\ d.rule \in Correlated
  BY <1>1, Infra002Facts DEF Correlated
<1> HIDE DEF d
<1>3. CASE SameScan(fs) = Append(fs, d)
  <2> DEFINE a == Append(fs, d)
  <2>1. /\ a \in Seq(Finding) /\ Len(a) = Len(fs) + 1 /\ a[Len(fs) + 1] = d
        /\ \A i \in 1 .. Len(fs) : a[i] = fs[i]
    BY <1>1, <1>2, AppendIs
  <2>2. Len(fs) \in Nat
    BY <1>1, LenProperties
  <2> HIDE DEF a
  <2>3. ASSUME NEW i \in 1 .. Len(a), a[i].rule \notin Correlated
        PROVE  ToSet(a[i].evidence) \subseteq Observed
    <3>1. i \in 1 .. Len(fs)
      BY <1>2, <2>1, <2>2, <2>3
    <3> QED
      BY <2>1, <2>3, <3>1 DEF Plain
  <2> QED
    BY <1>3, <2>1, <2>3 DEF a, Plain
<1> QED
  BY <1>1, <1>3, SameScanCases DEF d

\* The findings of analyzers.
LEMMA EmittedPlain ==
  ASSUME NEW fs \in Seq(Emitted)
  PROVE  /\ fs \in Seq(Finding) /\ Plain(fs)
         /\ \A i \in 1 .. Len(fs) : fs[i].rule \in Rules
<1>1. \A f \in Emitted : f \in Finding /\ f.rule \in Rules /\ ToSet(f.evidence) \subseteq Observed
  <2> TAKE f \in Emitted
  <2>1. /\ f \in [rule : Rules, severity : Severities, confidence : Percent,
                  evidence : Seq([fact : Facts, source : Sources])]
    BY EmittedAssumption
  <2> DEFINE ev == f.evidence
  <2>2. ev \in Seq(Observed)
    BY <2>1 DEF Observed
  <2>3. Observed \subseteq Evidence
    BY DEF Observed, Evidence
  <2>4. ev \in Seq(Evidence) /\ ToSet(ev) \subseteq Observed
    <3> HIDE DEF ev
    <3> QED
      BY <2>2, <2>3, SeqMonotonic, ItemsOf
  <2> QED
    BY <2>1, <2>4 DEF Finding
<1>2. \A i \in 1 .. Len(fs) : fs[i] \in Emitted
  BY ElementOfSeq
<1>3. fs \in Seq(Finding)
  BY <1>1, SeqMonotonic
<1> QED
  BY <1>1, <1>2, <1>3 DEF Plain

LEMMA DeduplicatePlain ==
  ASSUME NEW fs, Plain(fs)
  PROVE  Plain(DeduplicateFindings(fs))
<1> DEFINE c == DeduplicateFindings(fs)
<1>1. fs \in Seq(Finding)
  BY DEF Plain
<1>2. ConsolidatesTo(fs, Len(fs), c)
  BY <1>1, Deduplicates
<1> HIDE DEF c
<1>3. ASSUME NEW i \in 1 .. Len(c), c[i].rule \notin Correlated, NEW e \in ToSet(c[i].evidence)
      PROVE  e \in Observed
  <2>1. ToSet(c[i].evidence) = UNION {ToSet(f.evidence) : f \in Group(fs, Len(fs), c[i].rule)}
    BY <1>2 DEF ConsolidatesTo, SumsUp
  <2>2. PICK k \in 1 .. Len(fs) : fs[k].rule = c[i].rule /\ e \in ToSet(fs[k].evidence)
    BY <1>3, <2>1 DEF Group
  <2> QED
    BY <1>3, <2>2 DEF Plain
<1> QED
  BY <1>2, <1>3 DEF c, Plain, ConsolidatesTo

LEMMA CorrelateType ==
  ASSUME NEW fs, Plain(fs), NEW kn \in [Facts -> SUBSET Peers]
  PROVE  CorrelateWithStore(fs, kn) \in Seq(Finding)
<1> DEFINE gs == SameScan(fs)
<1>1. Plain(gs) /\ gs \in Seq(Finding)
  BY SameScanPlain DEF Plain
<1> HIDE DEF gs
<1>2. \/ CrossTargets(gs, kn) = gs
      \/ \E d \in Finding : CrossTargets(gs, kn) = Append(gs, d)
  BY <1>1, CrossTargetsCases DEF Infra004Finding
<1>3. CrossTargets(gs, kn) \in Seq(Finding)
  BY <1>1, <1>2, AppendProperties
<1> QED
  BY <1>3 DEF CorrelateWithStore, gs

\* The findings of a scan.
LEMMA FindingsOfType ==
  ASSUME NEW fs \in Seq(Emitted), NEW kn \in Knowledge
  PROVE  Consolidated(FindingsOf(fs, kn))
<1> DEFINE ds == DeduplicateFindings(fs)
           cs == CorrelateWithStore(ds, kn)
<1>1. Plain(ds) /\ kn \in [Facts -> SUBSET Peers]
  BY EmittedPlain, DeduplicatePlain, EmittedAssumption
<1> HIDE DEF ds
<1>2. cs \in Seq(Finding)
  BY <1>1, CorrelateType
<1> HIDE DEF cs
<1>3. Consolidated(DeduplicateFindings(cs))
  BY <1>2, DeduplicatesToConsolidated
<1> QED
  BY <1>3 DEF FindingsOf, cs, ds

-----------------------------------------------------------------------------
(* The invariant of scans *)

\* The scan before this one, if any, has consolidated findings and their score.
IInv ==
  /\ raw \in Seq(Emitted) /\ known \in Knowledge
  /\ old = NoScan \/ \E ds : Consolidated(ds) /\ old = Scan(ds)

LEMMA IInvInit == Init => IInv
<1>1. <<>> \in Seq(Emitted)
  BY EmptySeq
<1> QED
  BY <1>1 DEF Init, IInv

LEMMA IInvStep == IInv /\ [Next]_vars => IInv'
<1> SUFFICES ASSUME IInv, [Next]_vars PROVE IInv'
  OBVIOUS
<1>1. CASE Analyze
  <2>1. PICK f \in Emitted : raw' = Append(raw, f)
    BY <1>1 DEF Analyze
  <2>2. raw' \in Seq(Emitted)
    BY <2>1, AppendProperties DEF IInv
  <2> QED
    BY <1>1, <2>2 DEF Analyze, IInv
<1>2. CASE Learn
  BY <1>2 DEF Learn, IInv
<1>3. CASE EndScan
  <2> DEFINE ds == FindingsOf(raw, known)
  <2>1. Consolidated(ds)
    BY FindingsOfType DEF IInv
  <2>2. old' = Scan(ds)
    BY <1>3 DEF EndScan, Current
  <2>3. <<>> \in Seq(Emitted)
    BY EmptySeq
  <2>4. raw' = <<>> /\ known' = known
    BY <1>3 DEF EndScan
  <2> HIDE DEF ds
  <2>5. \E d : Consolidated(d) /\ old' = Scan(d)
    BY <2>1, <2>2
  <2> QED
    BY <2>3, <2>4, <2>5 DEF IInv
<1>4. CASE UNCHANGED vars
  BY <1>4 DEF vars, IInv
<1> QED
  BY <1>1, <1>2, <1>3, <1>4 DEF Next

\* Whatever analyzers find and the store knows, the scan that Diff takes for
\* the baseline is consolidated: one finding of each rule, each with any piece
\* of its evidence once (DeduplicateFindings after CorrelateWithStore).
THEOREM ScansAreConsolidated == Spec => []IInv
<1> QED
  BY IInvInit, IInvStep, PTL DEF Spec

LEMMA MaximaIs ==
  ASSUME NEW S, NEW m \in S, S \subseteq Int, \A n \in S : n <= m
  PROVE  Maxima(S) = m
<1>1. \A k \in S : (\A n \in S : n <= k) => k = m
  OBVIOUS
<1> QED
  BY <1>1 DEF Maxima

LEMMA ConsolidatesAllHolds == IInv => ConsolidatesAll
<1> SUFFICES ASSUME IInv PROVE ConsolidatesAll
  OBVIOUS
<1> DEFINE N == Len(raw)
           ds == DeduplicateFindings(raw)
           L == Len(ds)
           group(r) == {f \in ToSet(raw) : f.rule = r}
<1>1. /\ raw \in Seq(Finding) /\ N \in Nat /\ DOMAIN raw = 1 .. N
      /\ \A k \in 1 .. N : raw[k] \in Finding
      /\ ToSet(raw) = {raw[k] : k \in 1 .. N}
  <2>1. raw \in Seq(Finding)
    BY EmittedPlain DEF IInv
  <2> QED
    BY <2>1, LenProperties, ElementOfSeq DEF ToSet
<1>2. ConsolidatesTo(raw, N, ds)
  BY <1>1, Deduplicates
<1> HIDE DEF ds
<1>3. /\ ds \in Seq(Finding) /\ L \in Nat /\ DOMAIN ds = 1 .. L
      /\ ToSet(ds) = {ds[i] : i \in 1 .. L}
  <2>1. ds \in Seq(Finding)
    BY <1>2 DEF ConsolidatesTo
  <2> QED
    BY <2>1, LenProperties DEF ToSet
<1>4. \A i \in 1 .. L : SumsUp(ds[i], group(ds[i].rule))
  <2> TAKE i \in 1 .. L
  <2>1. Group(raw, N, ds[i].rule) = group(ds[i].rule)
    BY <1>1 DEF Group
  <2> QED
    BY <1>2, <2>1 DEF ConsolidatesTo
<1>5. {d.rule : d \in ToSet(ds)} = {f.rule : f \in ToSet(raw)}
  <2>1. \A k \in 1 .. N : \E i \in 1 .. L : ds[i].rule = raw[k].rule
    BY <1>2 DEF ConsolidatesTo
  <2>2. \A i \in 1 .. L : \E k \in 1 .. N : raw[k].rule = ds[i].rule
    <3> TAKE i \in 1 .. L
    <3>1. \E f \in group(ds[i].rule) : ds[i].severity = f.severity
      BY <1>4 DEF SumsUp
    <3> QED
      BY <1>1, <3>1
  <2>3. {d.rule : d \in ToSet(ds)} = {ds[i].rule : i \in 1 .. L}
    BY <1>3
  <2>4. {f.rule : f \in ToSet(raw)} = {raw[k].rule : k \in 1 .. N}
    BY <1>1
  <2>5. {ds[i].rule : i \in 1 .. L} \subseteq {raw[k].rule : k \in 1 .. N}
    BY <2>2
  <2>6. {raw[k].rule : k \in 1 .. N} \subseteq {ds[i].rule : i \in 1 .. L}
    BY <2>1
  <2> QED
    BY <2>3, <2>4, <2>5, <2>6
<1>6. ASSUME NEW i \in 1 .. L, NEW j \in 1 .. L, i < j
      PROVE  PlaceOf(raw, ds[i].rule) < PlaceOf(raw, ds[j].rule)
  <2> DEFINE r == ds[i].rule  q == ds[j].rule
             a == PlaceOf(raw, r)  b == PlaceOf(raw, q)
  <2>1. PICK k \in 1 .. N : raw[k].rule = r /\ \A l \in 1 .. k : raw[l].rule # q
    BY <1>2, <1>6 DEF ConsolidatesTo
  <2>2. \E l \in 1 .. N : raw[l].rule = q
    <3>1. \E f \in group(q) : ds[j].severity = f.severity
      BY <1>4 DEF SumsUp
    <3> QED
      BY <1>1, <3>1
  <2> HIDE DEF r, q
  <2>3. a \in 1 .. N /\ a <= k
    BY <1>1, <2>1, PlaceOfRule
  <2>4. b \in 1 .. N /\ raw[b].rule = q
    BY <1>1, <2>2, PlaceOfRule
  <2> HIDE DEF a, b
  <2>5. b \notin 1 .. k
    BY <2>1, <2>4
  <2>6. a < b
    BY <1>1, <2>3, <2>4, <2>5
  <2> QED
    BY <2>6 DEF a, b, r, q
<1>7. ASSUME NEW i \in 1 .. L
      PROVE  LET d == ds[i] IN
             /\ d.severity = Maxima({f.severity : f \in group(d.rule)})
             /\ d.confidence = Maxima({f.confidence : f \in group(d.rule)})
             /\ IsInjective(d.evidence)
             /\ ToSet(d.evidence) = UNION {ToSet(f.evidence) : f \in group(d.rule)}
  <2> DEFINE d == ds[i]
             G == group(d.rule)
  <2>1. SumsUp(d, G) /\ G \subseteq Finding
    BY <1>1, <1>4
  <2> HIDE DEF d, G
  <2>2. \A f \in G : f.severity \in Int /\ f.confidence \in Int
    <3> TAKE f \in G
    <3> DEFINE a == f.severity
               b == f.confidence
    <3>1. a \in 0 .. 4 /\ b \in 0 .. 100
      BY <2>1, FindingFields
    <3> HIDE DEF a, b
    <3>2. a \in Int /\ b \in Int
      BY <3>1
    <3> QED
      BY <3>2 DEF a, b
  <2>3. Maxima({f.severity : f \in G}) = d.severity
    <3> DEFINE S == {f.severity : f \in G}
    <3>1. d.severity \in S /\ S \subseteq Int /\ \A n \in S : n <= d.severity
      BY <2>1, <2>2 DEF SumsUp
    <3> HIDE DEF S
    <3> QED
      BY <3>1, MaximaIs DEF S
  <2>4. Maxima({f.confidence : f \in G}) = d.confidence
    <3> DEFINE S == {f.confidence : f \in G}
    <3>1. d.confidence \in S /\ S \subseteq Int /\ \A n \in S : n <= d.confidence
      BY <2>1, <2>2 DEF SumsUp
    <3> HIDE DEF S
    <3> QED
      BY <3>1, MaximaIs DEF S
  <2> QED
    BY <2>1, <2>3, <2>4 DEF SumsUp, d, G
<1>8. DeduplicateFindings(Current.findings) = Current.findings
  <2>1. Consolidated(FindingsOf(raw, known))
    BY FindingsOfType DEF IInv
  <2>2. Current.findings = FindingsOf(raw, known)
    BY DEF Current, Scan
  <2> QED
    BY <2>1, <2>2, DeduplicateSame
<1>9. Scan(FindingsOf(raw \o raw, known)) = Current
  BY <1>1, DeduplicateTwice DEF FindingsOf, Current
<1>10. \A i, j \in DOMAIN ds : i < j =>
         SelectInSeq(raw, LAMBDA f : f.rule = ds[i].rule) < SelectInSeq(raw, LAMBDA f : f.rule = ds[j].rule)
  BY <1>3, <1>6 DEF PlaceOf, SelectInSeq
<1>11. \A d \in ToSet(ds) :
         /\ d.severity = Maxima({f.severity : f \in group(d.rule)})
         /\ d.confidence = Maxima({f.confidence : f \in group(d.rule)})
         /\ IsInjective(d.evidence)
         /\ ToSet(d.evidence) = UNION {ToSet(f.evidence) : f \in group(d.rule)}
  BY <1>3, <1>7
<1> QED
  BY <1>5, <1>8, <1>9, <1>10, <1>11 DEF ConsolidatesAll, ds

\* Consolidation loses and invents nothing, and pages that repeat what others
\* have shown change neither findings, correlations nor score.
THEOREM AlwaysConsolidatesAll == Spec => []ConsolidatesAll
<1> QED
  BY ScansAreConsolidated, ConsolidatesAllHolds, PTL

-----------------------------------------------------------------------------
(* Matching *)

\* Pairs that are one to one, the function from second to first, and what it is.
OneToOne(C) == \A p, q \in C : p[1] = q[1] <=> p[2] = q[2]
Pairing(C, I, J) == C \in SUBSET (I \X J) /\ OneToOne(C)
PairUp(C) == [j \in {p[2] : p \in C} |-> CHOOSE i : <<i, j>> \in C]

Pairs(m, C) ==
  /\ DOMAIN m = {p[2] : p \in C}
  /\ \A p \in C : m[p[2]] = p[1]
  /\ \A j \in DOMAIN m : <<m[j], j>> \in C
  /\ Range(m) = {p[1] : p \in C}

LEMMA PairUpFacts ==
  ASSUME NEW I, NEW J, NEW C, Pairing(C, I, J)
  PROVE  Pairs(PairUp(C), C)
<1> DEFINE m == PairUp(C)
<1>1. \A p \in C : p = <<p[1], p[2]>>
  BY DEF Pairing
<1>2. DOMAIN m = {p[2] : p \in C} /\ \A j \in DOMAIN m : m[j] = CHOOSE i : <<i, j>> \in C
  BY DEF PairUp
<1> HIDE DEF m
<1>3. \A j \in DOMAIN m : <<m[j], j>> \in C
  <2> TAKE j \in DOMAIN m
  <2>1. PICK p \in C : p[2] = j
    BY <1>2
  <2>2. <<p[1], j>> \in C
    BY <1>1, <2>1
  <2> QED
    BY <1>2, <2>2
<1>4. \A p \in C : m[p[2]] = p[1]
  <2> TAKE p \in C
  <2> DEFINE j == p[2]
             q == <<m[j], j>>
  <2>1. q \in C
    BY <1>2, <1>3
  <2>2. q[2] = p[2] /\ q[1] = m[j]
    OBVIOUS
  <2> HIDE DEF q
  <2> QED
    BY <2>1, <2>2 DEF OneToOne, Pairing
<1>5. Range(m) = {p[1] : p \in C}
  <2>1. Range(m) = {m[j] : j \in DOMAIN m}
    BY DEF Range
  <2>2. {m[j] : j \in DOMAIN m} = {m[p[2]] : p \in C}
    BY <1>2
  <2> QED
    BY <1>4, <2>1, <2>2
<1> QED
  BY <1>2, <1>3, <1>4, <1>5 DEF m, Pairs

\* One more pair.
Joins(C, D, i, j) == D = C \cup {<<i, j>>} /\ \A p \in C : p[2] # j
Joined(m, i, j) == [k \in DOMAIN m \cup {j} |-> IF k = j THEN i ELSE m[k]]

LEMMA PairUpAdd ==
  ASSUME NEW I, NEW J, NEW C, NEW D, NEW i, NEW j, Pairing(D, I, J), Joins(C, D, i, j)
  PROVE  PairUp(D) = Joined(PairUp(C), i, j)
<1> DEFINE q == <<i, j>>
           m == PairUp(C)
           n == PairUp(D)
<1>1. /\ q[1] = i /\ q[2] = j /\ q \in D /\ D = C \cup {q} /\ C \subseteq D
      /\ \A p \in C : p[2] # j
  BY DEF Joins
<1>2. Pairing(C, I, J)
  BY <1>1 DEF OneToOne, Pairing
<1>3. /\ DOMAIN m = {p[2] : p \in C} /\ \A p \in C : m[p[2]] = p[1]
  <2>1. Pairs(m, C)
    BY <1>2, PairUpFacts
  <2> HIDE DEF m
  <2> QED
    BY <2>1 DEF Pairs
<1>4. /\ DOMAIN n = {p[2] : p \in D} /\ \A p \in D : n[p[2]] = p[1]
  <2>1. Pairs(n, D)
    BY PairUpFacts
  <2> HIDE DEF n
  <2> QED
    BY <2>1 DEF Pairs
<1>5. {p[2] : p \in D} = {p[2] : p \in C} \cup {j}
  BY <1>1
<1>6. DOMAIN n = DOMAIN m \cup {j}
  BY <1>3, <1>4, <1>5
<1>7. \A k \in DOMAIN m : k # j /\ n[k] = m[k]
  <2> TAKE k \in DOMAIN m
  <2>1. PICK p \in C : p[2] = k
    BY <1>3
  <2> HIDE DEF m, n, q
  <2> QED
    BY <1>1, <1>3, <1>4, <2>1
<1>8. n[j] = i
  <2> HIDE DEF m, n, q
  <2> QED
    BY <1>1, <1>4
<1>9. n = [k \in {p[2] : p \in D} |-> CHOOSE x : <<x, k>> \in D]
  BY DEF PairUp
<1>10. n = [k \in DOMAIN n |-> n[k]]
  <2> DEFINE S == {p[2] : p \in D}
             c(k) == CHOOSE x : <<x, k>> \in D
  <2>1. n = [k \in S |-> c(k)]
    BY <1>9
  <2> HIDE DEF S, c, n
  <2> QED
    BY <2>1
<1> HIDE DEF m, n
<1>11. n = [k \in DOMAIN m \cup {j} |-> IF k = j THEN i ELSE m[k]]
  BY <1>6, <1>7, <1>8, <1>10
<1> QED
  BY <1>11 DEF m, n, Joined

\* A pass over the new findings completes a match by the pairs of its criterion,
\* when these are one to one.
LEMMA MatchPassIs ==
  ASSUME NEW I \in SUBSET Nat, NEW new, Len(new) \in Nat,
         NEW rel, Pairing(rel, I, 1 .. Len(new)),
         NEW C0 \in SUBSET rel, NEW criterion \in SUBSET rel
  PROVE  MatchPass(criterion, new, PairUp(C0)) = PairUp(C0 \cup criterion)
<1> DEFINE N == Len(new)
           matched == PairUp(C0)
           X(n) == C0 \cup {q \in criterion : q[2] \in 1 .. n}
           Step(m, j) == IF j \in DOMAIN m \/ Open(criterion, m, j) = {} THEN m
                         ELSE [k \in DOMAIN m \cup {j} |->
                                 IF k = j THEN Min(Open(criterion, m, j)) ELSE m[k]]
           P(f) == f = [j \in 0 .. N |-> IF j = 0 THEN matched ELSE Step(f[j - 1], j)]
           h == [n \in 0 .. N |-> PairUp(X(n))]
           f == Matching(criterion, new, matched)
<1>1. /\ \A p \in rel : p[1] \in I /\ p[1] \in Nat /\ p[2] \in 1 .. N /\ p = <<p[1], p[2]>>
      /\ C0 \subseteq rel /\ criterion \subseteq rel
  <2>1. \A p \in rel : p \in I \X (1 .. N)
    BY DEF Pairing
  <2> HIDE DEF N, X, Step, P, h, f, matched
  <2> QED
    BY <2>1
<1>2. \A p, q \in rel : p[1] = q[1] <=> p[2] = q[2]
  BY DEF OneToOne, Pairing
<1>3. ASSUME NEW j \in 1 .. N PROVE Step(PairUp(X(j - 1)), j) = PairUp(X(j))
  <2> DEFINE m == PairUp(X(j - 1))
  <2>1. X(j) = X(j - 1) \cup {q \in criterion : q[2] = j}
    <3>1. 1 .. j = (1 .. j - 1) \cup {j}
      OBVIOUS
    <3> QED
      BY <3>1
  <2>2. /\ X(j - 1) \subseteq rel /\ X(j) \subseteq rel
        /\ OneToOne(X(j - 1)) /\ OneToOne(X(j))
    BY <1>1, <1>2 DEF OneToOne
  <2> HIDE DEF X
  <2>3. /\ DOMAIN m = {p[2] : p \in X(j - 1)}
        /\ Range(m) = {p[1] : p \in X(j - 1)}
    <3> DEFINE C == X(j - 1)  J == 1 .. N
    <3>1. Pairing(C, I, J)
      BY <2>2 DEF Pairing
    <3> HIDE DEF C, J
    <3>2. DOMAIN PairUp(C) = {p[2] : p \in C} /\ Range(PairUp(C)) = {p[1] : p \in C}
      BY <3>1, PairUpFacts DEF Pairs
    <3> QED
      BY <3>2 DEF C
  <2>4. CASE j \in DOMAIN m
    <3>1. PICK p \in X(j - 1) : p[2] = j
      BY <2>3, <2>4
    <3>2. \A q \in criterion : q[2] = j => q = p
      BY <1>1, <1>2, <2>2, <3>1
    <3>3. X(j) = X(j - 1)
      BY <2>1, <3>1, <3>2
    <3> QED
      BY <2>4, <3>3
  <2>5. CASE j \notin DOMAIN m /\ ~ \E q \in criterion : q[2] = j
    <3>1. Open(criterion, m, j) = {}
      BY <2>5 DEF Open
    <3>2. X(j) = X(j - 1)
      BY <2>1, <2>5
    <3> QED
      BY <3>1, <3>2
  <2>6. CASE j \notin DOMAIN m /\ \E q \in criterion : q[2] = j
    <3>1. PICK q \in criterion : q[2] = j
      BY <2>6
    <3> DEFINE i == q[1]
    <3>2. i \in I /\ i \in Nat /\ q = <<i, j>> /\ q \in rel
      BY <1>1, <3>1
    <3>3. \A p \in criterion : p[2] = j => p = q
      BY <1>1, <1>2, <3>1
    <3>4. i \notin Range(m)
      <4>1. ASSUME NEW p \in X(j - 1), p[1] = i PROVE FALSE
        <5>1. p[2] = j
          BY <1>2, <2>2, <3>1, <3>2, <4>1
        <5> QED
          BY <2>3, <2>6, <5>1
      <4> QED
        BY <2>3, <4>1
    <3>5. Open(criterion, m, j) = {i}
      <4>1. {p \in criterion : p[2] = j /\ p[1] \notin Range(m)} = {q}
        BY <3>1, <3>3, <3>4
      <4> QED
        BY <4>1 DEF Open
    <3>6. Min({i}) = i
      BY <3>2 DEF Min
    <3>7. X(j) = X(j - 1) \cup {<<i, j>>} /\ \A p \in X(j - 1) : p[2] # j
      <4>1. {p \in criterion : p[2] = j} = {<<i, j>>}
        BY <3>1, <3>2, <3>3
      <4> QED
        BY <2>1, <2>3, <2>6, <4>1
    <3>8. PairUp(X(j)) = [k \in DOMAIN m \cup {j} |-> IF k = j THEN i ELSE m[k]]
      <4> DEFINE C == X(j - 1)  D == X(j)  J == 1 .. N
      <4>1. Pairing(D, I, J) /\ Joins(C, D, i, j)
        BY <2>2, <3>2, <3>7 DEF Pairing, Joins
      <4> HIDE DEF C, D, J, i
      <4>2. PairUp(D) = Joined(PairUp(C), i, j)
        BY <4>1, PairUpAdd
      <4> QED
        BY <4>2 DEF C, D, Joined
    <3> HIDE DEF m, i
    <3>9. Step(m, j) = [k \in DOMAIN m \cup {j} |-> IF k = j THEN i ELSE m[k]]
      BY <2>6, <3>5, <3>6
    <3> QED
      BY <3>8, <3>9 DEF m
  <2> QED
    BY <2>4, <2>5, <2>6
<1>4. X(0) = C0 /\ X(N) = C0 \cup criterion
  BY <1>1
<1>5. f = CHOOSE g : P(g)
  BY DEF Matching
<1> HIDE DEF X, Step, f
<1>6. P(h)
  <2>1. ASSUME NEW j \in 0 .. N
        PROVE  PairUp(X(j)) = IF j = 0 THEN matched ELSE Step(h[j - 1], j)
    <3>1. CASE j = 0
      BY <1>4, <3>1
    <3>2. CASE j # 0
      <4>1. j \in 1 .. N /\ j - 1 \in 0 .. N
        BY <3>2
      <4>2. h[j - 1] = PairUp(X(j - 1))
        BY <4>1
      <4> QED
        BY <1>3, <3>2, <4>1, <4>2
    <3> QED
      BY <3>1, <3>2
  <2> QED
    BY <2>1
<1>7. P(f)
  <2> HIDE DEF P, h
  <2> QED
    BY <1>5, <1>6
<1> HIDE DEF matched, N
<1>8. f[0] = matched /\ \A j \in 1 .. N : f[j] = Step(f[j - 1], j)
  BY <1>7 DEF N
<1> DEFINE S == {n \in 0 .. N : f[n] = PairUp(X(n))}
<1>9. 0 \in S
  BY <1>4, <1>8 DEF matched, N
<1>10. ASSUME NEW n \in 0 .. N - 1, n \in S PROVE n + 1 \in S
  <2>1. n + 1 \in 1 .. N /\ (n + 1) - 1 = n /\ n + 1 \in 0 .. N
    BY DEF N
  <2> QED
    BY <1>3, <1>8, <1>10, <2>1
<1>11. N \in S
  <2>1. N \in Nat
    BY DEF N
  <2> HIDE DEF S
  <2>2. \A n \in 0 .. N : n \in S
    BY <1>9, <1>10, <2>1, UpTo
  <2> QED
    BY <2>1, <2>2
<1> QED
  BY <1>4, <1>11 DEF MatchPass, f, N, matched

\* The pairs that Diff matches.
Meets(s, t) == SameKey(s, t) \cup SharedEvidence(s, t)

LEMMA MeetsFacts ==
  ASSUME NEW s, NEW t, Consolidated(s), Consolidated(t)
  PROVE  /\ Pairing(Meets(s, t), 1 .. Len(s), 1 .. Len(t))
         /\ \A p \in Meets(s, t) : s[p[1]].rule = t[p[2]].rule
<1> DEFINE C == Meets(s, t)
<1>1. DOMAIN s = 1 .. Len(s) /\ DOMAIN t = 1 .. Len(t)
  BY LenProperties DEF Consolidated
<1>2. C \in SUBSET ((1 .. Len(s)) \X (1 .. Len(t)))
  BY <1>1 DEF Meets, SameKey, SharedEvidence
<1>3. \A p \in C : s[p[1]].rule = t[p[2]].rule
  <2> TAKE p \in C
  <2>1. CASE p \in SameKey(s, t)
    <3>1. FindingKey(s[p[1]]) = FindingKey(t[p[2]])
      BY <2>1 DEF SameKey
    <3> QED
      BY <3>1 DEF FindingKey
  <2>2. CASE p \in SharedEvidence(s, t)
    BY <2>2 DEF SharedEvidence
  <2> QED
    BY <2>1, <2>2 DEF Meets
<1> HIDE DEF C
<1>4. ASSUME NEW p \in C, NEW q \in C PROVE p[1] = q[1] <=> p[2] = q[2]
  <2>1. /\ p[1] \in 1 .. Len(s) /\ q[1] \in 1 .. Len(s)
        /\ p[2] \in 1 .. Len(t) /\ q[2] \in 1 .. Len(t)
        /\ s[p[1]].rule = t[p[2]].rule /\ s[q[1]].rule = t[q[2]].rule
    BY <1>2, <1>3
  <2>2. s[p[1]].rule = s[q[1]].rule => p[1] = q[1]
    BY <2>1 DEF Consolidated
  <2>3. t[p[2]].rule = t[q[2]].rule => p[2] = q[2]
    BY <2>1 DEF Consolidated
  <2> QED
    BY <2>1, <2>2, <2>3
<1> QED
  BY <1>2, <1>3, <1>4 DEF Pairing, OneToOne, C

LEMMA MatchesIs ==
  ASSUME NEW s, NEW t, Consolidated(s), Consolidated(t)
  PROVE  Matches(s, t) = PairUp(Meets(s, t))
<1> DEFINE I == 1 .. Len(s)
           rel == Meets(s, t)
           A == SameKey(s, t)
           B == SharedEvidence(s, t)
           none == {}
<1>1. I \in SUBSET Nat /\ Len(t) \in Nat
  BY LenProperties DEF Consolidated
<1>2. Pairing(rel, I, 1 .. Len(t)) /\ rel = A \cup B
  BY MeetsFacts DEF Meets
<1>3. <<>> = PairUp(none)
  BY DEF PairUp
<1>4. none \in SUBSET rel /\ A \in SUBSET rel /\ B \in SUBSET rel /\ none \cup A = A
  BY <1>2
<1>5. Matches(s, t) = MatchPass(B, t, MatchPass(A, t, PairUp(none)))
  BY <1>3 DEF Matches
<1> HIDE DEF I, rel, A, B, none
<1>6. MatchPass(A, t, PairUp(none)) = PairUp(none \cup A)
  BY <1>1, <1>2, <1>4, MatchPassIs
<1>7. MatchPass(B, t, PairUp(A)) = PairUp(A \cup B)
  BY <1>1, <1>2, <1>4, MatchPassIs
<1> QED
  BY <1>2, <1>4, <1>5, <1>6, <1>7 DEF rel

\* The pairs the other way round.
Turned(C) == {<<p[2], p[1]>> : p \in C}

LEMMA InspectSymmetric ==
  ASSUME NEW f, NEW g
  PROVE  Inspect(f, g) <=> Inspect(g, f)
BY DEF Inspect

LEMMA MeetsTurned ==
  ASSUME NEW s, NEW t
  PROVE  Meets(t, s) = Turned(Meets(s, t))
<1>1. \A i, j : <<i, j>> \in Meets(s, t) <=> <<j, i>> \in Meets(t, s)
  BY DEF Meets, SameKey, SharedEvidence
<1>2. \A p \in Meets(s, t) : p = <<p[1], p[2]>>
  BY DEF Meets, SameKey, SharedEvidence
<1>3. \A p \in Meets(t, s) : p = <<p[1], p[2]>>
  BY DEF Meets, SameKey, SharedEvidence
<1>4. ASSUME NEW p \in Meets(t, s) PROVE p \in Turned(Meets(s, t))
  <2> DEFINE q == <<p[2], p[1]>>
  <2>1. q \in Meets(s, t) /\ p = <<q[2], q[1]>>
    BY <1>1, <1>3
  <2> HIDE DEF q
  <2> QED
    BY <2>1 DEF Turned
<1>5. ASSUME NEW p \in Turned(Meets(s, t)) PROVE p \in Meets(t, s)
  <2>1. PICK q \in Meets(s, t) : p = <<q[2], q[1]>>
    BY <1>5 DEF Turned
  <2> QED
    BY <1>1, <1>2, <2>1
<1> QED
  BY <1>4, <1>5

\* A one to one set of pairs has as many first as second items.
LEMMA PairingCount ==
  ASSUME NEW I, NEW J, NEW C, Pairing(C, I, J), IsFiniteSet(J)
  PROVE  /\ IsFiniteSet({p[1] : p \in C}) /\ IsFiniteSet({p[2] : p \in C})
         /\ Cardinality({p[1] : p \in C}) = Cardinality({p[2] : p \in C})
<1> DEFINE A == {p[1] : p \in C}
           B == {p[2] : p \in C}
           m == PairUp(C)
<1>1. Pairs(m, C)
  BY PairUpFacts
<1>2. B \in SUBSET J
  BY DEF Pairing
<1>3. IsFiniteSet(B)
  <2> HIDE DEF B
  <2> QED
    BY <1>2, FS_Subset
<1> HIDE DEF m
<1>4. DOMAIN m = B /\ (\A p \in C : m[p[2]] = p[1]) /\ \A j \in B : <<m[j], j>> \in C
  BY <1>1 DEF Pairs
<1>5. \A j \in B : m[j] \in A
  BY <1>4
<1>6. \A i \in A : \E j \in B : m[j] = i
  BY <1>4
<1>7. ASSUME NEW j \in B, NEW k \in B, m[j] = m[k] PROVE j = k
  <2> DEFINE p == <<m[j], j>>  q == <<m[k], k>>
  <2>1. p \in C /\ q \in C
    BY <1>4
  <2>2. p[1] = q[1] /\ p[2] = j /\ q[2] = k
    BY <1>7
  <2> HIDE DEF p, q
  <2>3. p[2] = q[2]
    BY <2>1, <2>2 DEF Pairing, OneToOne
  <2> QED
    BY <2>2, <2>3
<1> DEFINE f == [j \in B |-> m[j]]
<1> HIDE DEF A, B
<1>8. f \in Surjection(B, A) /\ f \in Injection(B, A)
  <2>1. f \in [B -> A]
    BY <1>5
  <2>2. f \in Surjection(B, A)
    BY <1>6, <2>1 DEF Surjection
  <2>3. f \in Injection(B, A)
    BY <1>7, <2>1 DEF Injection, IsInjective
  <2> QED
    BY <2>2, <2>3
<1> HIDE DEF f
<1>9. IsFiniteSet(A) /\ Cardinality(A) = Cardinality(B)
  BY <1>3, <1>8, FS_Surjection
<1> QED
  BY <1>3, <1>9 DEF A, B

\* The function that Total runs through satisfies its equation.
LEMMA AddingIs ==
  ASSUME NEW ns \in Seq(Nat)
  PROVE  /\ Adding(ns) \in [0 .. Len(ns) -> Nat]
         /\ Adding(ns)[0] = 0
         /\ \A n \in 1 .. Len(ns) : Adding(ns)[n] = Adding(ns)[n - 1] + ns[n]
<1> DEFINE N == Len(ns)
           P(f) == f = [n \in 0 .. N |-> IF n = 0 THEN 0 ELSE f[n - 1] + ns[n]]
           g == [x \in Nat \X (1 .. N) |-> x[1] + ns[x[2]]]
<1>1. N \in Nat /\ (\A n \in 1 .. N : ns[n] \in Nat)
  BY LenProperties, ElementOfSeq
<1>2. \A a, b \in Nat : a + b \in Nat
  OBVIOUS
<1>3. g \in Steps(Nat, N) /\ \A a \in Nat, n \in 1 .. N : g[<<a, n>>] = a + ns[n]
  <2> HIDE DEF N
  <2> QED
    BY <1>1, <1>2 DEF Steps
<1>4. PICK f : GoesOnBy(f, Nat, 0, N, g)
  <2> HIDE DEF g, N
  <2> QED
    BY <1>1, <1>3, Recursion
<1>5. P(f)
  <2> HIDE DEF g, N
  <2>1. f \in [0 .. N -> Nat] /\ f[0] = 0
    BY <1>4 DEF GoesOnBy
  <2>2. ASSUME NEW n \in 1 .. N PROVE f[n] = f[n - 1] + ns[n]
    <3>1. n - 1 \in 0 .. N /\ f[n - 1] \in Nat /\ f[n] = g[<<f[n - 1], n>>]
      BY <1>1, <1>4, <2>1 DEF GoesOnBy
    <3> QED
      BY <1>3, <3>1
  <2>3. \A n \in 0 .. N : f[n] = IF n = 0 THEN 0 ELSE f[n - 1] + ns[n]
    BY <1>1, <2>1, <2>2
  <2> QED
    BY <2>1, <2>3
<1> DEFINE m == Adding(ns)
<1>6. m = CHOOSE h : P(h)
  BY DEF Adding
<1>7. P(m)
  <2> HIDE DEF P, m
  <2> QED
    BY <1>5, <1>6
<1> HIDE DEF m, N
<1>8. m[0] = 0 /\ \A n \in 1 .. N : m[n] = m[n - 1] + ns[n]
  BY <1>1, <1>7
<1> DEFINE S == {k \in 0 .. N : m[k] \in Nat}
<1>9. 0 \in S
  BY <1>1, <1>8
<1>10. ASSUME NEW n \in 0 .. N - 1, n \in S PROVE n + 1 \in S
  <2>1. n + 1 \in 1 .. N /\ (n + 1) - 1 = n /\ m[n] \in Nat
    BY <1>1, <1>10
  <2>2. m[n + 1] = m[n] + ns[n + 1] /\ ns[n + 1] \in Nat
    BY <1>1, <1>8, <2>1
  <2> QED
    BY <1>1, <2>1, <2>2
<1>11. \A n \in 0 .. N : n \in S
  <2> HIDE DEF S
  <2> QED
    BY <1>1, <1>9, <1>10, UpTo
<1>12. m \in [0 .. N -> Nat]
  BY <1>7, <1>11
<1> QED
  BY <1>8, <1>12 DEF m, N

LEMMA WeightType ==
  ASSUME NEW f \in Finding
  PROVE  /\ Weight(f) \in Nat
         /\ Weight(f) = SeverityWeight[f.severity] * f.confidence
         /\ SeverityWeight[f.severity] \in Nat
<1> DEFINE a == f.severity  b == f.confidence
<1>1. a \in 0 .. 4 /\ b \in 0 .. 100 /\ a \in Severities
  BY FindingFields
<1>2. Weight(f) = SeverityWeight[a] * b
  BY DEF Weight
<1> HIDE DEF a, b
<1>3. SeverityWeight[a] = <<0, 5, 15, 30, 50>>[a + 1]
  BY <1>1 DEF SeverityWeight
<1>4. SeverityWeight[a] \in {0, 5, 15, 30, 50}
  BY <1>1, <1>3
<1>5. \A m, n \in Nat : m * n \in Nat
  OBVIOUS
<1>6. SeverityWeight[a] \in Nat /\ b \in Nat
  BY <1>1, <1>4
<1>7. Weight(f) \in Nat
  BY <1>2, <1>5, <1>6
<1> QED
  BY <1>2, <1>6, <1>7 DEF a, b

\* The weights of findings, and the score they make.
WeightsOf(ds) == [i \in DOMAIN ds |-> Weight(ds[i])]
Capped(total) == IF total > 10000 THEN 100 ELSE total \div 100

LEMMA WeightsOfFacts ==
  ASSUME NEW ds \in Seq(Finding)
  PROVE  /\ WeightsOf(ds) \in Seq(Nat) /\ Len(WeightsOf(ds)) = Len(ds)
         /\ \A i \in 1 .. Len(ds) : WeightsOf(ds)[i] = Weight(ds[i])
<1> DEFINE N == Len(ds)
           ws == WeightsOf(ds)
<1>1. N \in Nat /\ DOMAIN ds = 1 .. N /\ \A i \in 1 .. N : Weight(ds[i]) \in Nat
  BY LenProperties, ElementOfSeq, WeightType
<1>2. ws \in [1 .. N -> Nat] /\ \A i \in 1 .. N : ws[i] = Weight(ds[i])
  BY <1>1 DEF WeightsOf
<1> HIDE DEF ws, N
<1>3. ws \in Seq(Nat) /\ Len(ws) = N
  BY <1>1, <1>2, SeqDef, LenProperties
<1> QED
  BY <1>2, <1>3 DEF ws, N

LEMMA ScoreIs ==
  ASSUME NEW ds, Consolidated(ds)
  PROVE  /\ Total(WeightsOf(ds)) \in Nat
         /\ Score(ds) = Capped(Total(WeightsOf(ds)))
         /\ Score(ds) \in 0 .. 100
<1> DEFINE ws == WeightsOf(ds)
<1>1. DeduplicateFindings(ds) = ds
  BY DeduplicateSame
<1>2. Score(ds) = Capped(Total(ws))
  BY <1>1 DEF Score, Capped, WeightsOf
<1>3. ws \in Seq(Nat)
  BY WeightsOfFacts DEF Consolidated
<1> HIDE DEF ws
<1>4. Total(ws) \in Nat
  <2>1. Adding(ws) \in [0 .. Len(ws) -> Nat] /\ Len(ws) \in 0 .. Len(ws)
    BY <1>3, AddingIs, LenProperties
  <2> QED
    BY <2>1 DEF Total
<1>5. \A n \in Nat : Capped(n) \in 0 .. 100
  BY DEF Capped
<1> QED
  BY <1>2, <1>4, <1>5 DEF ws

\* What Compare reports of scans with consolidated findings.
LEMMA CompareIs ==
  ASSUME NEW s, NEW t, Consolidated(s), Consolidated(t)
  PROVE  LET C == Meets(s, t)
             d == Compare(Scan(s), Scan(t))
             inspected == {p \in C : Inspect(s[p[1]], t[p[2]])} IN
         /\ d.new = (1 .. Len(t)) \ {p[2] : p \in C}
         /\ d.removed = (1 .. Len(s)) \ {p[1] : p \in C}
         /\ d.changed = {p[2] : p \in inspected}
         /\ d.persisting = {p[2] : p \in C}
         /\ d.unchanged = Cardinality({p[2] : p \in C} \ {p[2] : p \in inspected})
         /\ d.scoreDelta = Score(t) - Score(s)
<1> DEFINE C == Meets(s, t)
           d == Compare(Scan(s), Scan(t))
           inspected == {p \in C : Inspect(s[p[1]], t[p[2]])}
           m == PairUp(C)
<1>1. DOMAIN s = 1 .. Len(s) /\ DOMAIN t = 1 .. Len(t)
  BY LenProperties DEF Consolidated
<1>2. Matches(s, t) = m
  BY MatchesIs
<1>3. d = [new |-> {j \in DOMAIN t : j \notin DOMAIN m},
           removed |-> {i \in DOMAIN s : i \notin Range(m)},
           changed |-> {j \in DOMAIN m : Inspect(s[m[j]], t[j])},
           persisting |-> DOMAIN m,
           unchanged |-> Cardinality({j \in DOMAIN m : ~Inspect(s[m[j]], t[j])}),
           scoreDelta |-> Score(t) - Score(s)]
  BY <1>2 DEF Compare, Scan
<1>4. Pairs(m, C)
  BY MeetsFacts, PairUpFacts
<1> HIDE DEF C, m, d
<1>5. /\ DOMAIN m = {p[2] : p \in C}
      /\ \A p \in C : m[p[2]] = p[1]
      /\ \A j \in DOMAIN m : <<m[j], j>> \in C
      /\ Range(m) = {p[1] : p \in C}
  BY <1>4 DEF Pairs
<1>6. {j \in DOMAIN m : Inspect(s[m[j]], t[j])} = {p[2] : p \in inspected}
  <2>1. ASSUME NEW j \in DOMAIN m, Inspect(s[m[j]], t[j]) PROVE \E p \in inspected : p[2] = j
    <3> DEFINE p == <<m[j], j>>
    <3>1. p \in C /\ p[1] = m[j] /\ p[2] = j
      BY <1>5
    <3> HIDE DEF p
    <3> QED
      BY <2>1, <3>1
  <2>2. ASSUME NEW p \in inspected PROVE p[2] \in DOMAIN m /\ Inspect(s[m[p[2]]], t[p[2]])
    BY <1>5
  <2> HIDE DEF inspected
  <2> QED
    BY <2>1, <2>2
<1>7. {j \in DOMAIN m : ~Inspect(s[m[j]], t[j])} =
        DOMAIN m \ {j \in DOMAIN m : Inspect(s[m[j]], t[j])}
  OBVIOUS
<1> HIDE DEF inspected
<1>8. /\ d.new = (1 .. Len(t)) \ {p[2] : p \in C}
      /\ d.removed = (1 .. Len(s)) \ {p[1] : p \in C}
      /\ d.changed = {p[2] : p \in inspected}
      /\ d.persisting = {p[2] : p \in C}
      /\ d.unchanged = Cardinality({p[2] : p \in C} \ {p[2] : p \in inspected})
      /\ d.scoreDelta = Score(t) - Score(s)
  BY <1>1, <1>3, <1>5, <1>6, <1>7
<1> QED
  BY <1>8 DEF C, d, inspected

\* The comparison counts every finding once, and turned round it is the same.
LEMMA CompareAccounts ==
  ASSUME NEW s, NEW t, Consolidated(s), Consolidated(t)
  PROVE  LET d == Compare(Scan(s), Scan(t))
             back == Compare(Scan(t), Scan(s)) IN
         /\ Cardinality(d.new) + Cardinality(d.persisting) = Len(t)
         /\ Cardinality(d.removed) + Cardinality(d.persisting) = Len(s)
         /\ Cardinality(d.changed) + d.unchanged = Cardinality(d.persisting)
         /\ d.new = back.removed
         /\ d.removed = back.new
         /\ Cardinality(d.changed) = Cardinality(back.changed)
<1> DEFINE C == Meets(s, t)
           I == 1 .. Len(s)
           J == 1 .. Len(t)
           K == {p \in C : Inspect(s[p[1]], t[p[2]])}
           A == {p[1] : p \in C}
           B == {p[2] : p \in C}
           X == {p[1] : p \in K}
           Y == {p[2] : p \in K}
           d == Compare(Scan(s), Scan(t))
           back == Compare(Scan(t), Scan(s))
           D == Meets(t, s)
           L == {p \in D : Inspect(t[p[1]], s[p[2]])}
<1>1. Len(s) \in Nat /\ Len(t) \in Nat
  BY LenProperties DEF Consolidated
<1>2. /\ IsFiniteSet(I) /\ Cardinality(I) = Len(s)
      /\ IsFiniteSet(J) /\ Cardinality(J) = Len(t)
  <2>1. ASSUME NEW n \in Nat PROVE IsFiniteSet(1 .. n) /\ Cardinality(1 .. n) = n
    BY FS_Interval
  <2> QED
    BY <1>1, <2>1
<1>3. Pairing(C, I, J)
  BY MeetsFacts
<1>4. Pairing(K, I, J)
  BY <1>3 DEF Pairing, OneToOne
<1>5. A \subseteq I /\ B \subseteq J /\ Y \subseteq B
  BY <1>3 DEF Pairing
<1>6. /\ d.new = J \ B /\ d.removed = I \ A /\ d.changed = Y
      /\ d.persisting = B /\ d.unchanged = Cardinality(B \ Y)
  <2>1. d.new = J \ B /\ d.removed = I \ A
    BY CompareIs
  <2>2. d.changed = Y
    BY CompareIs
  <2>3. d.persisting = B
    BY CompareIs
  <2>4. d.unchanged = Cardinality(B \ Y)
    BY CompareIs
  <2> QED
    BY <2>1, <2>2, <2>3, <2>4
<1>7. /\ back.new = I \ {p[2] : p \in D} /\ back.removed = J \ {p[1] : p \in D}
      /\ back.changed = {p[2] : p \in L}
  <2>1. back.new = I \ {p[2] : p \in D}
    BY CompareIs
  <2>2. back.removed = J \ {p[1] : p \in D}
    BY CompareIs
  <2>3. back.changed = {p[2] : p \in L}
    BY CompareIs
  <2> QED
    BY <2>1, <2>2, <2>3
<1>8. D = Turned(C)
  BY MeetsTurned
<1>10. {p[2] : p \in D} = A /\ {p[1] : p \in D} = B
  <2>1. ASSUME NEW p \in D PROVE p[2] \in A /\ p[1] \in B
    <3>1. PICK q \in C : p = <<q[2], q[1]>>
      BY <1>8 DEF Turned
    <3> QED
      BY <3>1
  <2>2. ASSUME NEW q \in C PROVE \E p \in D : p[2] = q[1] /\ p[1] = q[2]
    <3> DEFINE p == <<q[2], q[1]>>
    <3>1. p \in D /\ p[1] = q[2] /\ p[2] = q[1]
      BY <1>8 DEF Turned
    <3> HIDE DEF p
    <3> QED
      BY <3>1
  <2> HIDE DEF C, D
  <2> QED
    BY <2>1, <2>2
<1>11. {p[2] : p \in L} = X
  <2>1. ASSUME NEW p \in L PROVE p[2] \in X
    <3>1. PICK q \in C : p = <<q[2], q[1]>>
      BY <1>8 DEF Turned
    <3>2. Inspect(t[q[2]], s[q[1]]) /\ p[2] = q[1]
      BY <3>1
    <3>3. q \in K
      BY <3>2, InspectSymmetric
    <3> QED
      BY <3>2, <3>3
  <2>2. ASSUME NEW q \in K PROVE \E p \in L : p[2] = q[1]
    <3> DEFINE p == <<q[2], q[1]>>
    <3>1. p \in D /\ p[1] = q[2] /\ p[2] = q[1]
      BY <1>8 DEF Turned
    <3>2. Inspect(t[q[2]], s[q[1]])
      BY InspectSymmetric
    <3> HIDE DEF p
    <3> QED
      BY <3>1, <3>2
  <2> HIDE DEF K, L
  <2> QED
    BY <2>1, <2>2
<1>12. /\ IsFiniteSet(A) /\ IsFiniteSet(B) /\ Cardinality(A) = Cardinality(B)
       /\ IsFiniteSet(Y) /\ Cardinality(X) = Cardinality(Y)
  <2> HIDE DEF C, K, I, J
  <2> QED
    BY <1>2, <1>3, <1>4, PairingCount
<1> HIDE DEF C, D, I, J, K, L, A, B, X, Y, d, back
<1>13. Cardinality(J \ B) = Cardinality(J) - Cardinality(B)
  <2>1. J \cap B = B
    BY <1>5
  <2>2. Cardinality(J \ B) = Cardinality(J) - Cardinality(J \cap B)
    BY <1>2, FS_Difference
  <2> QED
    BY <2>1, <2>2
<1>14. Cardinality(I \ A) = Cardinality(I) - Cardinality(A)
  <2>1. I \cap A = A
    BY <1>5
  <2>2. Cardinality(I \ A) = Cardinality(I) - Cardinality(I \cap A)
    BY <1>2, FS_Difference
  <2> QED
    BY <2>1, <2>2
<1>15. Cardinality(B \ Y) = Cardinality(B) - Cardinality(Y)
  <2>1. B \cap Y = Y
    BY <1>5
  <2>2. Cardinality(B \ Y) = Cardinality(B) - Cardinality(B \cap Y)
    BY <1>12, FS_Difference
  <2> QED
    BY <2>1, <2>2
<1>16. Cardinality(A) \in Nat /\ Cardinality(B) \in Nat /\ Cardinality(Y) \in Nat
  BY <1>12, FS_CardinalityType
<1>17. /\ Cardinality(J \ B) + Cardinality(B) = Len(t)
       /\ Cardinality(I \ A) + Cardinality(B) = Len(s)
       /\ Cardinality(Y) + Cardinality(B \ Y) = Cardinality(B)
  BY <1>1, <1>2, <1>12, <1>13, <1>14, <1>15, <1>16
<1>18. /\ Cardinality(d.new) + Cardinality(d.persisting) = Len(t)
       /\ Cardinality(d.removed) + Cardinality(d.persisting) = Len(s)
       /\ Cardinality(d.changed) + d.unchanged = Cardinality(d.persisting)
  BY <1>6, <1>17
<1>19. d.new = back.removed /\ d.removed = back.new
  BY <1>6, <1>7, <1>10
<1>20. Cardinality(d.changed) = Cardinality(back.changed)
  BY <1>6, <1>7, <1>11, <1>12
<1> QED
  BY <1>18, <1>19, <1>20 DEF d, back

LEMMA CurrentIs ==
  ASSUME IInv
  PROVE  /\ Current = Scan(Current.findings) /\ Consolidated(Current.findings)
         /\ old # NoScan => old = Scan(old.findings) /\ Consolidated(old.findings)
<1>1. \A ds : Scan(ds).findings = ds
  BY DEF Scan
<1>2. Consolidated(FindingsOf(raw, known))
  BY FindingsOfType DEF IInv
<1>3. Current = Scan(Current.findings) /\ Consolidated(Current.findings)
  BY <1>1, <1>2 DEF Current
<1>4. ASSUME old # NoScan PROVE old = Scan(old.findings) /\ Consolidated(old.findings)
  BY <1>1, <1>4 DEF IInv
<1> QED
  BY <1>3, <1>4

\* Every finding of both scans is accounted for once, and what the comparison
\* calls new the reverse comparison calls removed.
THEOREM AlwaysDiffAccountsForAll == Spec => []DiffAccountsForAll
<1>1. IInv => DiffAccountsForAll
  <2> SUFFICES ASSUME IInv, old # NoScan PROVE DiffAccountsForAll
    BY DEF DiffAccountsForAll
  <2> DEFINE s == old.findings
             t == Current.findings
             now == Current
  <2>1. Consolidated(s) /\ Consolidated(t) /\ old = Scan(s) /\ now = Scan(t)
    BY CurrentIs
  <2> HIDE DEF s, t, now
  <2>2. LET d == Compare(old, now)
            back == Compare(now, old) IN
        /\ Cardinality(d.new) + Cardinality(d.persisting) = Len(t)
        /\ Cardinality(d.removed) + Cardinality(d.persisting) = Len(s)
        /\ Cardinality(d.changed) + d.unchanged = Cardinality(d.persisting)
        /\ d.new = back.removed
        /\ d.removed = back.new
        /\ Cardinality(d.changed) = Cardinality(back.changed)
    BY <2>1, CompareAccounts
  <2> QED
    BY <2>2 DEF DiffAccountsForAll, s, t, now
<1> QED
  BY <1>1, ScansAreConsolidated, PTL

\* A comparison without changes is of scans with the same rules, severities,
\* facts and score.
THEOREM AlwaysSilenceMeansSame == Spec => []SilenceMeansSame
<1>1. IInv => SilenceMeansSame
  <2> SUFFICES ASSUME IInv, old # NoScan, ~HasChanges(Compare(old, Current)) PROVE SilenceMeansSame
    BY DEF SilenceMeansSame
  <2> DEFINE s == old.findings
             t == Current.findings
             now == Current
             d == Compare(old, now)
             C == Meets(s, t)
             g(f) == <<f.rule, f.severity, FactsOf(f)>>
  <2>1. Consolidated(s) /\ Consolidated(t) /\ old = Scan(s) /\ now = Scan(t)
    BY CurrentIs
  <2>2. d.new = {} /\ d.removed = {} /\ d.changed = {} /\ d.scoreDelta = 0
    BY DEF HasChanges
  <2> HIDE DEF s, t, now
  <2>3. /\ ToSet(s) = {s[i] : i \in 1 .. Len(s)} /\ ToSet(t) = {t[j] : j \in 1 .. Len(t)}
    BY <2>1, LenProperties DEF Consolidated, ToSet
  <2>4. /\ d.new = (1 .. Len(t)) \ {p[2] : p \in C}
        /\ d.removed = (1 .. Len(s)) \ {p[1] : p \in C}
        /\ d.changed = {p[2] : p \in {q \in C : Inspect(s[q[1]], t[q[2]])}}
        /\ d.scoreDelta = Score(t) - Score(s)
    <3> DEFINE e == Compare(Scan(s), Scan(t))
    <3>1. e.new = (1 .. Len(t)) \ {p[2] : p \in C}
      BY <2>1, CompareIs
    <3>2. e.removed = (1 .. Len(s)) \ {p[1] : p \in C}
      BY <2>1, CompareIs
    <3>3. e.changed = {p[2] : p \in {q \in C : Inspect(s[q[1]], t[q[2]])}}
      BY <2>1, CompareIs
    <3>4. e.scoreDelta = Score(t) - Score(s)
      BY <2>1, CompareIs
    <3> HIDE DEF C
    <3> QED
      BY <2>1, <3>1, <3>2, <3>3, <3>4
  <2> HIDE DEF d
  <2>5. ASSUME NEW p \in C
        PROVE  /\ p[1] \in 1 .. Len(s) /\ p[2] \in 1 .. Len(t)
               /\ g(s[p[1]]) = g(t[p[2]])
    <3>1. p[1] \in 1 .. Len(s) /\ p[2] \in 1 .. Len(t) /\ s[p[1]].rule = t[p[2]].rule
      BY <2>1, MeetsFacts DEF Pairing
    <3>2. ~Inspect(s[p[1]], t[p[2]])
      <4>1. SUFFICES ASSUME Inspect(s[p[1]], t[p[2]]) PROVE FALSE
        OBVIOUS
      <4>2. p \in {q \in C : Inspect(s[q[1]], t[q[2]])}
        BY <4>1
      <4>3. p[2] \in d.changed
        BY <2>4, <4>2
      <4> QED
        BY <2>2, <4>3
    <3> QED
      BY <3>1, <3>2 DEF Inspect
  <2> HIDE DEF C
  <2>6. (\A i \in 1 .. Len(s) : \E p \in C : p[1] = i) /\ (\A j \in 1 .. Len(t) : \E p \in C : p[2] = j)
    BY <2>2, <2>4
  <2> HIDE DEF g
  <2>7. {g(f) : f \in ToSet(s)} = {g(s[i]) : i \in 1 .. Len(s)}
    BY <2>3
  <2>8. {g(f) : f \in ToSet(t)} = {g(t[j]) : j \in 1 .. Len(t)}
    BY <2>3
  <2>9. {g(s[i]) : i \in 1 .. Len(s)} = {g(t[j]) : j \in 1 .. Len(t)}
    BY <2>5, <2>6
  <2>10. {g(f) : f \in ToSet(s)} = {g(f) : f \in ToSet(t)}
    BY <2>7, <2>8, <2>9
  <2>11. Score(s) = Score(t)
    <3>1. Score(s) \in 0 .. 100 /\ Score(t) \in 0 .. 100 /\ Score(t) - Score(s) = 0
      BY <2>1, <2>2, <2>4, ScoreIs
    <3> QED
      BY <3>1
  <2>12. old.riskScore = now.riskScore
    BY <2>1, <2>11 DEF Scan
  <2> QED
    BY <2>10, <2>12 DEF SilenceMeansSame, s, t, now, g
<1> QED
  BY <1>1, ScansAreConsolidated, PTL

-----------------------------------------------------------------------------
(* Sums and products of more and greater numbers *)

\* ns without the item k, and without the last one.
Without(ns, k) == [i \in 1 .. Len(ns) - 1 |-> IF i < k THEN ns[i] ELSE ns[i + 1]]

LEMMA WithoutFacts ==
  ASSUME NEW E, NEW ns \in Seq(E), NEW k \in 1 .. Len(ns)
  PROVE  /\ Without(ns, k) \in Seq(E) /\ Len(Without(ns, k)) = Len(ns) - 1
         /\ \A i \in 1 .. Len(ns) - 1 : Without(ns, k)[i] = IF i < k THEN ns[i] ELSE ns[i + 1]
<1> DEFINE N == Len(ns)
           w == Without(ns, k)
<1>1. N \in Nat /\ N - 1 \in Nat /\ k \in 1 .. N /\ \A i \in 1 .. N : ns[i] \in E
  BY LenProperties, ElementOfSeq
<1> HIDE DEF N
<1>2. \A i \in 1 .. N - 1 : i \in 1 .. N /\ i + 1 \in 1 .. N
  BY <1>1
<1>3. w \in [1 .. N - 1 -> E] /\ \A i \in 1 .. N - 1 : w[i] = IF i < k THEN ns[i] ELSE ns[i + 1]
  BY <1>1, <1>2 DEF Without, N
<1> HIDE DEF w
<1>4. w \in Seq(E) /\ Len(w) = N - 1
  <2> DEFINE M == N - 1
  <2>1. M \in Nat /\ w \in [1 .. M -> E]
    BY <1>1, <1>3
  <2> HIDE DEF M
  <2>2. w \in Seq(E) /\ Len(w) = M
    BY <2>1, SeqDef, LenProperties
  <2> QED
    BY <2>2 DEF M
<1> QED
  BY <1>3, <1>4 DEF w, N

LEMMA TotalWithout ==
  ASSUME NEW ns \in Seq(Nat), NEW k \in 1 .. Len(ns)
  PROVE  /\ Total(ns) \in Nat /\ Total(Without(ns, k)) \in Nat
         /\ Total(ns) = Total(Without(ns, k)) + ns[k]
<1> DEFINE N == Len(ns)
           w == Without(ns, k)
           p == Adding(ns)
           q == Adding(w)
           S == {n \in 0 .. N : p[n] = IF n < k THEN q[n] ELSE q[n - 1] + ns[k]}
<1>1. /\ N \in Nat /\ N - 1 \in Nat /\ k \in 1 .. N /\ \A i \in 1 .. N : ns[i] \in Nat
  BY LenProperties, ElementOfSeq
<1>2. /\ w \in Seq(Nat) /\ Len(w) = N - 1
      /\ \A i \in 1 .. N - 1 : w[i] = IF i < k THEN ns[i] ELSE ns[i + 1]
  BY WithoutFacts
<1> HIDE DEF w
<1>3. /\ p \in [0 .. N -> Nat] /\ p[0] = 0 /\ \A n \in 1 .. N : p[n] = p[n - 1] + ns[n]
  BY AddingIs
<1>4. /\ q \in [0 .. N - 1 -> Nat] /\ q[0] = 0 /\ \A n \in 1 .. N - 1 : q[n] = q[n - 1] + w[n]
  BY <1>2, AddingIs
<1> HIDE DEF p, q, N
<1>5. 0 \in S
  BY <1>1, <1>3, <1>4
<1>6. ASSUME NEW n \in 0 .. N - 1, n \in S PROVE n + 1 \in S
  <2>1. n + 1 \in 1 .. N /\ (n + 1) - 1 = n /\ n + 1 \in 0 .. N /\ n \in 0 .. N - 1 /\ n \in Nat
    BY <1>1
  <2>2. p[n + 1] = p[n] + ns[n + 1]
    BY <1>3, <2>1
  <2>3. CASE n + 1 < k
    <3>1. n + 1 \in 1 .. N - 1 /\ w[n + 1] = ns[n + 1] /\ n < k
      BY <1>1, <1>2, <2>1, <2>3
    <3>2. q[n + 1] = q[n] + w[n + 1] /\ p[n] = q[n]
      BY <1>4, <1>6, <2>1, <3>1
    <3> QED
      BY <2>1, <2>2, <2>3, <3>1, <3>2
  <2>4. CASE n + 1 = k
    <3>1. p[n] = q[n]
      BY <1>1, <1>6, <2>4
    <3> QED
      BY <2>1, <2>2, <2>4, <3>1
  <2>5. CASE ~(n < k)
    <3>1. n \in 1 .. N - 1 /\ w[n] = ns[n + 1] /\ ~(n + 1 < k) /\ n - 1 \in 0 .. N - 1
      BY <1>1, <1>2, <2>1, <2>5
    <3>2. q[n] = q[n - 1] + ns[n + 1] /\ p[n] = q[n - 1] + ns[k]
      BY <1>4, <1>6, <2>5, <3>1
    <3>3. q[n - 1] \in Nat /\ ns[k] \in Nat /\ ns[n + 1] \in Nat
      BY <1>1, <1>4, <2>1, <3>1
    <3>4. p[n + 1] = q[n] + ns[k]
      BY <2>2, <3>2, <3>3
    <3> QED
      BY <2>1, <3>1, <3>4
  <2> QED
    BY <1>1, <2>1, <2>3, <2>4, <2>5
<1>7. N \in S
  <2> HIDE DEF S
  <2>1. \A n \in 0 .. N : n \in S
    BY <1>1, <1>5, <1>6, UpTo
  <2> QED
    BY <1>1, <2>1
<1>8. p[N] = q[N - 1] + ns[k] /\ p[N] \in Nat /\ q[N - 1] \in Nat
  <2>1. N \in 0 .. N /\ N - 1 \in 0 .. N - 1 /\ ~(N < k)
    BY <1>1
  <2> QED
    BY <1>3, <1>4, <1>7, <2>1
<1> QED
  BY <1>2, <1>8 DEF Total, p, q, N, w

LEMMA ProductWithout ==
  ASSUME NEW ns \in Seq(Nat), NEW k \in 1 .. Len(ns)
  PROVE  /\ Product(ns) \in Nat /\ Product(Without(ns, k)) \in Nat
         /\ Product(ns) = Product(Without(ns, k)) * ns[k]
<1> DEFINE N == Len(ns)
           w == Without(ns, k)
           p == Multiplying(ns)
           q == Multiplying(w)
           S == {n \in 0 .. N : p[n] = IF n < k THEN q[n] ELSE q[n - 1] * ns[k]}
<1>1. /\ N \in Nat /\ N - 1 \in Nat /\ k \in 1 .. N /\ \A i \in 1 .. N : ns[i] \in Nat
  BY LenProperties, ElementOfSeq
<1>2. /\ w \in Seq(Nat) /\ Len(w) = N - 1
      /\ \A i \in 1 .. N - 1 : w[i] = IF i < k THEN ns[i] ELSE ns[i + 1]
  BY WithoutFacts
<1> HIDE DEF w
<1>3. /\ p \in [0 .. N -> Nat] /\ p[0] = 1 /\ \A n \in 1 .. N : p[n] = p[n - 1] * ns[n]
  BY MultiplyingIs
<1>4. /\ q \in [0 .. N - 1 -> Nat] /\ q[0] = 1 /\ \A n \in 1 .. N - 1 : q[n] = q[n - 1] * w[n]
  BY <1>2, MultiplyingIs
<1> HIDE DEF p, q, N
<1>5. 0 \in S
  BY <1>1, <1>3, <1>4
<1>6. ASSUME NEW n \in 0 .. N - 1, n \in S PROVE n + 1 \in S
  <2>1. n + 1 \in 1 .. N /\ (n + 1) - 1 = n /\ n + 1 \in 0 .. N /\ n \in 0 .. N - 1 /\ n \in Nat
    BY <1>1
  <2>2. p[n + 1] = p[n] * ns[n + 1]
    BY <1>3, <2>1
  <2>3. CASE n + 1 < k
    <3>1. n + 1 \in 1 .. N - 1 /\ w[n + 1] = ns[n + 1] /\ n < k
      BY <1>1, <1>2, <2>1, <2>3
    <3>2. q[n + 1] = q[n] * w[n + 1] /\ p[n] = q[n]
      BY <1>4, <1>6, <2>1, <3>1
    <3> QED
      BY <2>1, <2>2, <2>3, <3>1, <3>2
  <2>4. CASE n + 1 = k
    <3>1. p[n] = q[n]
      BY <1>1, <1>6, <2>4
    <3> QED
      BY <2>1, <2>2, <2>4, <3>1
  <2>5. CASE ~(n < k)
    <3>1. n \in 1 .. N - 1 /\ w[n] = ns[n + 1] /\ ~(n + 1 < k) /\ n - 1 \in 0 .. N - 1
      BY <1>1, <1>2, <2>1, <2>5
    <3>2. q[n] = q[n - 1] * ns[n + 1] /\ p[n] = q[n - 1] * ns[k]
      BY <1>4, <1>6, <2>5, <3>1
    <3> DEFINE a == q[n - 1]  b == ns[k]  c == ns[n + 1]
    <3>3. a \in Nat /\ b \in Nat /\ c \in Nat
      BY <1>1, <1>4, <2>1, <3>1
    <3>4. p[n + 1] = (a * b) * c /\ q[n] * b = (a * c) * b
      BY <2>2, <3>2
    <3> HIDE DEF a, b, c
    <3>5. (a * b) * c = (a * c) * b
      BY <3>3
    <3>6. p[n + 1] = q[n] * ns[k]
      BY <3>4, <3>5 DEF b
    <3> QED
      BY <2>1, <3>1, <3>6
  <2> QED
    BY <1>1, <2>1, <2>3, <2>4, <2>5
<1>7. N \in S
  <2> HIDE DEF S
  <2>1. \A n \in 0 .. N : n \in S
    BY <1>1, <1>5, <1>6, UpTo
  <2> QED
    BY <1>1, <2>1
<1>8. p[N] = q[N - 1] * ns[k] /\ p[N] \in Nat /\ q[N - 1] \in Nat
  <2>1. N \in 0 .. N /\ N - 1 \in 0 .. N - 1 /\ ~(N < k)
    BY <1>1
  <2> QED
    BY <1>3, <1>4, <1>7, <2>1
<1> QED
  BY <1>2, <1>8 DEF Product, p, q, N, w

\* Every number of ws has another number of vs that is no smaller.
CoversBy(u, ws, vs) ==
  /\ u \in [1 .. Len(ws) -> 1 .. Len(vs)]
  /\ \A i, j \in 1 .. Len(ws) : u[i] = u[j] => i = j
  /\ \A i \in 1 .. Len(ws) : ws[i] <= vs[u[i]]
Covers(ws, vs) == \E u : CoversBy(u, ws, vs)

LEMMA CoversWithout ==
  ASSUME NEW E, NEW ws \in Seq(E), NEW vs \in Seq(E), Covers(ws, vs),
         NEW n, n = Len(ws), n # 0
  PROVE  \E j \in 1 .. Len(vs) :
           ws[n] <= vs[j] /\ Covers(Without(ws, n), Without(vs, j))
<1> DEFINE M == Len(vs)
<1>1. n \in Nat /\ n \in 1 .. n /\ n - 1 \in Nat /\ M \in Nat
  BY LenProperties
<1>2. PICK u : CoversBy(u, ws, vs)
  BY DEF Covers
<1>3. /\ u \in [1 .. n -> 1 .. M]
      /\ \A i, j \in 1 .. n : u[i] = u[j] => i = j
      /\ \A i \in 1 .. n : ws[i] <= vs[u[i]]
  BY <1>2 DEF CoversBy
<1> DEFINE j == u[n]
           a == Without(ws, n)
           b == Without(vs, j)
           t == [i \in 1 .. n - 1 |-> IF u[i] < j THEN u[i] ELSE u[i] - 1]
<1>4. j \in 1 .. M /\ ws[n] <= vs[j]
  BY <1>1, <1>3
<1>5. /\ Len(a) = n - 1
      /\ \A i \in 1 .. n - 1 : a[i] = IF i < n THEN ws[i] ELSE ws[i + 1]
  BY <1>1, WithoutFacts
<1>6. /\ Len(b) = M - 1
      /\ \A i \in 1 .. M - 1 : b[i] = IF i < j THEN vs[i] ELSE vs[i + 1]
  <2> HIDE DEF j
  <2> QED
    BY <1>4, WithoutFacts
<1> HIDE DEF M, j, a, b
<1>7. \A i \in 1 .. n - 1 : i \in 1 .. n /\ i < n /\ u[i] \in 1 .. M /\ u[i] # j
  BY <1>1, <1>3 DEF j
<1>8. ASSUME NEW i \in 1 .. n - 1
      PROVE  t[i] \in 1 .. M - 1 /\ a[i] <= b[t[i]]
  <2>1. a[i] = ws[i] /\ ws[i] <= vs[u[i]] /\ u[i] \in 1 .. M /\ u[i] # j
    BY <1>3, <1>5, <1>7
  <2>2. t[i] = IF u[i] < j THEN u[i] ELSE u[i] - 1
    OBVIOUS
  <2> DEFINE x == u[i]
             y == t[i]
  <2> HIDE DEF t, x, y
  <2>3. y \in 1 .. M - 1 /\ (IF y < j THEN y ELSE y + 1) = x
    <3>1. x \in 1 .. M /\ x # j /\ j \in 1 .. M /\ y = IF x < j THEN x ELSE x - 1
      BY <1>4, <2>1, <2>2 DEF x, y
    <3> QED
      BY <1>1, <3>1
  <2>4. b[y] = vs[x]
    BY <1>6, <2>3
  <2> QED
    BY <2>1, <2>3, <2>4 DEF x, y
<1>9. ASSUME NEW i \in 1 .. n - 1, NEW k \in 1 .. n - 1, t[i] = t[k] PROVE i = k
  <2>1. u[i] \in 1 .. M /\ u[i] # j /\ u[k] \in 1 .. M /\ u[k] # j /\ j \in 1 .. M
    BY <1>4, <1>7
  <2>2. t[i] = (IF u[i] < j THEN u[i] ELSE u[i] - 1) /\ t[k] = IF u[k] < j THEN u[k] ELSE u[k] - 1
    OBVIOUS
  <2> DEFINE x == u[i]
             y == u[k]
  <2> HIDE DEF t, x, y
  <2>3. x = y
    <3>1. /\ x \in 1 .. M /\ x # j /\ y \in 1 .. M /\ y # j /\ j \in 1 .. M
          /\ (IF x < j THEN x ELSE x - 1) = (IF y < j THEN y ELSE y - 1)
      BY <1>9, <2>1, <2>2 DEF x, y
    <3> QED
      BY <1>1, <3>1
  <2> QED
    BY <1>3, <1>7, <2>3 DEF x, y
<1>10. CoversBy(t, a, b)
  <2>1. t \in [1 .. n - 1 -> 1 .. M - 1]
    BY <1>8
  <2> HIDE DEF t
  <2> QED
    BY <1>5, <1>6, <1>8, <1>9, <2>1 DEF CoversBy
<1>11. Covers(a, b)
  BY <1>10 DEF Covers
<1> QED
  BY <1>4, <1>11 DEF a, b, M

\* A sum of more and greater numbers is greater.
LEMMA CoversTotal ==
  ASSUME NEW ws \in Seq(Nat), NEW vs \in Seq(Nat), Covers(ws, vs)
  PROVE  Total(ws) <= Total(vs)
<1> DEFINE Good(n) == \A xs, ys \in Seq(Nat) :
                        Len(xs) = n /\ Covers(xs, ys) => Total(xs) <= Total(ys)
           S == {n \in Nat : Good(n)}
<1>1. \A xs \in Seq(Nat) : Total(xs) \in Nat /\ (Len(xs) = 0 => Total(xs) = 0)
  <2> TAKE xs \in Seq(Nat)
  <2>1. /\ Adding(xs) \in [0 .. Len(xs) -> Nat] /\ Len(xs) \in 0 .. Len(xs)
        /\ Adding(xs)[0] = 0
    BY AddingIs, LenProperties
  <2> QED
    BY <2>1 DEF Total
<1>2. 0 \in S
  <2>1. ASSUME NEW xs \in Seq(Nat), NEW ys \in Seq(Nat), Len(xs) = 0
        PROVE  Total(xs) <= Total(ys)
    <3>1. Total(xs) = 0 /\ Total(ys) \in Nat
      BY <1>1, <2>1
    <3> HIDE DEF S, Good
    <3> QED
      BY <3>1
  <2> QED
    BY <2>1
<1>3. ASSUME NEW n \in Nat, n \in S PROVE n + 1 \in S
  <2>1. SUFFICES ASSUME NEW xs \in Seq(Nat), NEW ys \in Seq(Nat), Len(xs) = n + 1, Covers(xs, ys)
                 PROVE  Total(xs) <= Total(ys)
    OBVIOUS
  <2> DEFINE L == n + 1
             a == Without(xs, L)
  <2>2. L = Len(xs) /\ L # 0 /\ L \in 1 .. Len(xs) /\ L - 1 = n
    BY <2>1
  <2> HIDE DEF L
  <2>3. PICK j \in 1 .. Len(ys) : xs[L] <= ys[j] /\ Covers(Without(xs, L), Without(ys, j))
    BY <2>1, <2>2, CoversWithout
  <2> DEFINE b == Without(ys, j)
  <2>4. a \in Seq(Nat) /\ b \in Seq(Nat) /\ Len(a) = n
    BY <2>2, WithoutFacts
  <2>5. Total(xs) = Total(a) + xs[L] /\ Total(ys) = Total(b) + ys[j]
    BY <2>2, TotalWithout
  <2>6. xs[L] \in Nat /\ ys[j] \in Nat
    BY <2>2, ElementOfSeq
  <2>7. Covers(a, b)
    BY <2>3
  <2> HIDE DEF a, b
  <2>8. Total(a) <= Total(b)
    BY <1>3, <2>4, <2>7
  <2>9. Total(a) \in Nat /\ Total(b) \in Nat
    BY <1>1, <2>4
  <2> DEFINE p == Total(a)  q == Total(b)  x == xs[L]  y == ys[j]
  <2>10. p \in Nat /\ q \in Nat /\ x \in Nat /\ y \in Nat /\ p <= q /\ x <= y
    BY <2>3, <2>6, <2>8, <2>9
  <2> HIDE DEF S, Good, p, q, x, y
  <2>11. p + x <= q + y
    BY <2>10
  <2> QED
    BY <2>5, <2>11 DEF p, q, x, y
<1>4. \A n \in Nat : n \in S
  <2> HIDE DEF S
  <2> QED
    BY <1>2, <1>3, Induction
<1>5. Good(Len(ws))
  BY <1>4, LenProperties
<1> QED
  BY <1>5

LEMMA CoversSelf ==
  ASSUME NEW ws \in Seq(Nat)
  PROVE  Covers(ws, ws)
<1> DEFINE u == [i \in 1 .. Len(ws) |-> i]
<1>1. \A i \in 1 .. Len(ws) : ws[i] \in Nat /\ ws[i] <= ws[i]
  <2> TAKE i \in 1 .. Len(ws)
  <2>1. ws[i] \in Nat
    BY ElementOfSeq
  <2> QED
    BY <2>1
<1>2. CoversBy(u, ws, ws)
  BY <1>1 DEF CoversBy
<1> QED
  BY <1>2 DEF Covers

LEMMA CoversConcat ==
  ASSUME NEW a \in Seq(Nat), NEW b \in Seq(Nat), NEW c \in Seq(Nat), NEW d \in Seq(Nat),
         Covers(a, b), Covers(c, d)
  PROVE  Covers(a \o c, b \o d)
<1> DEFINE la == Len(a)  lb == Len(b)  lc == Len(c)  ld == Len(d)
           x == a \o c
           y == b \o d
<1>1. la \in Nat /\ lb \in Nat /\ lc \in Nat /\ ld \in Nat
  BY LenProperties
<1>2. /\ Len(x) = la + lc
      /\ \A i \in 1 .. la + lc : x[i] = IF i <= la THEN a[i] ELSE c[i - la]
  BY ConcatProperties
<1>3. /\ Len(y) = lb + ld
      /\ \A i \in 1 .. lb + ld : y[i] = IF i <= lb THEN b[i] ELSE d[i - lb]
  BY ConcatProperties
<1>4. PICK u : CoversBy(u, a, b)
  BY DEF Covers
<1>5. PICK v : CoversBy(v, c, d)
  BY DEF Covers
<1>6. /\ \A i \in 1 .. la : u[i] \in 1 .. lb /\ a[i] <= b[u[i]]
      /\ \A i, j \in 1 .. la : u[i] = u[j] => i = j
  BY <1>4 DEF CoversBy
<1>7. /\ \A i \in 1 .. lc : v[i] \in 1 .. ld /\ c[i] <= d[v[i]]
      /\ \A i, j \in 1 .. lc : v[i] = v[j] => i = j
  BY <1>5 DEF CoversBy
<1> DEFINE w == [i \in 1 .. la + lc |-> IF i <= la THEN u[i] ELSE lb + v[i - la]]
<1> HIDE DEF la, lb, lc, ld, x, y
<1>8. \A i \in 1 .. la + lc : w[i] = IF i <= la THEN u[i] ELSE lb + v[i - la]
  OBVIOUS
<1>9. \A i \in 1 .. la + lc : IF i <= la THEN i \in 1 .. la ELSE i - la \in 1 .. lc
  BY <1>1
<1>10. DOMAIN w = 1 .. la + lc /\ w = [i \in 1 .. la + lc |-> w[i]]
  OBVIOUS
<1> HIDE DEF w
<1>11. ASSUME NEW i \in 1 .. la + lc
       PROVE  w[i] \in 1 .. lb + ld /\ x[i] <= y[w[i]]
  <2>1. CASE i <= la
    <3>1. i \in 1 .. la /\ w[i] = u[i] /\ x[i] = a[i]
      BY <1>2, <1>8, <1>9, <2>1
    <3>2. u[i] \in 1 .. lb /\ a[i] <= b[u[i]]
      BY <1>6, <3>1
    <3>3. u[i] \in 1 .. lb + ld /\ u[i] <= lb
      BY <1>1, <3>2
    <3>4. y[u[i]] = b[u[i]]
      BY <1>3, <3>3
    <3> QED
      BY <3>1, <3>2, <3>3, <3>4
  <2>2. CASE ~(i <= la)
    <3> DEFINE k == i - la
               r == v[k]
    <3>1. k \in 1 .. lc /\ w[i] = lb + r /\ x[i] = c[k]
      BY <1>2, <1>8, <1>9, <2>2
    <3>2. r \in 1 .. ld /\ c[k] <= d[r]
      BY <1>7, <3>1
    <3> HIDE DEF r, k
    <3>3. lb + r \in 1 .. lb + ld /\ ~(lb + r <= lb) /\ (lb + r) - lb = r
      BY <1>1, <3>2
    <3>4. y[lb + r] = d[r]
      BY <1>3, <3>3
    <3> QED
      BY <3>1, <3>2, <3>3, <3>4
  <2> QED
    BY <2>1, <2>2
<1>12. ASSUME NEW i \in 1 .. la + lc, NEW j \in 1 .. la + lc, w[i] = w[j] PROVE i = j
  <2>1. CASE i <= la /\ j <= la
    BY <1>6, <1>8, <1>9, <1>12, <2>1
  <2>2. CASE ~(i <= la) /\ ~(j <= la)
    <3> DEFINE k == i - la
               l == j - la
               p == v[k]
               q == v[l]
    <3>1. k \in 1 .. lc /\ l \in 1 .. lc /\ w[i] = lb + p /\ w[j] = lb + q
      BY <1>8, <1>9, <2>2
    <3>2. p \in 1 .. ld /\ q \in 1 .. ld
      BY <1>7, <3>1
    <3> HIDE DEF p, q
    <3>3. p = q
      <4>1. lb + p = lb + q
        BY <1>12, <3>1
      <4>2. p \in Nat /\ q \in Nat
        BY <1>1, <3>2
      <4> QED
        BY <1>1, <4>1, <4>2
    <3>4. k = l
      BY <1>7, <3>1, <3>3 DEF p, q
    <3> QED
      BY <1>1, <3>4
  <2>3. CASE i <= la /\ ~(j <= la)
    <3> DEFINE p == u[i]
               q == v[j - la]
    <3>1. w[i] = p /\ w[j] = lb + q /\ p \in 1 .. lb /\ q \in 1 .. ld
      BY <1>6, <1>7, <1>8, <1>9, <2>3
    <3> HIDE DEF p, q
    <3>2. p = lb + q
      BY <1>12, <3>1
    <3>3. p \in Nat /\ p <= lb /\ q \in Nat /\ q >= 1
      BY <1>1, <3>1
    <3> QED
      BY <1>1, <3>2, <3>3
  <2>4. CASE ~(i <= la) /\ j <= la
    <3> DEFINE p == u[j]
               q == v[i - la]
    <3>1. w[j] = p /\ w[i] = lb + q /\ p \in 1 .. lb /\ q \in 1 .. ld
      BY <1>6, <1>7, <1>8, <1>9, <2>4
    <3> HIDE DEF p, q
    <3>2. p = lb + q
      BY <1>12, <3>1
    <3>3. p \in Nat /\ p <= lb /\ q \in Nat /\ q >= 1
      BY <1>1, <3>1
    <3> QED
      BY <1>1, <3>2, <3>3
  <2> QED
    BY <2>1, <2>2, <2>3, <2>4
<1>13. CoversBy(w, x, y)
  <2>1. w \in [1 .. la + lc -> 1 .. lb + ld]
    BY <1>10, <1>11
  <2> QED
    BY <1>2, <1>3, <1>11, <1>12, <2>1 DEF CoversBy
<1> QED
  BY <1>13 DEF Covers, x, y

LEMMA CoversTypes ==
  ASSUME NEW T, NEW U, IsFiniteSet(U), T \subseteq U
  PROVE  Covers(TypeWeights(T), TypeWeights(U))
<1> DEFINE s == SetToSeq(T)  t == SetToSeq(U)
           m == Cardinality(T)  n == Cardinality(U)
           ws == TypeWeights(T)  vs == TypeWeights(U)
<1>1. IsFiniteSet(T)
  <2>1. T \in SUBSET U
    OBVIOUS
  <2> QED
    BY <2>1, FS_Subset
<1>2. /\ s \in Seq(T) /\ ToSet(s) = T /\ Len(s) = m /\ IsInjective(s)
      /\ t \in Seq(U) /\ ToSet(t) = U /\ Len(t) = n
  BY <1>1, SetToSeqFacts
<1>3. /\ ws \in Seq(Weights) /\ Len(ws) = m
      /\ \A i \in 1 .. m : ws[i] = EvidenceWeight(s[i])
      /\ vs \in Seq(Weights) /\ Len(vs) = n
      /\ \A i \in 1 .. n : vs[i] = EvidenceWeight(t[i])
  BY <1>1, TypeWeightsFacts
<1> HIDE DEF s, t, m, n, ws, vs
<1>4. \A i \in 1 .. m : \E j \in 1 .. n : t[j] = s[i]
  <2>1. \A i \in 1 .. m : s[i] \in T
    BY <1>2, ElementOfSeq
  <2>2. \A e \in U : \E j \in 1 .. n : t[j] = e
    BY <1>2, ItemsOf
  <2> QED
    BY <2>1, <2>2
<1> DEFINE u == [i \in 1 .. m |-> CHOOSE j \in 1 .. n : t[j] = s[i]]
<1>5. \A i \in 1 .. m : u[i] \in 1 .. n /\ t[u[i]] = s[i]
  BY <1>4
<1>6. u \in [1 .. m -> 1 .. n]
  BY <1>5
<1> HIDE DEF u
<1>7. \A i, j \in 1 .. m : u[i] = u[j] => i = j
  <2>1. DOMAIN s = 1 .. m
    BY <1>2, LenProperties
  <2> QED
    BY <1>2, <1>5, <2>1 DEF IsInjective
<1>8. \A i \in 1 .. m : ws[i] <= vs[u[i]]
  <2> TAKE i \in 1 .. m
  <2>1. ws[i] = vs[u[i]]
    BY <1>3, <1>5
  <2>2. ws[i] \in 1 .. 19
    BY <1>3, ElementOfSeq DEF Weights
  <2> QED
    BY <2>1, <2>2
<1>9. CoversBy(u, ws, vs)
  BY <1>3, <1>6, <1>7, <1>8 DEF CoversBy
<1> QED
  BY <1>9 DEF Covers, ws, vs

LEMMA CoversPeers ==
  ASSUME NEW m \in Nat, NEW n \in Nat, m <= n
  PROVE  Covers([i \in 1 .. m |-> 4], [i \in 1 .. n |-> 4])
<1> DEFINE ws == [i \in 1 .. m |-> 4]  vs == [i \in 1 .. n |-> 4]
           u == [i \in 1 .. m |-> i]
<1>1. ws \in [1 .. m -> Nat] /\ vs \in [1 .. n -> Nat]
  OBVIOUS
<1>2. /\ \A i \in 1 .. m : ws[i] = 4 /\ i \in 1 .. n /\ u[i] = i
      /\ \A i \in 1 .. n : vs[i] = 4
      /\ u \in [1 .. m -> 1 .. n]
  OBVIOUS
<1> HIDE DEF ws, vs, u
<1>3. Len(ws) = m /\ Len(vs) = n
  BY <1>1, SeqDef, LenProperties
<1>4. CoversBy(u, ws, vs)
  BY <1>2, <1>3 DEF CoversBy
<1> QED
  BY <1>4 DEF Covers, ws, vs

LEMMA ScaleWithout ==
  ASSUME NEW ws \in Seq(Weights), NEW k \in 1 .. Len(ws)
  PROVE  /\ Scale(ws) = Scale(Without(ws, k)) * 20
         /\ Doubt(ws) = Doubt(Without(ws, k)) * (20 - ws[k])
<1> DEFINE N == Len(ws)
           w == Without(ws, k)
           twenties == [i \in DOMAIN ws |-> 20]
           doubts == [i \in DOMAIN ws |-> 20 - ws[i]]
           twenties1 == [i \in DOMAIN w |-> 20]
           doubts1 == [i \in DOMAIN w |-> 20 - w[i]]
<1>1. N \in Nat /\ k \in 1 .. N /\ DOMAIN ws = 1 .. N /\ \A i \in 1 .. N : ws[i] \in 1 .. 19
  BY LenProperties, ElementOfSeq DEF Weights
<1>2. /\ w \in Seq(Weights) /\ Len(w) = N - 1
      /\ \A i \in 1 .. N - 1 : w[i] = IF i < k THEN ws[i] ELSE ws[i + 1]
  BY WithoutFacts
<1> HIDE DEF w, N
<1>3. DOMAIN w = 1 .. N - 1 /\ \A i \in 1 .. N - 1 : w[i] \in 1 .. 19
  BY <1>2, LenProperties, ElementOfSeq DEF Weights
<1>4. /\ twenties \in Seq(Nat) /\ Len(twenties) = N /\ \A i \in 1 .. N : twenties[i] = 20
      /\ doubts \in Seq(Nat) /\ Len(doubts) = N /\ \A i \in 1 .. N : doubts[i] = 20 - ws[i]
  <2>1. \A i \in 1 .. N : 20 - ws[i] \in Nat
    <3> TAKE i \in 1 .. N
    <3> DEFINE e == ws[i]
    <3>1. e \in 1 .. 19
      BY <1>1
    <3> HIDE DEF e
    <3>2. 20 - e \in Nat
      BY <3>1
    <3> QED
      BY <3>2 DEF e
  <2>2. twenties \in [1 .. N -> Nat] /\ doubts \in [1 .. N -> Nat]
    BY <1>1, <2>1
  <2> QED
    BY <1>1, <2>2, SeqDef, LenProperties
<1>5. /\ twenties1 \in Seq(Nat) /\ Len(twenties1) = N - 1 /\ \A i \in 1 .. N - 1 : twenties1[i] = 20
      /\ doubts1 \in Seq(Nat) /\ Len(doubts1) = N - 1 /\ \A i \in 1 .. N - 1 : doubts1[i] = 20 - w[i]
  <2> DEFINE M == N - 1
  <2>0. \A i \in 1 .. M : 20 - w[i] \in Nat
    <3> TAKE i \in 1 .. M
    <3> DEFINE e == w[i]
    <3>1. e \in 1 .. 19
      BY <1>3
    <3> HIDE DEF e
    <3>2. 20 - e \in Nat
      BY <3>1
    <3> QED
      BY <3>2 DEF e
  <2>1. M \in Nat /\ twenties1 \in [1 .. M -> Nat] /\ doubts1 \in [1 .. M -> Nat]
    BY <1>1, <1>3, <2>0
  <2>2. (\A i \in 1 .. M : twenties1[i] = 20) /\ \A i \in 1 .. M : doubts1[i] = 20 - w[i]
    BY <1>3
  <2> HIDE DEF M, twenties1, doubts1
  <2>3. twenties1 \in Seq(Nat) /\ Len(twenties1) = M /\ doubts1 \in Seq(Nat) /\ Len(doubts1) = M
    BY <2>1, SeqDef, LenProperties
  <2> QED
    BY <2>2, <2>3 DEF M
<1> HIDE DEF twenties, doubts, twenties1, doubts1
<1>6. \A i \in 1 .. N - 1 : i \in 1 .. N /\ i + 1 \in 1 .. N
  BY <1>1
<1>7. Without(twenties, k) = twenties1
  <2>0. k \in 1 .. Len(twenties)
    BY <1>1, <1>4
  <2>1. /\ Without(twenties, k) \in Seq(Nat) /\ Len(Without(twenties, k)) = N - 1
        /\ \A i \in 1 .. N - 1 :
             Without(twenties, k)[i] = IF i < k THEN twenties[i] ELSE twenties[i + 1]
    BY <1>4, <2>0, WithoutFacts
  <2>2. \A i \in 1 .. N - 1 : Without(twenties, k)[i] = twenties1[i]
    BY <1>4, <1>5, <1>6, <2>1
  <2> QED
    BY <1>5, <2>1, <2>2, SeqEqual
<1>8. Without(doubts, k) = doubts1
  <2>0. k \in 1 .. Len(doubts)
    BY <1>1, <1>4
  <2>1. /\ Without(doubts, k) \in Seq(Nat) /\ Len(Without(doubts, k)) = N - 1
        /\ \A i \in 1 .. N - 1 : Without(doubts, k)[i] = IF i < k THEN doubts[i] ELSE doubts[i + 1]
    BY <1>4, <2>0, WithoutFacts
  <2>2. \A i \in 1 .. N - 1 : Without(doubts, k)[i] = doubts1[i]
    BY <1>2, <1>4, <1>5, <1>6, <2>1
  <2> QED
    BY <1>5, <2>1, <2>2, SeqEqual
<1>9. Product(twenties) = Product(twenties1) * 20
  <2>1. Product(twenties) = Product(Without(twenties, k)) * twenties[k]
    BY <1>1, <1>4, ProductWithout
  <2> QED
    BY <1>1, <1>4, <1>7, <2>1
<1>10. Product(doubts) = Product(doubts1) * (20 - ws[k])
  <2>1. Product(doubts) = Product(Without(doubts, k)) * doubts[k]
    BY <1>1, <1>4, ProductWithout
  <2> QED
    BY <1>1, <1>4, <1>8, <2>1
<1> QED
  BY <1>9, <1>10 DEF Scale, Doubt, twenties, twenties1, doubts, doubts1, w

\* More and greater weights leave less doubt.
LEMMA CoversDoubt ==
  ASSUME NEW ws \in Seq(Weights), NEW vs \in Seq(Weights), Covers(ws, vs)
  PROVE  Doubt(vs) * Scale(ws) <= Doubt(ws) * Scale(vs)
<1> DEFINE Good(n) == \A xs, ys \in Seq(Weights) :
                        Len(xs) = n /\ Covers(xs, ys) =>
                          Doubt(ys) * Scale(xs) <= Doubt(xs) * Scale(ys)
           S == {n \in Nat : Good(n)}
<1>1. 0 \in S
  <2>1. ASSUME NEW xs \in Seq(Weights), NEW ys \in Seq(Weights), Len(xs) = 0
        PROVE  Doubt(ys) * Scale(xs) <= Doubt(xs) * Scale(ys)
    <3> HIDE DEF S, Good
    <3>1. DOMAIN xs = 1 .. 0
      BY <2>1, LenProperties
    <3>2. \A ns \in [1 .. 0 -> Nat] : Product(ns) = 1
      <4> TAKE ns \in [1 .. 0 -> Nat]
      <4>1. ns \in Seq(Nat) /\ Len(ns) = 0
        BY SeqDef, LenProperties
      <4> QED
        BY <4>1, MultiplyingIs DEF Product
    <3>3. [i \in DOMAIN xs |-> 20] \in [1 .. 0 -> Nat] /\ [i \in DOMAIN xs |-> 20 - xs[i]] \in [1 .. 0 -> Nat]
      BY <3>1
    <3>4. Scale(xs) = 1 /\ Doubt(xs) = 1
      BY <3>2, <3>3 DEF Scale, Doubt
    <3>5. Doubt(ys) \in Nat /\ Scale(ys) \in Nat /\ Doubt(ys) <= Scale(ys)
      BY WeightedConfidenceType
    <3> QED
      BY <3>4, <3>5
  <2> QED
    BY <2>1
<1>2. ASSUME NEW n \in Nat, n \in S PROVE n + 1 \in S
  <2>1. SUFFICES ASSUME NEW xs \in Seq(Weights), NEW ys \in Seq(Weights),
                        Len(xs) = n + 1, Covers(xs, ys)
                 PROVE  Doubt(ys) * Scale(xs) <= Doubt(xs) * Scale(ys)
    OBVIOUS
  <2> DEFINE L == n + 1
             a == Without(xs, L)
  <2>2. L = Len(xs) /\ L # 0 /\ L \in 1 .. Len(xs) /\ L - 1 = n
    BY <2>1
  <2> HIDE DEF L
  <2>3. PICK j \in 1 .. Len(ys) : xs[L] <= ys[j] /\ Covers(Without(xs, L), Without(ys, j))
    BY <2>1, <2>2, CoversWithout
  <2> DEFINE b == Without(ys, j)
  <2>4. a \in Seq(Weights) /\ b \in Seq(Weights) /\ Len(a) = n
    BY <2>2, WithoutFacts
  <2> DEFINE x == 20 - xs[L]  y == 20 - ys[j]
             A == Doubt(a)  B == Doubt(b)  U == Scale(a)  V == Scale(b)
  <2>5. /\ Scale(xs) = U * 20 /\ Scale(ys) = V * 20
        /\ Doubt(xs) = A * x /\ Doubt(ys) = B * y
    BY <2>2, ScaleWithout
  <2>6. x \in Nat /\ y \in Nat /\ y <= x
    <3> DEFINE p == xs[L]  r == ys[j]
    <3>1. p \in 1 .. 19 /\ r \in 1 .. 19
      BY <2>2, ElementOfSeq DEF Weights
    <3>2. p <= r
      BY <2>3
    <3> HIDE DEF p, r, S, Good, A, B, U, V
    <3>3. 20 - p \in Nat /\ 20 - r \in Nat /\ 20 - r <= 20 - p
      BY <3>1, <3>2
    <3> QED
      BY <3>3 DEF p, r
  <2>7. Covers(a, b)
    BY <2>3
  <2> HIDE DEF a, b, x, y
  <2>8. B * U <= A * V
    BY <1>2, <2>4, <2>7
  <2>9. A \in Nat /\ B \in Nat /\ U \in Nat /\ V \in Nat
    BY <2>4, WeightedConfidenceType
  <2> HIDE DEF S, Good, A, B, U, V
  <2>10. (B * U) * (y * 20) <= (A * V) * (x * 20)
    <3>1. y * 20 \in Nat /\ x * 20 \in Nat /\ y * 20 <= x * 20
      BY <2>6
    <3>2. B * U \in Nat /\ A * V \in Nat
      BY <2>9
    <3> QED
      BY <2>8, <3>1, <3>2, Times
  <2>11. /\ (B * U) * (y * 20) = (B * y) * (U * 20)
         /\ (A * V) * (x * 20) = (A * x) * (V * 20)
    BY <2>6, <2>9
  <2> QED
    BY <2>5, <2>10, <2>11
<1>3. \A n \in Nat : n \in S
  <2> HIDE DEF S
  <2> QED
    BY <1>1, <1>2, Induction
<1>4. Good(Len(ws))
  BY <1>3, LenProperties
<1> QED
  BY <1>4

LEMMA Division ==
  ASSUME NEW a \in Nat, NEW b \in Nat \ {0}
  PROVE  /\ a \div b \in Nat /\ (a \div b) * b <= a
         /\ \A q \in Nat : q * b <= a => q <= a \div b
<1> DEFINE d == a \div b
           r == a % b
<1>1. d \in Nat /\ r \in Nat /\ r < b /\ a = d * b + r
  OBVIOUS
<1> HIDE DEF d, r
<1>2. d * b <= a
  <2>1. d * b \in Nat
    BY <1>1
  <2> QED
    BY <1>1, <2>1
<1>3. ASSUME NEW q \in Nat, q * b <= a PROVE q <= d
  <2>1. SUFFICES ASSUME d + 1 <= q PROVE FALSE
    BY <1>1
  <2>2. (d + 1) * b <= q * b
    BY <1>1, <2>1, Times
  <2>3. (d + 1) * b = d * b + b
    BY <1>1
  <2>4. d * b \in Nat /\ q * b \in Nat
    BY <1>1
  <2> QED
    BY <1>1, <1>3, <2>2, <2>3, <2>4
<1> QED
  BY <1>1, <1>2, <1>3 DEF d

\* More and greater weights are more confidence.
LEMMA ConfidenceMonotone ==
  ASSUME NEW ws \in Seq(Weights), NEW vs \in Seq(Weights), ws # <<>>, Covers(ws, vs)
  PROVE  WeightedConfidence(ws) <= WeightedConfidence(vs)
<1> DEFINE Half(xs) == Scale(xs) \div 2
           Of(xs) == (100 * (Scale(xs) - Doubt(xs)) + Scale(xs) \div 2) \div Scale(xs)
<1>1. vs # <<>>
  <2>1. Len(ws) \in Nat /\ Len(ws) # 0
    BY LenProperties, EmptySeq
  <2>2. 1 \in 1 .. Len(ws)
    BY <2>1
  <2>3. \E k : k \in 1 .. Len(vs)
    BY <2>2 DEF Covers, CoversBy
  <2> QED
    BY <2>3
<1>2. ASSUME NEW xs \in Seq(Weights), xs # <<>>
      PROVE  /\ WeightedConfidence(xs) = IF Of(xs) > 99 THEN 99 ELSE Of(xs)
             /\ Half(xs) \in Nat /\ Scale(xs) = Half(xs) * 2
  <2>1. WeightedConfidence(xs) = IF Of(xs) > 99 THEN 99 ELSE Of(xs)
    BY <1>2 DEF WeightedConfidence, Scale, Doubt
  <2>2. 1 \in 1 .. Len(xs)
    <3>1. Len(xs) \in Nat /\ Len(xs) # 0
      BY <1>2, LenProperties, EmptySeq
    <3> QED
      BY <3>1
  <2> DEFINE r == Scale(Without(xs, 1))
             z == Scale(xs)
  <2>3. r \in Nat /\ z = r * 20
    <3>1. Without(xs, 1) \in Seq(Weights)
      BY <2>2, WithoutFacts
    <3> QED
      BY <2>2, <3>1, ScaleWithout, WeightedConfidenceType
  <2> HIDE DEF r, z
  <2>4. z \div 2 \in Nat /\ z = (z \div 2) * 2
    BY <2>3
  <2> QED
    BY <2>1, <2>4 DEF z
<1> DEFINE S == Scale(ws)  A == Doubt(ws)  T == Scale(vs)  B == Doubt(vs)
           s == Half(ws)  t == Half(vs)
           x == 100 * (S - A) + s
           y == 100 * (T - B) + t
           q == x \div S
<1>3. /\ S \in Nat \ {0} /\ T \in Nat \ {0} /\ A \in Nat /\ B \in Nat /\ A <= S /\ B <= T
      /\ s \in Nat /\ t \in Nat /\ S = s * 2 /\ T = t * 2
  BY <1>1, <1>2, WeightedConfidenceType
<1>4. B * S <= A * T
  BY CoversDoubt
<1>5. Of(ws) = x \div S /\ Of(vs) = y \div T
  OBVIOUS
<1>6. /\ WeightedConfidence(ws) = IF Of(ws) > 99 THEN 99 ELSE Of(ws)
      /\ WeightedConfidence(vs) = IF Of(vs) > 99 THEN 99 ELSE Of(vs)
  BY <1>1, <1>2
<1> HIDE DEF Of, Half, S, A, T, B, s, t
<1>7. x \in Nat /\ y \in Nat
  BY <1>3
<1>8. S * y = 100 * (S * T - B * S) + S * t /\ T * x = 100 * (S * T - A * T) + T * s
  BY <1>3
<1>9. S * t = T * s
  BY <1>3
<1>10. T * x <= S * y
  <2> DEFINE st == S * T  at == A * T  bs == B * S  u == S * t
  <2>1. st \in Nat /\ at \in Nat /\ bs \in Nat /\ u \in Nat
    BY <1>3
  <2>2. S * y = 100 * (st - bs) + u /\ T * x = 100 * (st - at) + u /\ bs <= at
    BY <1>4, <1>8, <1>9
  <2> HIDE DEF st, at, bs, u
  <2> QED
    BY <2>1, <2>2
<1> HIDE DEF x, y
<1>11. q \in Nat /\ q * S <= x
  BY <1>3, <1>7, Division
<1> HIDE DEF q
<1>12. q * T <= y
  <2>1. SUFFICES ASSUME y + 1 <= q * T PROVE FALSE
    <3>1. q * T \in Nat
      BY <1>3, <1>11
    <3> QED
      BY <1>7, <2>1, <3>1
  <2>2. q * S \in Nat /\ q * T \in Nat
    BY <1>3, <1>11
  <2>3. T * (q * S) <= T * x
    BY <1>3, <1>7, <1>11, <2>2, Times
  <2>4. S * (y + 1) <= S * (q * T)
    BY <1>3, <1>7, <2>1, <2>2, Times
  <2>5. S * (q * T) = T * (q * S) /\ S * (y + 1) = S * y + S
    BY <1>3, <1>7, <1>11
  <2> DEFINE e == S * (q * T)  f == S * y  g == T * x
  <2>6. e \in Int /\ f \in Int /\ g \in Int
    BY <1>3, <1>7, <1>11
  <2>7. e <= g /\ g <= f /\ f + S <= e
    BY <1>10, <2>3, <2>4, <2>5
  <2> HIDE DEF e, f, g
  <2> QED
    BY <1>3, <2>6, <2>7
<1>13. q <= y \div T /\ y \div T \in Nat
  BY <1>3, <1>7, <1>11, <1>12, Division
<1>14. Of(ws) = q
  BY <1>5 DEF q
<1> QED
  BY <1>5, <1>6, <1>11, <1>13, <1>14

LEMMA Naturals ==
  ASSUME NEW ws \in Seq(Weights)
  PROVE  ws \in Seq(Nat)
<1>1. Weights \subseteq Nat
  BY DEF Weights
<1> QED
  BY <1>1, SeqMonotonic

LEMMA Infra002Monotone ==
  ASSUME NEW T, NEW U, T \subseteq U
  PROVE  Infra002Confidence(T) <= Infra002Confidence(U)
<1> DEFINE three == {"fingerprint", "tls", "hostname"}
           ip == <<EvidenceWeight("ip")>>
           ws == TypeWeights(T \cap three)
           vs == TypeWeights(U \cap three)
<1>1. ip \in Seq(Weights) /\ Len(ip) = 1
  <2>1. EvidenceWeight("ip") \in Weights
    BY EvidenceWeightType
  <2> QED
    BY <2>1
<1>2. ws \in Seq(Weights) /\ vs \in Seq(Weights)
  BY FewTypes, TypeWeightsFacts
<1>3. Covers(ws, vs)
  <2>1. IsFiniteSet(U \cap three) /\ T \cap three \subseteq U \cap three
    BY FewTypes
  <2> HIDE DEF three
  <2> QED
    BY <2>1, CoversTypes
<1>4. /\ Infra002Confidence(T) = WeightedConfidence(ip \o ws)
      /\ Infra002Confidence(U) = WeightedConfidence(ip \o vs)
  BY DEF Infra002Confidence
<1> HIDE DEF ip, ws, vs
<1> DEFINE x == ip \o ws  y == ip \o vs
<1>5. x \in Seq(Weights) /\ y \in Seq(Weights) /\ x # <<>>
  BY <1>1, <1>2, ConcatProperties, EmptySeq, LenProperties
<1>6. Covers(x, y)
  <2>1. ip \in Seq(Nat) /\ ws \in Seq(Nat) /\ vs \in Seq(Nat)
    BY <1>1, <1>2, Naturals
  <2> QED
    BY <1>3, <2>1, CoversSelf, CoversConcat
<1> HIDE DEF x, y
<1>7. WeightedConfidence(x) <= WeightedConfidence(y)
  BY <1>5, <1>6, ConfidenceMonotone
<1> QED
  BY <1>4, <1>7 DEF x, y

LEMMA Infra004Monotone ==
  ASSUME NEW E, NEW F, IsFiniteSet(F), E \subseteq F, E # {}
  PROVE  Infra004Confidence(E) <= Infra004Confidence(F)
<1> DEFINE T == {e.fact.type : e \in E}
           U == {e.fact.type : e \in F}
           P == SharedPeers(E)
           Q == SharedPeers(F)
           m == Cardinality(P) - 1
           n == Cardinality(Q) - 1
           ten == <<10>>
           ws == TypeWeights(T)
           vs == TypeWeights(U)
           ps == [i \in 1 .. m |-> 4]
           qs == [i \in 1 .. n |-> 4]
<1>1. IsFiniteSet(E) /\ F # {}
  <2>1. E \in SUBSET F
    OBVIOUS
  <2> QED
    BY <2>1, FS_Subset
<1>2. IsFiniteSet(T) /\ IsFiniteSet(U) /\ T \subseteq U
  BY <1>1, Infra004ConfidenceType
<1>3. m \in Nat /\ n \in Nat /\ m <= n
  <2>1. P \in SUBSET Q
    BY DEF SharedPeers
  <2>2. IsFiniteSet(Q)
    BY <1>1, Infra004ConfidenceType
  <2>3. Cardinality(P) \in Nat \ {0} /\ Cardinality(Q) \in Nat \ {0}
    BY <1>1, Infra004ConfidenceType
  <2> HIDE DEF P, Q
  <2>4. Cardinality(P) <= Cardinality(Q)
    BY <2>1, <2>2, FS_Subset
  <2> QED
    BY <2>3, <2>4
<1>4. /\ Infra004Confidence(E) = Maximum(75, WeightedConfidence((ten \o ws) \o ps))
      /\ Infra004Confidence(F) = Maximum(75, WeightedConfidence((ten \o vs) \o qs))
  BY DEF Infra004Confidence
<1> HIDE DEF T, U, m, n
<1>5. ten \in Seq(Weights) /\ Len(ten) = 1
  <2>1. 10 \in Weights
    BY DEF Weights
  <2> QED
    BY <2>1
<1>6. ws \in Seq(Weights) /\ vs \in Seq(Weights)
  BY <1>2, TypeWeightsFacts
<1>7. ps \in Seq(Weights) /\ qs \in Seq(Weights)
  <2>1. ps \in [1 .. m -> Weights] /\ qs \in [1 .. n -> Weights]
    BY DEF Weights
  <2> HIDE DEF ps, qs
  <2> QED
    BY <1>3, <2>1, SeqDef
<1>8. Covers(ws, vs)
  BY <1>2, CoversTypes
<1>9. Covers(ps, qs)
  BY <1>3, CoversPeers
<1> HIDE DEF ten, ws, vs, ps, qs
<1> DEFINE x == ten \o ws  y == ten \o vs
<1>10. x \in Seq(Weights) /\ y \in Seq(Weights) /\ Len(x) = 1 + Len(ws) /\ Len(ws) \in Nat
  BY <1>5, <1>6, ConcatProperties, LenProperties
<1>11. Covers(x, y)
  <2>1. ten \in Seq(Nat) /\ ws \in Seq(Nat) /\ vs \in Seq(Nat)
    BY <1>5, <1>6, Naturals
  <2> QED
    BY <1>8, <2>1, CoversSelf, CoversConcat
<1> HIDE DEF x, y
<1> DEFINE u == x \o ps  v == y \o qs
<1>12. u \in Seq(Weights) /\ v \in Seq(Weights)
  BY <1>7, <1>10, ConcatProperties
<1>13. u # <<>>
  <2>1. Len(u) = Len(x) + Len(ps) /\ Len(ps) \in Nat
    BY <1>7, <1>10, ConcatProperties, LenProperties
  <2>2. Len(u) # 0
    BY <1>10, <2>1
  <2> HIDE DEF u
  <2> QED
    BY <1>12, <2>2, EmptySeq
<1>14. Covers(u, v)
  <2>1. x \in Seq(Nat) /\ y \in Seq(Nat) /\ ps \in Seq(Nat) /\ qs \in Seq(Nat)
    BY <1>7, <1>10, Naturals
  <2> QED
    BY <1>9, <1>11, <2>1, CoversConcat
<1> HIDE DEF u, v
<1>15. /\ WeightedConfidence(u) <= WeightedConfidence(v)
       /\ WeightedConfidence(u) \in 0 .. 99 /\ WeightedConfidence(v) \in 0 .. 99
  BY <1>12, <1>13, <1>14, ConfidenceMonotone, WeightedConfidenceType
<1>16. Maximum(75, WeightedConfidence(u)) <= Maximum(75, WeightedConfidence(v))
  BY <1>15 DEF Maximum
<1> QED
  BY <1>4, <1>16 DEF u, v, x, y

-----------------------------------------------------------------------------
(* More findings *)

\* g is a finding of f's rule that says no less than f.
Less(f, g) ==
  /\ f.rule = g.rule
  /\ f.severity <= g.severity
  /\ f.confidence <= g.confidence
  /\ ToSet(f.evidence) \subseteq ToSet(g.evidence)

\* Nothing that fs say is missing from gs.
Below(fs, gs) == \A i \in 1 .. Len(fs) : \E j \in 1 .. Len(gs) : Less(fs[i], gs[j])

LEMMA BelowAppend ==
  ASSUME NEW fs \in Seq(Finding), NEW gs \in Seq(Finding), Below(fs, gs), NEW e \in Finding
  PROVE  /\ Below(fs, Append(gs, e))
         /\ \A d \in Finding : Less(d, e) => Below(Append(fs, d), Append(gs, e))
<1> DEFINE b == Append(gs, e)
<1>1. /\ Len(gs) \in Nat /\ Len(b) = Len(gs) + 1 /\ b[Len(gs) + 1] = e
      /\ \A j \in 1 .. Len(gs) : b[j] = gs[j]
  BY AppendIs
<1> HIDE DEF b
<1>2. ASSUME NEW i \in 1 .. Len(fs) PROVE \E j \in 1 .. Len(b) : Less(fs[i], b[j])
  <2>1. PICK j \in 1 .. Len(gs) : Less(fs[i], gs[j])
    BY DEF Below
  <2>2. j \in 1 .. Len(b) /\ b[j] = gs[j]
    BY <1>1
  <2> QED
    BY <2>1, <2>2
<1>3. ASSUME NEW d \in Finding, Less(d, e) PROVE Below(Append(fs, d), b)
  <2> DEFINE a == Append(fs, d)
  <2>1. /\ Len(fs) \in Nat /\ Len(a) = Len(fs) + 1 /\ a[Len(fs) + 1] = d
        /\ \A j \in 1 .. Len(fs) : a[j] = fs[j]
    BY AppendIs
  <2> HIDE DEF a
  <2>2. ASSUME NEW i \in 1 .. Len(a) PROVE \E j \in 1 .. Len(b) : Less(a[i], b[j])
    <3>1. CASE i \in 1 .. Len(fs)
      BY <1>2, <2>1, <3>1
    <3>2. CASE i = Len(fs) + 1
      <4>1. Len(gs) + 1 \in 1 .. Len(b) /\ a[i] = d /\ b[Len(gs) + 1] = e
        BY <1>1, <2>1, <3>2
      <4> QED
        BY <1>3, <4>1
    <3> QED
      BY <2>1, <3>1, <3>2
  <2> QED
    BY <2>2 DEF Below, a
<1> QED
  BY <1>2, <1>3 DEF Below, b

\* Findings that are all among others.
LEMMA BelowAmong ==
  ASSUME NEW fs \in Seq(Finding), NEW gs,
         \A i \in 1 .. Len(fs) : \E j \in 1 .. Len(gs) : gs[j] = fs[i]
  PROVE  Below(fs, gs)
<1>1. ASSUME NEW f \in Finding PROVE Less(f, f)
  <2> DEFINE a == f.severity  b == f.confidence
  <2>1. a \in 0 .. 4 /\ b \in 0 .. 100
    BY FindingFields
  <2> HIDE DEF a, b
  <2>2. a <= a /\ b <= b
    BY <2>1
  <2> QED
    BY <2>2 DEF Less, a, b
<1>2. \A i \in 1 .. Len(fs) : fs[i] \in Finding
  BY ElementOfSeq
<1> QED
  BY <1>1, <1>2 DEF Below

LEMMA BelowItems ==
  ASSUME NEW fs, NEW gs, Below(fs, gs)
  PROVE  Items(fs) \subseteq Items(gs) /\ OwnFacts(fs) \subseteq OwnFacts(gs)
<1>1. ASSUME NEW i \in 1 .. Len(fs), NEW e \in ToSet(fs[i].evidence)
      PROVE  \E j \in 1 .. Len(gs) : gs[j].rule = fs[i].rule /\ e \in ToSet(gs[j].evidence)
  <2>1. PICK j \in 1 .. Len(gs) : Less(fs[i], gs[j])
    BY DEF Below
  <2> QED
    BY <2>1 DEF Less
<1>2. Items(fs) \subseteq Items(gs)
  BY <1>1 DEF Items
<1> DEFINE own(hs) == UNION {ToSet(hs[i].evidence) :
                               i \in {k \in 1 .. Len(hs) : hs[k].rule \notin Correlated}}
<1>3. own(fs) \subseteq own(gs)
  <2> SUFFICES ASSUME NEW e \in own(fs) PROVE e \in own(gs)
    OBVIOUS
  <2>1. PICK i \in 1 .. Len(fs) : fs[i].rule \notin Correlated /\ e \in ToSet(fs[i].evidence)
    OBVIOUS
  <2>2. PICK j \in 1 .. Len(gs) : gs[j].rule \notin Correlated /\ e \in ToSet(gs[j].evidence)
    BY <1>1, <2>1
  <2> QED
    BY <2>2
<1>4. \A hs : OwnFacts(hs) = {e.fact : e \in {d \in own(hs) : d.fact.type \in CrossTypes}}
  BY DEF OwnFacts
<1> HIDE DEF own
<1> QED
  BY <1>2, <1>3, <1>4

\* Consolidation, too, loses nothing of more findings.
LEMMA BelowDeduplicate ==
  ASSUME NEW fs \in Seq(Finding), NEW gs \in Seq(Finding), Below(fs, gs)
  PROVE  Below(DeduplicateFindings(fs), DeduplicateFindings(gs))
<1> DEFINE c == DeduplicateFindings(fs)  d == DeduplicateFindings(gs)
<1>1. ConsolidatesTo(fs, Len(fs), c) /\ ConsolidatesTo(gs, Len(gs), d)
  BY Deduplicates
<1> HIDE DEF c, d
<1>2. SUFFICES ASSUME NEW i \in 1 .. Len(c) PROVE \E m \in 1 .. Len(d) : Less(c[i], d[m])
  BY DEF Below, c, d
<1> DEFINE r == c[i].rule
           S == Group(fs, Len(fs), r)
           T == Group(gs, Len(gs), r)
<1>3. SumsUp(c[i], S)
  BY <1>1, <1>2 DEF ConsolidatesTo
<1>4. ASSUME NEW f \in S PROVE \E g \in T : Less(f, g)
  <2>1. PICK k \in 1 .. Len(fs) : fs[k].rule = r /\ f = fs[k]
    BY <1>4 DEF Group
  <2>2. PICK j \in 1 .. Len(gs) : Less(fs[k], gs[j])
    BY DEF Below
  <2>3. gs[j] \in T
    BY <2>1, <2>2 DEF Group, Less
  <2> QED
    BY <2>1, <2>2, <2>3
<1>5. PICK m \in 1 .. Len(d) : d[m].rule = r
  <2>1. PICK g \in T : TRUE
    BY <1>3, <1>4 DEF SumsUp
  <2>2. PICK j \in 1 .. Len(gs) : gs[j].rule = r
    BY <2>1 DEF Group
  <2> QED
    BY <1>1, <2>2 DEF ConsolidatesTo
<1>6. SumsUp(d[m], T)
  BY <1>1, <1>5 DEF ConsolidatesTo
<1>7. c[i] \in Finding /\ d[m] \in Finding /\ S \subseteq Finding /\ T \subseteq Finding
  <2>1. \A k \in 1 .. Len(fs) : fs[k] \in Finding
    BY ElementOfSeq
  <2>2. \A k \in 1 .. Len(gs) : gs[k] \in Finding
    BY ElementOfSeq
  <2>3. c \in Seq(Finding) /\ d \in Seq(Finding)
    BY <1>1 DEF ConsolidatesTo
  <2>4. c[i] \in Finding /\ d[m] \in Finding
    BY <2>3, ElementOfSeq
  <2> QED
    BY <2>1, <2>2, <2>4 DEF Group
<1> HIDE DEF S, T
<1>8. c[i].severity <= d[m].severity
  <2>1. PICK f \in S : c[i].severity = f.severity
    BY <1>3 DEF SumsUp
  <2>2. PICK g \in T : f.severity <= g.severity
    BY <1>4 DEF Less
  <2>3. g.severity <= d[m].severity
    BY <1>6 DEF SumsUp
  <2> DEFINE x == f.severity  y == g.severity  z == d[m].severity
  <2>4. x \in 0 .. 4 /\ y \in 0 .. 4 /\ z \in 0 .. 4 /\ x <= y /\ y <= z
    BY <1>7, <2>2, <2>3, FindingFields
  <2> HIDE DEF x, y, z
  <2>5. x <= z
    BY <2>4
  <2> QED
    BY <2>1, <2>5 DEF x, z
<1>9. c[i].confidence <= d[m].confidence
  <2>1. PICK f \in S : c[i].confidence = f.confidence
    BY <1>3 DEF SumsUp
  <2>2. PICK g \in T : f.confidence <= g.confidence
    BY <1>4 DEF Less
  <2>3. g.confidence <= d[m].confidence
    BY <1>6 DEF SumsUp
  <2> DEFINE x == f.confidence  y == g.confidence  z == d[m].confidence
  <2>4. x \in 0 .. 100 /\ y \in 0 .. 100 /\ z \in 0 .. 100 /\ x <= y /\ y <= z
    BY <1>7, <2>2, <2>3, FindingFields
  <2> HIDE DEF x, y, z
  <2>5. x <= z
    BY <2>4
  <2> QED
    BY <2>1, <2>5 DEF x, z
<1>10. ToSet(c[i].evidence) \subseteq ToSet(d[m].evidence)
  <2>1. \A f \in S : \E g \in T : ToSet(f.evidence) \subseteq ToSet(g.evidence)
    BY <1>4 DEF Less
  <2>2. /\ ToSet(c[i].evidence) = UNION {ToSet(f.evidence) : f \in S}
        /\ ToSet(d[m].evidence) = UNION {ToSet(f.evidence) : f \in T}
    BY <1>3, <1>6 DEF SumsUp
  <2> QED
    BY <2>1, <2>2
<1> QED
  BY <1>5, <1>8, <1>9, <1>10 DEF Less

\* So does the correlation in the scan,
LEMMA BelowSameScan ==
  ASSUME NEW fs \in Seq(Finding), NEW gs \in Seq(Finding), Below(fs, gs)
  PROVE  Below(SameScan(fs), SameScan(gs))
<1> DEFINE T == {e.fact.type : e \in Items(fs)}
           U == {e.fact.type : e \in Items(gs)}
           d == Infra002Finding(fs)
           e == Infra002Finding(gs)
<1>1. Items(fs) \subseteq Items(gs) /\ T \subseteq U
  BY BelowItems
<1>2. /\ d \in Finding /\ d.rule = Infra002 /\ d.severity = High
      /\ d.confidence = Infra002Confidence(T)
      /\ ToSet(d.evidence) = {x \in Items(fs) : x.fact.type \in {"ip"}}
  BY Infra002Facts
<1>3. /\ e \in Finding /\ e.rule = Infra002 /\ e.severity = High
      /\ e.confidence = Infra002Confidence(U)
      /\ ToSet(e.evidence) = {x \in Items(gs) : x.fact.type \in {"ip"}}
  BY Infra002Facts
<1>4. /\ SameScan(fs) = IF {"ip", "fingerprint"} \subseteq T THEN Append(fs, d) ELSE fs
      /\ SameScan(gs) = IF {"ip", "fingerprint"} \subseteq U THEN Append(gs, e) ELSE gs
  BY SameScanCases
<1> HIDE DEF T, U, d, e
<1>5. Less(d, e)
  <2>1. Infra002Confidence(T) <= Infra002Confidence(U)
    BY <1>1, Infra002Monotone
  <2>2. ToSet(d.evidence) \subseteq ToSet(e.evidence)
    BY <1>1, <1>2, <1>3
  <2>3. d.severity <= e.severity
    BY <1>2, <1>3 DEF High
  <2> QED
    BY <1>2, <1>3, <2>1, <2>2, <2>3 DEF Less
<1>6. CASE {"ip", "fingerprint"} \subseteq T
  <2>1. SameScan(fs) = Append(fs, d) /\ SameScan(gs) = Append(gs, e)
    BY <1>1, <1>4, <1>6
  <2> QED
    BY <1>2, <1>3, <1>5, <2>1, BelowAppend
<1>7. CASE ~({"ip", "fingerprint"} \subseteq T)
  <2>1. SameScan(fs) = fs
    BY <1>4, <1>7
  <2>2. SameScan(gs) = gs \/ SameScan(gs) = Append(gs, e)
    BY <1>4
  <2> QED
    BY <1>3, <2>1, <2>2, BelowAppend
<1> QED
  BY <1>6, <1>7

\* and the one with other targets.
LEMMA BelowCrossTargets ==
  ASSUME NEW fs, NEW gs, Plain(fs), Plain(gs), Below(fs, gs),
         NEW kn \in [Facts -> SUBSET Peers]
  PROVE  Below(CrossTargets(fs, kn), CrossTargets(gs, kn))
<1> DEFINE E == SharedItems(OwnFacts(fs), kn)
           F == SharedItems(OwnFacts(gs), kn)
<1>1. fs \in Seq(Finding) /\ gs \in Seq(Finding)
  BY DEF Plain
<1>2. E \subseteq F
  BY BelowItems DEF SharedItems
<1>3. \/ E = {} /\ CrossTargets(fs, kn) = fs
      \/ /\ E # {} /\ IsFiniteSet(E)
         /\ \E d : Infra004Finding(d, E) /\ CrossTargets(fs, kn) = Append(fs, d)
  BY CrossTargetsCases
<1>4. \/ F = {} /\ CrossTargets(gs, kn) = gs
      \/ /\ F # {} /\ IsFiniteSet(F)
         /\ \E d : Infra004Finding(d, F) /\ CrossTargets(gs, kn) = Append(gs, d)
  BY CrossTargetsCases
<1> HIDE DEF E, F
<1>5. CASE E = {}
  <2>1. CrossTargets(fs, kn) = fs
    BY <1>3, <1>5
  <2>2. \/ CrossTargets(gs, kn) = gs
        \/ \E d \in Finding : CrossTargets(gs, kn) = Append(gs, d)
    BY <1>4 DEF Infra004Finding
  <2> QED
    BY <1>1, <2>1, <2>2, BelowAppend
<1>6. CASE E # {}
  <2>1. PICK d : Infra004Finding(d, E) /\ CrossTargets(fs, kn) = Append(fs, d)
    BY <1>3, <1>6
  <2>2. F # {} /\ IsFiniteSet(F)
    BY <1>2, <1>4, <1>6
  <2>3. PICK e : Infra004Finding(e, F) /\ CrossTargets(gs, kn) = Append(gs, e)
    BY <1>4, <2>2
  <2>4. Infra004Confidence(E) <= Infra004Confidence(F)
    BY <1>2, <1>6, <2>2, Infra004Monotone
  <2>5. d.severity <= e.severity
    BY <2>1, <2>3 DEF Infra004Finding, High
  <2>6. d \in Finding /\ e \in Finding /\ Less(d, e)
    BY <1>2, <2>1, <2>3, <2>4, <2>5 DEF Infra004Finding, Less
  <2> QED
    BY <1>1, <2>1, <2>3, <2>6, BelowAppend
<1> QED
  BY <1>5, <1>6

\* A scan whose analyzers say more says more.
LEMMA BelowFindingsOf ==
  ASSUME NEW fs \in Seq(Emitted), NEW gs \in Seq(Emitted), Below(fs, gs), NEW kn \in Knowledge
  PROVE  Below(FindingsOf(fs, kn), FindingsOf(gs, kn))
<1> DEFINE a == DeduplicateFindings(fs)  b == DeduplicateFindings(gs)
           c == SameScan(a)  d == SameScan(b)
           x == CorrelateWithStore(a, kn)  y == CorrelateWithStore(b, kn)
<1>1. /\ fs \in Seq(Finding) /\ gs \in Seq(Finding) /\ Plain(fs) /\ Plain(gs)
      /\ kn \in [Facts -> SUBSET Peers]
  BY EmittedPlain, EmittedAssumption
<1>2. Plain(a) /\ Plain(b)
  BY <1>1, DeduplicatePlain
<1>3. Below(a, b)
  BY <1>1, BelowDeduplicate
<1>4. x = CrossTargets(c, kn) /\ y = CrossTargets(d, kn)
  BY DEF CorrelateWithStore
<1>5. FindingsOf(fs, kn) = DeduplicateFindings(x) /\ FindingsOf(gs, kn) = DeduplicateFindings(y)
  BY DEF FindingsOf
<1> HIDE DEF a, b, x, y
<1>6. Plain(c) /\ Plain(d)
  BY <1>2, SameScanPlain
<1>7. Below(c, d)
  <2>1. a \in Seq(Finding) /\ b \in Seq(Finding)
    BY <1>2 DEF Plain
  <2> QED
    BY <1>3, <2>1, BelowSameScan
<1> HIDE DEF c, d
<1>8. Below(x, y)
  BY <1>1, <1>4, <1>6, <1>7, BelowCrossTargets
<1>9. x \in Seq(Finding) /\ y \in Seq(Finding)
  BY <1>1, <1>2, CorrelateType DEF x, y
<1> QED
  BY <1>5, <1>8, <1>9, BelowDeduplicate

LEMMA WeightMonotone ==
  ASSUME NEW f \in Finding, NEW g \in Finding, Less(f, g)
  PROVE  Weight(f) <= Weight(g)
<1> DEFINE a == f.severity  b == g.severity  x == f.confidence  y == g.confidence
           v == SeverityWeight[a]  w == SeverityWeight[b]
<1>1. a \in 0 .. 4 /\ b \in 0 .. 4 /\ a <= b /\ x \in 0 .. 100 /\ y \in 0 .. 100 /\ x <= y
  BY FindingFields DEF Less
<1>2. v \in Nat /\ w \in Nat /\ Weight(f) = v * x /\ Weight(g) = w * y
  BY WeightType
<1> HIDE DEF a, b, x, y
<1>3. v <= w
  <2>1. /\ SeverityWeight[0] = 0 /\ SeverityWeight[1] = 5 /\ SeverityWeight[2] = 15
        /\ SeverityWeight[3] = 30 /\ SeverityWeight[4] = 50
    BY DEF SeverityWeight, Severities
  <2>2. a = 0 \/ a = 1 \/ a = 2 \/ a = 3 \/ a = 4
    BY <1>1
  <2>3. b = 0 \/ b = 1 \/ b = 2 \/ b = 3 \/ b = 4
    BY <1>1
  <2> QED
    BY <1>1, <2>1, <2>2, <2>3
<1> HIDE DEF v, w
<1>4. v * x <= w * y
  BY <1>1, <1>2, <1>3, Times
<1> QED
  BY <1>2, <1>4

\* And scores no less.
LEMMA ScoreMonotone ==
  ASSUME NEW s, NEW t, Consolidated(s), Consolidated(t), Below(s, t)
  PROVE  Score(s) <= Score(t)
<1> DEFINE ws == WeightsOf(s)  vs == WeightsOf(t)
           u == [i \in 1 .. Len(s) |-> CHOOSE j \in 1 .. Len(t) : Less(s[i], t[j])]
<1>1. s \in Seq(Finding) /\ t \in Seq(Finding)
  BY DEF Consolidated
<1>2. /\ ws \in Seq(Nat) /\ Len(ws) = Len(s) /\ \A i \in 1 .. Len(s) : ws[i] = Weight(s[i])
      /\ vs \in Seq(Nat) /\ Len(vs) = Len(t) /\ \A i \in 1 .. Len(t) : vs[i] = Weight(t[i])
  BY <1>1, WeightsOfFacts
<1>3. /\ Score(s) = Capped(Total(ws)) /\ Total(ws) \in Nat
      /\ Score(t) = Capped(Total(vs)) /\ Total(vs) \in Nat
  BY ScoreIs
<1> HIDE DEF ws, vs
<1>4. \A i \in 1 .. Len(s) : u[i] \in 1 .. Len(t) /\ Less(s[i], t[u[i]])
  BY DEF Below
<1>5. u \in [1 .. Len(s) -> 1 .. Len(t)]
  BY <1>4
<1> HIDE DEF u
<1>6. \A i, j \in 1 .. Len(s) : u[i] = u[j] => i = j
  BY <1>4 DEF Less, Consolidated
<1>7. \A i \in 1 .. Len(s) : ws[i] <= vs[u[i]]
  <2> TAKE i \in 1 .. Len(s)
  <2> DEFINE f == s[i]  g == t[u[i]]
  <2>1. f \in Finding /\ g \in Finding /\ Less(f, g)
    BY <1>1, <1>4, ElementOfSeq
  <2>2. ws[i] = Weight(f) /\ vs[u[i]] = Weight(g)
    BY <1>2, <1>4
  <2> HIDE DEF f, g
  <2> QED
    BY <2>1, <2>2, WeightMonotone
<1>8. Covers(ws, vs)
  BY <1>2, <1>5, <1>6, <1>7 DEF Covers, CoversBy
<1>9. Total(ws) <= Total(vs)
  BY <1>2, <1>8, CoversTotal
<1>10. \A m, n \in Nat : m <= n => Capped(m) <= Capped(n)
  BY DEF Capped
<1> QED
  BY <1>3, <1>9, <1>10

\* No finding makes a target look safer: what the scan reports of more findings
\* says no less of every rule, the correlations with their confidences included.
THEOREM AlwaysRiskNeverFalls == Spec => []RiskNeverFalls
<1>1. IInv => RiskNeverFalls
  <2> SUFFICES ASSUME IInv, NEW f \in Emitted
               PROVE  Scan(FindingsOf(Append(raw, f), known)).riskScore >= Current.riskScore
    BY DEF RiskNeverFalls
  <2> DEFINE s == FindingsOf(raw, known)
             more == Append(raw, f)
             t == FindingsOf(more, known)
  <2>1. raw \in Seq(Emitted) /\ known \in Knowledge
    BY DEF IInv
  <2>2. more \in Seq(Emitted)
    BY <2>1, AppendProperties
  <2>3. Below(raw, more)
    <3>1. raw \in Seq(Finding) /\ f \in Finding
      <4>1. more \in Seq(Finding) /\ raw \in Seq(Finding)
        BY <2>1, <2>2, EmittedPlain
      <4>2. Len(more) = Len(raw) + 1 /\ more[Len(raw) + 1] = f /\ Len(raw) \in Nat
        BY <2>1, AppendProperties, LenProperties
      <4>3. Len(raw) + 1 \in 1 .. Len(more)
        BY <4>2
      <4> QED
        BY <4>1, <4>2, <4>3, ElementOfSeq
    <3> QED
      BY <3>1, BelowAmong, BelowAppend
  <2> HIDE DEF more
  <2>4. Consolidated(s) /\ Consolidated(t)
    BY <2>1, <2>2, FindingsOfType
  <2>5. Below(s, t)
    BY <2>1, <2>2, <2>3, BelowFindingsOf
  <2> HIDE DEF s, t
  <2>6. Score(s) <= Score(t) /\ Score(s) \in 0 .. 100 /\ Score(t) \in 0 .. 100
    BY <2>4, <2>5, ScoreMonotone, ScoreIs
  <2>7. Score(t) >= Score(s)
    BY <2>6
  <2> QED
    BY <2>7 DEF Current, Scan, s, t, more
<1> QED
  BY <1>1, ScansAreConsolidated, PTL

\* Findings that differ in the order of their evidence alone.
Twins(f, g) ==
  /\ f.rule = g.rule /\ f.severity = g.severity /\ f.confidence = g.confidence
  /\ ToSet(f.evidence) = ToSet(g.evidence)

LEMMA BelowTwins ==
  ASSUME NEW s, NEW t, Consolidated(s), Consolidated(t), Below(s, t), Below(t, s),
         NEW i \in 1 .. Len(s)
  PROVE  \E j \in 1 .. Len(t) : Twins(s[i], t[j])
<1>1. PICK j \in 1 .. Len(t) : Less(s[i], t[j])
  BY DEF Below
<1>2. PICK k \in 1 .. Len(s) : Less(t[j], s[k])
  BY DEF Below
<1>3. k = i
  BY <1>1, <1>2 DEF Less, Consolidated
<1> DEFINE a == s[i].severity  b == t[j].severity
           c == s[i].confidence  d == t[j].confidence
<1>4. a <= b /\ b <= a /\ c <= d /\ d <= c
  BY <1>1, <1>2, <1>3 DEF Less
<1>5. a \in 0 .. 4 /\ b \in 0 .. 4 /\ c \in 0 .. 100 /\ d \in 0 .. 100
  <2>1. s[i] \in Finding /\ t[j] \in Finding
    BY ElementOfSeq DEF Consolidated
  <2> QED
    BY <2>1, FindingFields
<1>6. a = b /\ c = d
  <2> HIDE DEF a, b, c, d
  <2> QED
    BY <1>4, <1>5
<1>7. s[i].rule = t[j].rule /\ ToSet(s[i].evidence) = ToSet(t[j].evidence)
  BY <1>1, <1>2, <1>3 DEF Less
<1> QED
  BY <1>6, <1>7 DEF Twins

\* Between scans that say the same there is no change.
LEMMA TwinsUnchanged ==
  ASSUME NEW s, NEW t, Consolidated(s), Consolidated(t), Below(s, t), Below(t, s)
  PROVE  ~HasChanges(Compare(Scan(s), Scan(t)))
<1> DEFINE C == Meets(s, t)
           d == Compare(Scan(s), Scan(t))
<1>1. /\ d.new = (1 .. Len(t)) \ {p[2] : p \in C}
      /\ d.removed = (1 .. Len(s)) \ {p[1] : p \in C}
      /\ d.changed = {p[2] : p \in {q \in C : Inspect(s[q[1]], t[q[2]])}}
      /\ d.scoreDelta = Score(t) - Score(s)
  <2>1. d.new = (1 .. Len(t)) \ {p[2] : p \in C}
    BY CompareIs
  <2>2. d.removed = (1 .. Len(s)) \ {p[1] : p \in C}
    BY CompareIs
  <2>3. d.changed = {p[2] : p \in {q \in C : Inspect(s[q[1]], t[q[2]])}}
    BY CompareIs
  <2>4. d.scoreDelta = Score(t) - Score(s)
    BY CompareIs
  <2> QED
    BY <2>1, <2>2, <2>3, <2>4
<1>2. /\ s \in Seq(Finding) /\ t \in Seq(Finding)
      /\ DOMAIN s = 1 .. Len(s) /\ DOMAIN t = 1 .. Len(t)
  BY LenProperties DEF Consolidated
<1> HIDE DEF d
<1>3. ASSUME NEW i \in 1 .. Len(s), NEW j \in 1 .. Len(t), Twins(s[i], t[j])
      PROVE  <<i, j>> \in C
  <2>1. s[i].evidence \in Seq(Evidence) /\ t[j].evidence \in Seq(Evidence)
    <3>1. s[i] \in Finding /\ t[j] \in Finding
      BY <1>2, ElementOfSeq
    <3> QED
      BY <3>1, FindingFields
  <2>2. /\ ToSet(s[i].evidence) = {} <=> s[i].evidence = <<>>
        /\ ToSet(t[j].evidence) = {} <=> t[j].evidence = <<>>
    <3> DEFINE a == s[i].evidence  b == t[j].evidence
    <3>1. a \in Seq(Evidence) /\ b \in Seq(Evidence)
      BY <2>1
    <3> HIDE DEF a, b
    <3>2. (ToSet(a) = {} <=> a = <<>>) /\ (ToSet(b) = {} <=> b = <<>>)
      BY <3>1, ItemsOf
    <3> QED
      BY <3>2 DEF a, b
  <2>3. CASE ToSet(s[i].evidence) = {}
    <3>1. s[i].evidence = <<>> /\ t[j].evidence = <<>>
      BY <1>3, <2>2, <2>3 DEF Twins
    <3>2. FindingKey(s[i]) = FindingKey(t[j])
      BY <1>3, <3>1 DEF FindingKey, Twins
    <3> QED
      BY <1>2, <3>2 DEF Meets, SameKey
  <2>4. CASE ToSet(s[i].evidence) # {}
    <3>1. FactsOf(s[i]) = FactsOf(t[j]) /\ FactsOf(s[i]) # {}
      BY <1>3, <2>4 DEF Twins, FactsOf
    <3>2. s[i].rule = t[j].rule /\ FactsOf(s[i]) \cap FactsOf(t[j]) # {}
      BY <1>3, <3>1 DEF Twins
    <3> QED
      BY <1>2, <3>2 DEF Meets, SharedEvidence
  <2> QED
    BY <2>3, <2>4
<1>4. \A p \in C : /\ p[1] \in 1 .. Len(s) /\ p[2] \in 1 .. Len(t)
                   /\ s[p[1]].rule = t[p[2]].rule
  BY MeetsFacts DEF Pairing
<1> HIDE DEF C
<1>5. d.removed = {}
  <2>1. ASSUME NEW i \in 1 .. Len(s) PROVE i \in {p[1] : p \in C}
    <3>1. PICK j \in 1 .. Len(t) : Twins(s[i], t[j])
      BY BelowTwins
    <3>2. <<i, j>> \in C /\ <<i, j>>[1] = i
      BY <1>3, <3>1
    <3> QED
      BY <3>2
  <2> QED
    BY <1>1, <2>1
<1>6. d.new = {}
  <2>1. ASSUME NEW j \in 1 .. Len(t) PROVE j \in {p[2] : p \in C}
    <3>1. PICK i \in 1 .. Len(s) : Twins(t[j], s[i])
      BY BelowTwins
    <3>2. Twins(s[i], t[j])
      BY <3>1 DEF Twins
    <3>3. <<i, j>> \in C /\ <<i, j>>[2] = j
      BY <1>3, <3>2
    <3> QED
      BY <3>3
  <2> QED
    BY <1>1, <2>1
<1>7. d.changed = {}
  <2>1. ASSUME NEW p \in C PROVE ~Inspect(s[p[1]], t[p[2]])
    <3> DEFINE i == p[1]  k == p[2]
    <3>1. i \in 1 .. Len(s) /\ k \in 1 .. Len(t) /\ s[i].rule = t[k].rule
      BY <1>4
    <3> HIDE DEF i, k
    <3>2. PICK j \in 1 .. Len(t) : Twins(s[i], t[j])
      BY <3>1, BelowTwins
    <3>3. j = k
      BY <3>1, <3>2 DEF Twins, Consolidated
    <3>4. s[i].confidence \in 0 .. 100
      BY <1>2, <3>1, ElementOfSeq, FindingFields
    <3> DEFINE c == s[i].confidence
    <3>5. /\ s[i].severity = t[k].severity /\ t[k].confidence = c
          /\ FactsOf(s[i]) = FactsOf(t[k])
      BY <3>2, <3>3 DEF Twins, FactsOf
    <3>6. ~(c - c >= 5)
      <4> HIDE DEF c
      <4>1. c \in 0 .. 100
        BY <3>4 DEF c
      <4> QED
        BY <4>1
    <3>7. ~Inspect(s[i], t[k])
      BY <3>5, <3>6 DEF Inspect
    <3> QED
      BY <3>7 DEF i, k
  <2> QED
    BY <1>1, <2>1
<1>8. d.scoreDelta = 0
  <2>1. /\ Score(s) <= Score(t) /\ Score(t) <= Score(s)
        /\ Score(s) \in 0 .. 100 /\ Score(t) \in 0 .. 100
    BY ScoreMonotone, ScoreIs
  <2> DEFINE a == Score(s)  b == Score(t)
  <2> HIDE DEF a, b
  <2>2. b - a = 0
    BY <2>1 DEF a, b
  <2> QED
    BY <1>1, <2>2 DEF a, b
<1> QED
  BY <1>5, <1>6, <1>7, <1>8 DEF HasChanges, d

\* The order in which analyzers return their findings is no change of the
\* target: swapping two that follow each other, and so any reordering, leaves
\* every rule with its severity, confidence and evidence, and the score.
THEOREM AlwaysOrderIsNoChange == Spec => []OrderIsNoChange
<1>1. IInv => OrderIsNoChange
  <2> SUFFICES ASSUME IInv, NEW i \in 1 .. Len(raw) - 1
               PROVE  ~HasChanges(Compare(Current, Scan(FindingsOf(
                        [raw EXCEPT ![i] = raw[i + 1], ![i + 1] = raw[i]], known))))
    BY DEF OrderIsNoChange
  <2> DEFINE N == Len(raw)
             j == i + 1
             half == [raw EXCEPT ![i] = raw[j]]
             swapped == [half EXCEPT ![j] = raw[i]]
             s == FindingsOf(raw, known)
             t == FindingsOf(swapped, known)
  <2>1. raw \in Seq(Emitted) /\ known \in Knowledge
    BY DEF IInv
  <2>2. N \in Nat /\ i \in 1 .. N /\ j \in 1 .. N /\ i # j
    <3>1. N \in Nat
      BY <2>1, LenProperties
    <3> HIDE DEF N
    <3>2. i \in 1 .. N - 1
      BY DEF N
    <3> QED
      BY <3>1, <3>2
  <2>3. swapped = [raw EXCEPT ![i] = raw[i + 1], ![i + 1] = raw[i]]
    OBVIOUS
  <2>4. raw[i] \in Emitted /\ raw[j] \in Emitted
    BY <2>1, <2>2, ElementOfSeq
  <2> HIDE DEF N, j
  <2>5. /\ half \in Seq(Emitted) /\ Len(half) = N
        /\ \A k \in 1 .. N : half[k] = IF k = i THEN raw[j] ELSE raw[k]
    BY <2>1, <2>2, <2>4, ExceptSeq DEF N
  <2> HIDE DEF half
  <2>6. /\ swapped \in Seq(Emitted) /\ Len(swapped) = N
        /\ \A k \in 1 .. N : swapped[k] = IF k = j THEN raw[i] ELSE half[k]
    BY <2>2, <2>4, <2>5, ExceptSeq
  <2> HIDE DEF swapped
  <2>7. \A k \in 1 .. N : swapped[k] = IF k = i THEN raw[j] ELSE IF k = j THEN raw[i] ELSE raw[k]
    BY <2>2, <2>5, <2>6
  <2>8. /\ \A k \in 1 .. N : \E l \in 1 .. N : raw[l] = swapped[k]
        /\ \A k \in 1 .. N : \E l \in 1 .. N : swapped[l] = raw[k]
    BY <2>2, <2>7
  <2>9. raw \in Seq(Finding) /\ swapped \in Seq(Finding)
    BY <2>1, <2>6, EmittedPlain
  <2>10. Below(raw, swapped) /\ Below(swapped, raw)
    <3>1. Len(raw) = N /\ Len(swapped) = N
      BY <2>6 DEF N
    <3>2. \A k \in 1 .. Len(raw) : \E l \in 1 .. Len(swapped) : swapped[l] = raw[k]
      BY <2>8, <3>1
    <3>3. \A k \in 1 .. Len(swapped) : \E l \in 1 .. Len(raw) : raw[l] = swapped[k]
      BY <2>8, <3>1
    <3> QED
      BY <2>9, <3>2, <3>3, BelowAmong
  <2>11. Consolidated(s) /\ Consolidated(t)
    BY <2>1, <2>6, FindingsOfType
  <2>12. Below(s, t) /\ Below(t, s)
    BY <2>1, <2>6, <2>10, BelowFindingsOf
  <2> HIDE DEF s, t
  <2>13. ~HasChanges(Compare(Scan(s), Scan(t)))
    BY <2>11, <2>12, TwinsUnchanged
  <2> QED
    BY <2>3, <2>13 DEF Current, s, t
<1> QED
  BY <1>1, ScansAreConsolidated, PTL
=============================================================================
