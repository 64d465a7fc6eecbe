------------------------------- MODULE Findings -------------------------------
(***************************************************************************)
(* What scan.Run computes from the findings of the analyzers:              *)
(* deduplication and the risk score (internal/risk/risk.go) and the        *)
(* correlations (internal/correlation/engine.go).                          *)
(*                                                                         *)
(* All findings of a scan have the scan's target, so it is left out.  A    *)
(* rule stands for the ID and the title of a finding, which every analyzer *)
(* sets; the texts that go with a rule and CreatedAt are left out.         *)
(* Confidences are percents and the sums of floats are exact.              *)
(***************************************************************************)
EXTENDS Integers, Sequences, SequencesExt

CONSTANTS
  Rules,    \* (ID, Title) of the findings of analyzers
  Facts,    \* [type, description]: descriptions that are not blank
  Sources,  \* where evidence was seen: URLs, "cross-target correlation"
  Peers     \* the other targets the store may know

Severities == 0 .. 4   \* INFO, LOW, MEDIUM, HIGH, CRITICAL
High == 3
Percent == 0 .. 100

\* The findings of the correlation and their only source.
Infra002 == "INFRA-002"
Infra004 == "INFRA-004"
Correlated == {Infra002, Infra004}
CrossTarget == "cross-target correlation"

ASSUME RulesAssumption == Rules \cap Correlated = {}
ASSUME PeersAssumption == IsFiniteSet(Peers)

\* "Shared <type> (<description>) also observed on target <peer>"
SharedFacts ==
  {[type |-> f.type, description |-> <<f.description, p>>] : f \in Facts, p \in Peers}

Evidence == [fact : Facts \cup SharedFacts, source : Sources \cup {CrossTarget}]
Finding == [rule : Rules \cup Correlated, severity : Severities,
            confidence : Percent, evidence : Seq(Evidence)]

Maximum(a, b) == IF a > b THEN a ELSE b

-----------------------------------------------------------------------------
(* DeduplicateFindings *)

\* Evidence with the same type, description and source is kept once.
AppendNew(s, e) == IF Contains(s, e) THEN s ELSE Append(s, e)

\* evs after each item of more.
Merging(evs, more) ==
  LET merged[n \in 0 .. Len(more)] ==
        IF n = 0 THEN evs ELSE AppendNew(merged[n - 1], more[n])
  IN merged

MergeEvidence(evs, more) == Merging(evs, more)[Len(more)]

\* Mutants of Merge: the severity of the first finding stays, the severity of
\* the last one wins.
MergeFirstSeverity(f, g) ==
  [f EXCEPT !.confidence = Maximum(@, g.confidence),
            !.evidence = MergeEvidence(@, g.evidence)]

MergeLastSeverity(f, g) ==
  [f EXCEPT !.severity = g.severity,
            !.confidence = Maximum(@, g.confidence),
            !.evidence = MergeEvidence(@, g.evidence)]

Merge(f, g) ==
  [f EXCEPT !.severity = Maximum(@, g.severity),
            !.confidence = Maximum(@, g.confidence),
            !.evidence = MergeEvidence(@, g.evidence)]

\* One round of the loop: f joins the finding of its rule, or is the first.
Consolidate(fs, f) ==
  LET i == SelectInSeq(fs, LAMBDA g : g.rule = f.rule) IN
  IF i = 0
  THEN Append(fs, [f EXCEPT !.evidence = MergeEvidence(<<>>, @)])
  ELSE ReplaceAt(fs, i, Merge(fs[i], f))

\* What the loop has after each finding.
Consolidating(fs) ==
  LET consolidated[n \in 0 .. Len(fs)] ==
        IF n = 0 THEN <<>> ELSE Consolidate(consolidated[n - 1], fs[n])
  IN consolidated

DeduplicateFindings(fs) == Consolidating(fs)[Len(fs)]

-----------------------------------------------------------------------------
(* Score *)

SeverityWeight == [s \in Severities |-> <<0, 5, 15, 30, 50>>[s + 1]]

Weight(f) == SeverityWeight[f.severity] * f.confidence

\* The sums of the first terms.
Adding(ns) ==
  LET sum[n \in 0 .. Len(ns)] == IF n = 0 THEN 0 ELSE sum[n - 1] + ns[n]
  IN sum

Total(ns) == Adding(ns)[Len(ns)]

\* The sum over the consolidated findings, at most 100 and truncated.
Score(fs) ==
  LET ds == DeduplicateFindings(fs)
      total == Total([i \in DOMAIN ds |-> Weight(ds[i])]) IN
  IF total > 10000 THEN 100 ELSE total \div 100

-----------------------------------------------------------------------------
(* CorrelateWithStore *)

\* DefaultWeights, in twentieths; other types weigh a quarter.
EvidenceWeight(type) ==
  CASE type = "ip" -> 8
    [] type = "fingerprint" -> 10
    [] type = "tls" -> 12
    [] type = "hostname" -> 10
    [] type = "external_resource" -> 7
    [] type \in {"email", "metadata"} -> 6
    [] OTHER -> 5

\* The products of the first factors.
Multiplying(ns) ==
  LET product[n \in 0 .. Len(ns)] == IF n = 0 THEN 1 ELSE product[n - 1] * ns[n]
  IN product

Product(ns) == Multiplying(ns)[Len(ns)]

\* 1 minus the product of (1 - w), rounded to a percent, at most 99; the
\* weights are twentieths.
WeightedConfidence(weights) ==
  LET scale == Product([i \in DOMAIN weights |-> 20])
      doubt == Product([i \in DOMAIN weights |-> 20 - weights[i]])
      conf == (100 * (scale - doubt) + scale \div 2) \div scale IN
  IF weights = <<>> THEN 0 ELSE IF conf > 99 THEN 99 ELSE conf

TypeWeights(types) ==
  LET ts == SetToSeq(types) IN [i \in DOMAIN ts |-> EvidenceWeight(ts[i])]

\* All evidence of the findings, in their order.
AllEvidence(fs) == FlattenSeq([i \in DOMAIN fs |-> fs[i].evidence])
TypesOf(fs) == {e.fact.type : e \in ToSet(AllEvidence(fs))}

\* The items of evs that are of certain types, as they are met.
Picking(evs, types) ==
  LET picked[n \in 0 .. Len(evs)] ==
        IF n = 0 THEN <<>>
        ELSE IF evs[n].fact.type \in types THEN Append(picked[n - 1], evs[n])
        ELSE picked[n - 1]
  IN picked

OfTypes(evs, types) == Picking(evs, types)[Len(evs)]

\* An IP address and a response fingerprint in the same scan.
Infra002Finding(fs) ==
  LET types == TypesOf(fs) \cap {"fingerprint", "tls", "hostname"} IN
  [rule |-> Infra002,
   severity |-> High,
   confidence |-> WeightedConfidence(<<EvidenceWeight("ip")>> \o TypeWeights(types)),
   evidence |-> OfTypes(AllEvidence(fs), {"ip"})]

SameScan(fs) ==
  IF {"ip", "fingerprint"} \subseteq TypesOf(fs)
  THEN Append(fs, Infra002Finding(fs)) ELSE fs

CrossTypes == {"ip", "tls", "fingerprint", "email", "external_resource"}

\* The evidence of the analyzers' findings.
OwnEvidence(fs) ==
  FlattenSeq([i \in DOMAIN fs |->
                IF fs[i].rule \in Correlated THEN <<>> ELSE fs[i].evidence])

\* Each fact of a correlated type in it, once, in order of its first occurrence.
LookedUp(fs) ==
  LET evs == OfTypes(OwnEvidence(fs), CrossTypes)
  IN MergeEvidence(<<>>, [i \in DOMAIN evs |-> evs[i].fact])

\* known[f] is what FindCoOccurringTargets answers for the fact f, without
\* the target itself; it is empty when the query fails.
SharedWith(f, known) ==
  LET peers == SetToSeq(known[f]) IN
  [i \in DOMAIN peers |->
     [fact |-> [type |-> f.type, description |-> <<f.description, peers[i]>>],
      source |-> CrossTarget]]

CrossTargets(fs, known) ==
  LET facts == LookedUp(fs)
      shared == FlattenSeq([i \in DOMAIN facts |-> SharedWith(facts[i], known)])
      peers == {e.fact.description[2] : e \in ToSet(shared)}
      types == {e.fact.type : e \in ToSet(shared)} IN
  IF shared = <<>> THEN fs
  ELSE Append(fs,
         [rule |-> Infra004,
          severity |-> High,
          confidence |-> Maximum(75, WeightedConfidence(
            <<10>> \o TypeWeights(types) \o [i \in 1 .. Cardinality(peers) - 1 |-> 4])),
          evidence |-> shared])

CorrelateWithStore(fs, known) == CrossTargets(SameScan(fs), known)

-----------------------------------------------------------------------------
\* The findings of the ScanResult that scan.Run makes of the analyzers' ones.
FindingsOf(raw, known) ==
  DeduplicateFindings(CorrelateWithStore(DeduplicateFindings(raw), known))
=============================================================================
