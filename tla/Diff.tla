--------------------------------- MODULE Diff ---------------------------------
(***************************************************************************)
(* Diff (internal/diff/diff.go): how the findings of a scan are matched    *)
(* with those of an earlier scan of the target, and what is reported.  The *)
(* scan IDs and times that a DiffResult copies are left out.               *)
(***************************************************************************)
EXTENDS Findings, FiniteSets

\* The descriptions of a finding's evidence; their sources do not matter.
FactsOf(f) == {e.fact : e \in ToSet(f.evidence)}

\* findingKey: the rule and the first evidence.  Findings without evidence
\* are told apart by their explanation, which goes with the rule.
FindingKey(f) ==
  <<f.rule, IF f.evidence = <<>> THEN {} ELSE {f.evidence[1].fact}>>

\* The two criteria of a match, as pairs of positions in the two scans.
SameKey(old, new) ==
  {p \in (DOMAIN old) \X (DOMAIN new) : FindingKey(old[p[1]]) = FindingKey(new[p[2]])}

SharedEvidence(old, new) ==
  {p \in (DOMAIN old) \X (DOMAIN new) :
     /\ old[p[1]].rule = new[p[2]].rule
     /\ FactsOf(old[p[1]]) \cap FactsOf(new[p[2]]) # {}}

\* The old findings that meet the criterion with the new finding j, and that
\* no other has.
Open(criterion, matched, j) ==
  {p[1] : p \in {q \in criterion : q[2] = j /\ q[1] \notin Range(matched)}}

\* One pass over the new findings: each that has no match yet takes the first
\* old one that is open to it.  A match is a function from positions in new to
\* positions in old.
Matching(criterion, new, matched) ==
  LET after[j \in 0 .. Len(new)] ==
        IF j = 0 THEN matched
        ELSE LET m == after[j - 1]
                 open == Open(criterion, m, j) IN
             IF j \in DOMAIN m \/ open = {} THEN m
             ELSE [k \in DOMAIN m \cup {j} |-> IF k = j THEN Min(open) ELSE m[k]]
  IN after

MatchPass(criterion, new, matched) == Matching(criterion, new, matched)[Len(new)]

\* Mutant of Matches: the second pass is forgotten.
MatchesByKey(old, new) == MatchPass(SameKey(old, new), new, <<>>)

Matches(old, new) ==
  MatchPass(SharedEvidence(old, new), new, MatchPass(SameKey(old, new), new, <<>>))

\* Mutant of Inspect: evidence that is gone is no change.
InspectAdded(f, g) ==
  \/ f.severity # g.severity
  \/ f.confidence - g.confidence >= 5 \/ g.confidence - f.confidence >= 5
  \/ ~(FactsOf(g) \subseteq FactsOf(f))

\* inspectChanges: whether anything is to be said about a matched finding.
\* Confidences are percents.
Inspect(f, g) ==
  \/ f.severity # g.severity
  \/ f.confidence - g.confidence >= 5 \/ g.confidence - f.confidence >= 5
  \/ FactsOf(f) # FactsOf(g)

\* A ScanResult, as far as Diff reads it.
Scan(findings) == [findings |-> findings, riskScore |-> Score(findings)]

\* Mutant of Compare: what is removed is decided after the first pass.
CompareEarly(old, new) ==
  LET of == old.findings
      nf == new.findings
      m == Matches(of, nf) IN
  [new |-> {j \in DOMAIN nf : j \notin DOMAIN m},
   removed |-> {i \in DOMAIN of : i \notin Range(MatchesByKey(of, nf))},
   changed |-> {j \in DOMAIN m : Inspect(of[m[j]], nf[j])},
   persisting |-> DOMAIN m,
   unchanged |-> Cardinality({j \in DOMAIN m : ~Inspect(of[m[j]], nf[j])}),
   scoreDelta |-> new.riskScore - old.riskScore]

\* The lists of the DiffResult, as sets of positions in the two scans.
Compare(old, new) ==
  LET of == old.findings
      nf == new.findings
      m == Matches(of, nf) IN
  [new |-> {j \in DOMAIN nf : j \notin DOMAIN m},
   removed |-> {i \in DOMAIN of : i \notin Range(m)},
   changed |-> {j \in DOMAIN m : Inspect(of[m[j]], nf[j])},
   persisting |-> DOMAIN m,
   unchanged |-> Cardinality({j \in DOMAIN m : ~Inspect(of[m[j]], nf[j])}),
   scoreDelta |-> new.riskScore - old.riskScore]

\* A first scan is a baseline: all of it is new.
Baseline(new) ==
  [new |-> DOMAIN new.findings, removed |-> {}, changed |-> {},
   persisting |-> {}, unchanged |-> 0, scoreDelta |-> new.riskScore]

\* DiffResult.HasChanges
HasChanges(d) ==
  d.new # {} \/ d.removed # {} \/ d.changed # {} \/ d.scoreDelta # 0
=============================================================================
