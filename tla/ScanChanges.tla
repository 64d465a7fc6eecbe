------------------------------ MODULE ScanChanges ------------------------------
(***************************************************************************)
(* One target scanned again and again: the loop of scan.Run that collects  *)
(* the analyzers' findings page by page, what it makes of them at the end, *)
(* and the comparison of the scan with the one before it.                  *)
(***************************************************************************)
EXTENDS Diff

CONSTANTS
  Emitted,      \* findings analyzers return
  Knowledge,    \* what the store may know of other targets
  MaxEmitted,   \* bound of the model: findings of the analyzers in a scan
  MaxBaseline,  \* bound of the model: the same for a scan that others follow
  NoScan        \* the target has no earlier scan

ASSUME EmittedAssumption ==
  /\ Emitted \subseteq [rule : Rules, severity : Severities, confidence : Percent,
                        evidence : Seq([fact : Facts, source : Sources])]
  /\ Knowledge \subseteq [Facts -> SUBSET Peers]
  /\ MaxEmitted \in Nat /\ MaxBaseline \in Nat

VARIABLES
  raw,    \* what the analyzers have returned in this scan
  known,  \* what the store knows
  old     \* the scan before this one

vars == <<raw, known, old>>

Init == raw = <<>> /\ known \in Knowledge /\ old = NoScan

\* An analyzer returns a finding for a page.
Analyze ==
  /\ Len(raw) < MaxEmitted
  /\ \E f \in Emitted : raw' = Append(raw, f)
  /\ UNCHANGED <<known, old>>

\* Scans of other targets are saved.
Learn ==
  /\ known' \in Knowledge \ {known}
  /\ UNCHANGED <<raw, old>>

Current == Scan(FindingsOf(raw, known))

\* The scan is saved, and becomes the baseline of the next one.
EndScan ==
  /\ Len(raw) <= MaxBaseline
  /\ old' = Current
  /\ raw' = <<>>
  /\ UNCHANGED known

Next == Analyze \/ Learn \/ EndScan

Spec == Init /\ [][Next]_vars
-----------------------------------------------------------------------------
(* Correctness *)

Maxima(S) == CHOOSE m \in S : \A n \in S : n <= m

\* Consolidation loses and invents nothing: one finding for each rule, in the
\* order in which the rules were met, with the highest severity and confidence
\* of the rule's findings and all their evidence, once.  Pages that repeat what
\* others have shown change neither findings, correlations nor score.
ConsolidatesAll ==
  LET ds == DeduplicateFindings(raw)
      first(r) == SelectInSeq(raw, LAMBDA f : f.rule = r)
      group(r) == {f \in ToSet(raw) : f.rule = r} IN
  /\ {d.rule : d \in ToSet(ds)} = {f.rule : f \in ToSet(raw)}
  /\ \A i, j \in DOMAIN ds : i < j => first(ds[i].rule) < first(ds[j].rule)
  /\ \A d \in ToSet(ds) :
       /\ d.severity = Maxima({f.severity : f \in group(d.rule)})
       /\ d.confidence = Maxima({f.confidence : f \in group(d.rule)})
       /\ IsInjective(d.evidence)
       /\ ToSet(d.evidence) = UNION {ToSet(f.evidence) : f \in group(d.rule)}
  /\ DeduplicateFindings(Current.findings) = Current.findings
  /\ Scan(FindingsOf(raw \o raw, known)) = Current

\* No finding makes a target look safer: the risk score of the scan, with the
\* correlations it gives rise to, never falls while findings come in.
RiskNeverFalls ==
  \A f \in Emitted :
    Scan(FindingsOf(Append(raw, f), known)).riskScore >= Current.riskScore

\* The order in which pages were crawled and analyzers ran, and with it which
\* evidence of a finding comes first, is no change of the target.
OrderIsNoChange ==
  \A i \in 1 .. Len(raw) - 1 :
    LET swapped == [raw EXCEPT ![i] = raw[i + 1], ![i + 1] = raw[i]] IN
    ~HasChanges(Compare(Current, Scan(FindingsOf(swapped, known))))

\* Every finding of both scans is accounted for once: it is new, persisting or
\* removed, a persisting one is changed or counted unchanged, and what the
\* comparison calls new the reverse comparison calls removed.
DiffAccountsForAll ==
  old # NoScan =>
    LET d == Compare(old, Current)
        back == Compare(Current, old) IN
    /\ Cardinality(d.new) + Cardinality(d.persisting) = Len(Current.findings)
    /\ Cardinality(d.removed) + Cardinality(d.persisting) = Len(old.findings)
    /\ Cardinality(d.changed) + d.unchanged = Cardinality(d.persisting)
    /\ d.new = back.removed
    /\ d.removed = back.new
    /\ Cardinality(d.changed) = Cardinality(back.changed)

\* A report without changes is to be trusted: both scans have the same rules,
\* with the same severities and facts and the same score.
SilenceMeansSame ==
  old # NoScan /\ ~HasChanges(Compare(old, Current)) =>
    LET gist(s) == {<<f.rule, f.severity, FactsOf(f)>> : f \in ToSet(s.findings)} IN
    /\ gist(old) = gist(Current)
    /\ old.riskScore = Current.riskScore
=============================================================================
