----------------------------- MODULE MCScanChanges -----------------------------
(***************************************************************************)
(* TLC instance of ScanChanges: findings as the analyzers make them, two of*)
(* them for each of two rules.                                             *)
(***************************************************************************)
EXTENDS ScanChanges

CONSTANTS home, about, addr1, addr2, sig, gps, camera, key, cert, p, q

Fact(t, d) == [type |-> t, description |-> d]
Seen(t, d, s) == [fact |-> Fact(t, d), source |-> s]

MCFacts ==
  {Fact("ip", addr1), Fact("ip", addr2), Fact("fingerprint", sig), Fact("tls", cert),
   Fact("metadata", gps), Fact("metadata", camera), Fact("credential", key)}
MCRules == {"INFRA-001", "FP-001", "OPSEC-003", "CRED-002", "SEC-001"}
MCSources == {home, about}
MCPeers == {p, q}

Emit(rule, severity, confidence, evidence) ==
  [rule |-> rule, severity |-> severity, confidence |-> confidence, evidence |-> evidence]

MCEmitted == {
  Emit("INFRA-001", 2, 40, <<Seen("ip", addr1, home)>>),
  Emit("INFRA-001", 2, 40, <<Seen("ip", addr2, about), Seen("ip", addr1, about)>>),
  Emit("FP-001", 0, 100, <<Seen("fingerprint", sig, home)>>),
  Emit("OPSEC-003", 1, 95, <<Seen("metadata", camera, home)>>),
  Emit("OPSEC-003", 3, 95, <<Seen("metadata", gps, about)>>),
  Emit("CRED-002", 4, 99, <<Seen("credential", key, home)>>)}

\* Nothing; or an address on two targets, and the fingerprint on one of them.
MCKnowledge == {
  [f \in MCFacts |-> {}],
  [f \in MCFacts |-> CASE f = Fact("ip", addr1) -> {p, q}
                       [] f = Fact("fingerprint", sig) -> {p}
                       [] OTHER -> {}]}
=============================================================================
