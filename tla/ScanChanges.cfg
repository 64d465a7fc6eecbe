\* Scans of up to three findings out of six, the rules of two of which agree;
\* the store knows nothing, or two targets that share evidence.
SPECIFICATION Spec
CONSTANTS
  home = home
  about = about
  addr1 = addr1
  addr2 = addr2
  sig = sig
  gps = gps
  camera = camera
  key = key
  cert = cert
  p = p
  q = q
  Rules <- MCRules
  Facts <- MCFacts
  Sources <- MCSources
  Peers <- MCPeers
  Emitted <- MCEmitted
  Knowledge <- MCKnowledge
  MaxEmitted = 3
  MaxBaseline = 2
  NoScan = NoScan
INVARIANTS
  ConsolidatesAll
  OrderIsNoChange
  DiffAccountsForAll
  SilenceMeansSame
  RiskNeverFalls
