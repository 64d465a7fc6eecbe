\* Three runs over two targets, so that a run meets what two others saved,
\* with two correlated values, a credential and a clock of two seconds.
SPECIFICATION Spec
CONSTANTS
  Runs = {r1, r2, r3}
  Onions = {a, b}
  Signals = {ip, cert}
  Plain = {}
  Credentials = {cred}
  TicksPerSecond = 1
  MaxTime = 1
  NoRow = NoRow
SYMMETRY Symmetry
INVARIANTS
  TablesMatchLog
  PeersAreReal
  EarlierPeersFound
  ProvenanceResolves
  GraphsAgree
