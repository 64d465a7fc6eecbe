\* Three saves of two targets in two seconds, so that scans replace each other
\* and are saved against the order in which they ended.
SPECIFICATION Spec
CHECK_DEADLOCK FALSE
CONSTANTS
  email = email
  address = address
  password = password
  Onions = {a, b}
  Seconds = {s, t}
  Items = {email, address, password}
  Unindexed = {password}
  ItemLists <- MCItemLists
  MaxSaves = 3
  NoFile = NoFile
  Torn = Torn
SYMMETRY MCSymmetry
INVARIANTS
  LinksResolve
  IndexAccountsForScans
  SavedScansKept
