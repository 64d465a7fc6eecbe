\* Room for every page: what is missing was not cut off by MaxPages.
SPECIFICATION Spec
CONSTANTS
  URLs = {root, u, v}
  Offsite = {x}
  Root = root
  MaxPages = 4
  MaxRedirects = 2
INVARIANTS
  FetchedPagesReturned
