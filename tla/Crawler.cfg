\* Four URLs and a page less than that, so that MaxPages cuts some crawls off;
\* at most two redirects are followed.
SPECIFICATION FairSpec
CONSTANTS
  URLs = {root, u, v, w}
  Offsite = {x}
  Root = root
  MaxPages = 3
  MaxRedirects = 3
INVARIANTS
  PagesBoundedAndDistinct
  RequestsStayOnsite
  BreadthFirst
  NothingLeftBehind
PROPERTIES
  Terminates
