\* Directories may be nested once, so that some chains are cut off, and two
\* entries of each are read; two images are fetched for a page.
SPECIFICATION Spec
CHECK_DEADLOCK FALSE
CONSTANTS
  Start = 1
  MaxDepth = 1
  MaxEntries = 2
  MaxGPSEntries = 2
  NoValue = NoValue
  NoFile = NoFile
  PageLists <- MCPageLists
  ImageURLs = {"a", "/robots.txt", "c"}
  Images <- MCImages
  EvidenceIn <- ImageEvidence
  Handshakes <- MCHandshakes
  Listings <- MCListings
  MaxImagesPage = 2
  NoImage = NoImage
INVARIANTS
  ImagesReadSoundly
  ImagesAccountedFor
  ReceivedIsReported
