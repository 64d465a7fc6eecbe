\* The addresses have their real lengths; a name is empty or two bytes long, and
\* one byte of the target may follow the reply.
SPECIFICATION FairSpec
CONSTANTS
  NameLengths = {0, 2}
  AppBytes = 1
INVARIANTS
  StreamLeftClean
  FailureClosesConn
PROPERTIES
  DialEnds
