SPECIFICATION FairSpec
CONSTANTS
  p1 = p1
  p2 = p2
  p3 = p3
  Workers = {p1, p2, p3}
  Signatures <- MCSignatures
  MaxDocuments = 1
  MaxCrashes = 2
INVARIANTS
  TypeOK
  AllAccept
PROPERTIES
  KeyFileSettles
  ServesAgain
CHECK_DEADLOCK FALSE
