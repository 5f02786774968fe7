SPECIFICATION FairSpec
CONSTANTS
  t1 = t1
  t2 = t2
  Threads = {t1, t2}
  Ttl = 3
  Patience = 2
  MaxVersion = 3
INVARIANTS
  TypeOK
  AnswersRecent
PROPERTIES
  RevocationHeard
  BehindOnlyByLateStore
