SPECIFICATION Spec
CONSTANTS
  k1 = k1
  k2 = k2
  v1 = v1
  Keys = {k1, k2}
  Checks = {v1}
  Ttl = 1
  MaxTime = 3
  MaxIssued = 3
  MaxTokens = 1
INVARIANTS
  PresenterIsSubject
