SPECIFICATION PSpec
CONSTANTS
  p1 = p1
  p2 = p2
  nobody = nobody
  k1 = k1
  k2 = k2
  k3 = k3
  c1 = c1
  s1 = s1
  none = none
  torn = torn
  Procs = {p1, p2}
  NoProc = nobody
  Keys = {k1, k2}
  Caps = {c1, s1}
  Selectable = {c1}
  Missing = none
  Torn = torn
  MaxIssued = 2
  MaxRequests = 1
INVARIANTS
  PTypeOK
  HolderAccepted
  BoundTokens
  ClaimsInForce
SYMMETRY Interchange
CHECK_DEADLOCK FALSE
