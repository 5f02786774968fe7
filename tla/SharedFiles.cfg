SPECIFICATION Spec
CONSTANTS
  p1 = p1
  p2 = p2
  nobody = nobody
  k1 = k1
  k2 = k2
  k3 = k3
  c1 = c1
  none = none
  torn = torn
  Procs = {p1, p2}
  NoProc = nobody
  Keys = {k1, k2, k3}
  Caps = {c1}
  Missing = none
  Torn = torn
  MaxIssued = 3
  MaxRequests = 2
INVARIANTS
  TypeOK
  FileKeyAccepted
  KeyNotLost
  FilesInStep
PROPERTIES
  KeyGoneForever
SYMMETRY Interchange
CHECK_DEADLOCK FALSE
