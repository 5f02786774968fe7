SPECIFICATION Spec
CONSTANTS
  a1 = a1
  a2 = a2
  k1 = k1
  k2 = k2
  k3 = k3
  c1 = c1
  c2 = c2
  s1 = s1
  s2 = s2
  o1 = o1
  o2 = o2
  root = root
  node = node
  stranger = stranger
  t1 = t1
  t2 = t2
  ve = ve
  vf = vf
  va = va
  vb = vb
  vc = vc
  vd = vd
  vr = vr
  vq = vq
  Agents = {a1, a2}
  Keys = {k1}
  Caps = {c1, c2}
  Scopes = {s1, s2}
  Operators = {o1, o2}
  OperatorKeys = {root, node, stranger}
  Kids = {"root", "node", ""}
  Audiences = {"here", "there"}
  RegistryDid = "here"
  Jwks <- MCJwks
  Vouchers = {ve, vf, vb, va, vr}
  Payload <- CrowdPayload
  Threads = {t1, t2}
  RequestedCharters <- CrowdCharters
  RequireVoucher = TRUE
  Ttl = 0
  Skew = 1
  StatusListBits = 8
  MaxTime = 0
INVARIANTS
  AuthorityRooted
  CharterBitTellsRevocation
PROPERTIES
  KeepsPromise
  SubjectReturns
CHECK_DEADLOCK FALSE
