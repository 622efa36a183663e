SPECIFICATION Spec
CONSTANTS
  c1 = c1
  c2 = c2
  k1 = k1
  k2 = k2
  n1 = n1
  n2 = n2
  Client <- MCClient
  NoClient = NoClient
  Key <- MCKey
  Namespace <- MCNamespace
  NsOf <- MCNsOf
  Ttl = {1}
  NoExpiry = NoExpiry
  MaxCalls = 3
  MaxTime = 2
SYMMETRY Symmetry
INVARIANTS
  NoLostRotation
  ServesLive
PROPERTY
  ClearIsExact
