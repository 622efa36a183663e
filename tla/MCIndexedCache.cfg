SPECIFICATION Spec
CONSTANTS
  c1 = c1
  c2 = c2
  k1 = k1
  k2 = k2
  n1 = n1
  v1 = v1
  v2 = v2
  Client <- MCClient
  NoClient = NoClient
  Key <- MCKey
  Namespace <- MCNamespace
  NsOf <- MCNsOf
  Val <- MCVal
  NoVal = NoVal
  NoPub = NoPub
  LockedReads = FALSE
  MayDisable = FALSE
  MaxCalls = 4
SYMMETRY Symmetry
INVARIANTS
  IdentityUnique
  ActivatedIsStored
  GetReturnsCurrent
PROPERTIES
  RevisionsAdvance
  ImplementsMutableKV
