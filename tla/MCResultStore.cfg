SPECIFICATION FairSpec
CONSTANTS
  d = d
  e = e
  m = m
  o = o
  s = s
  derive = derive
  other = other
  NoExpiry = NoExpiry
  Publisher = {p1}
  Result = {d, e, m, o, s}
  Action = {derive, other}
  Blob = {d, e, m, o, s}
  ActionOf <- MCActionOf
  BlobsOf <- MCBlobsOf
  DepsOf <- MCDepsOf
  ProducedAt <- MCProducedAt
  FreshUntil <- MCFreshUntil
  Lineage <- MCLineage
  Distrusted = {o}
  NumTiers = 2
  Flaky = {1}
  Seed <- MCSeed
  Publishable <- MCPublishable
  Recordable <- MCRecordable
  LaxModes = {TRUE, FALSE}
  StrictModes = {TRUE, FALSE}
  PermitNoExpiry = TRUE
  MaxDepth = 2
  MaxEdges = 2
  Second = 2
  MaxTime = 1
  MaxRecords = 1
INVARIANTS
  IndexResolves
  HitIsAdmissible
  NoFalseMiss
PROPERTY
  LookupEnds
