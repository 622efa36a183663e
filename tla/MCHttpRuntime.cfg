SPECIFICATION FairSpec
CONSTANTS
  r1 = r1
  r2 = r2
  v1 = v1
  v2 = v2
  a = a
  b = b
  x = x
  Request <- MCRequest
  Version <- MCVersion
  Producer <- MCProducer
  Outside <- MCOutside
  Stores <- MCStores
  Caller <- MCCaller
  Policies <- MCPolicies
  Preloaded <- MCPreloaded
  Vouched <- MCVouched
  Served = v1
  PublishTo = "local"
  Validator = {TRUE}
  MaxTtl = 1
  MaxLag = 1
  StartTime = 2
  MaxTime = 3
  MaxStarts = 2
  MaxChanges = 1
INVARIANTS
  SingleFlight
  StaleIsSubmitted
  AsFreshAsClaimed
PROPERTIES
  KeyReleased
