SPECIFICATION FairSpec
CONSTANTS
  x = x
  y = y
  Prober = {t1}
  Reader = {t2}
  Result = {1, 2, 3}
  Blob = {x, y}
  BlobsOf <- MCBlobsOf
  Packaged = {1, 2, 3}
  Publishable = {1, 2, 3}
  Verdict <- MCVerdict
  MaxEntries = 2
  MaxAge = 1
  MaxSkew = 1
  Retention = 1
  Drift <- MCDrift
  NoResult = NoResult
  NoThread = NoThread
  MaxTime = 2
  MaxEdits = 1
INVARIANTS
  EntriesResolve
  PrunedWhenRead
PROPERTIES
  LeasedStays
  OnlyOfferedAdmitted
  LockReleased
